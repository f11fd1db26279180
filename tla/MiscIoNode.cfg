\* An input and an output, three edges.
SPECIFICATION FairSpec
CONSTANTS
  N = 2
  Inputs = {1}
  MaxEdges = 3
INVARIANTS EventsAlternate StatesFollowEvents NoCallbackAfterFree
PROPERTIES StatesCatchUp
