\* Two keys, one event that has a message constant and one that has none.
SPECIFICATION FairSpec
CONSTANTS
  K = 2
  KeyEvents = {click, other}
  KnownEvents = {click}
  MaxEvents = 4
INVARIANTS NoCallbackAfterFree
PROPERTIES CleanupEnds StreamSpec
