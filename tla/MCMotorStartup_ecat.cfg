\* Two EtherCAT drives that come and go for longer than the wait lasts.
SPECIFICATION FairSpec
CONSTANTS
  N = 2
  MotorType = "ecat"
  WaitForReady = TRUE
  InitScalars <- mc_InitScalars
  InitVectors <- mc_InitVectors
  Period = 1
  TimeCap = 6
  IntHalf = 8
  Timeout = 4
  RequiredStable = 3
INVARIANTS HandsOverInit AnchoredMeansStable
PROPERTIES ConstructorEnds
