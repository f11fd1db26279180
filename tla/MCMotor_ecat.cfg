\* Two EtherCAT motors enabled by the constructor; per-motor parameters of
\* every size, a timeout that does not fit an int, a negative limit.
SPECIFICATION FairSpec
CONSTANTS
  N = 2
  MotorType = "ecat"
  WaitForReady = TRUE
  InitScalars <- mc_InitScalars
  InitVectors <- mc_InitVectors
  Messages <- mc_EcatMessages
  ParamLists <- mc_VectorLists
  Period = 1
  TimeCap = 3
  IntHalf = 8
INVARIANTS TypeOK
PROPERTIES StopIsRetried
