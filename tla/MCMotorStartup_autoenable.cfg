\* The drives never become ready before the wait ends.
SPECIFICATION Spec
CONSTANTS
  N = 2
  MotorType = "ecat"
  WaitForReady = TRUE
  InitScalars <- mc_InitScalars
  InitVectors <- mc_InitVectors
  Period = 1
  TimeCap = 6
  IntHalf = 8
  Timeout = 4
  RequiredStable = 3
INVARIANTS AutoEnabledWhenReady
