\* Two CAN motors, a driver that fails, the limit lowered and the watchdog
\* switched off and on.
SPECIFICATION Spec
CONSTANTS
  N = 2
  MotorType = "can"
  WaitForReady = TRUE
  InitScalars <- mc_InitScalars
  InitVectors <- mc_InitVectors
  Messages <- mc_Messages
  ParamLists <- mc_ParamLists
  Period = 1
  TimeCap = 5
  IntHalf = 8
INVARIANTS OnlySupportedModes DisabledMotorsIdle SentIsStored WatchdogStops
PROPERTIES NeverStopsEarly ChangesWithinLimits
