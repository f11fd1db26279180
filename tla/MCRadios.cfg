\* Every optional step of the modem's construction is asked for, the first
\* status is left to the timer; contexts at and beyond both bounds.
SPECIFICATION RadiosSpec
CONSTANTS
  DefaultCid = 1
  PublishOnStartup = FALSE
  PowerOnOnStartup = TRUE
  ApplyDefaultPdpOnStartup = TRUE
  StartDataOnStartup = TRUE
  RequestedCids = {0, 20, 21}
  PowerStates = {0, 1}
  DataStates = {0, 2}
  EnableOnStartup = TRUE
  ScanOnStartup = TRUE
  PeriodicScan = TRUE
  ScanMaxResults = 32
  ScanSsid = "home"
  Requests <- mc_Requests
  Totals = {0, 300}
  Radios <- mc_Radios
INVARIANTS RadioTypes DeviceLifetime HonestStatus DialledCidShown StatusWasTrue AnswerIsPublished
PROPERTIES InfoStays LinkLossIsShown
\* Nodes stop.
CHECK_DEADLOCK FALSE
