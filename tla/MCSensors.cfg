\* Two cards with three signal strengths; for the other nodes see MCSensors.
SPECIFICATION SensorsSpec
CONSTANTS
  Parameters <- mc_Readers
  Cards = {a, b}
  Rssi = {near, mid, far}
  PublishDuplicates = FALSE
  AutoPollEnabled = TRUE
  PowerMonitors <- mc_PowerMonitors
  SwitchChannels <- mc_Switches
  PublishOnStartup = TRUE
  Batteries <- mc_Batteries
  NaN = NaN
  LightSensors <- mc_Sensors
  Levels = {0, 5, 7}
  Transport = "sim"
  RangeMin = 1
  RangeMax = 4
  ScanParams <- mc_ScanParams
  Frames <- mc_Frames
  Rates = {0, 50}
  TopicNames = {"imu", "rt/imu"}
  Timestamps = {0, 1999999, 5000001}
  SystemTime = 7
  IntHalf = 4
  MaxSamples = 3
  MaxInFlight = 2
INVARIANTS SensorTypes DevicesGivenBack TopicIsCurrent ReportsAreTrue ScanIsNearest DeliveredIsRead
PROPERTIES NoRepeats NewStayIsPublished FramesAreSafe ChangesAreShown SignalEnds
\* Nodes stop.
CHECK_DEADLOCK FALSE
