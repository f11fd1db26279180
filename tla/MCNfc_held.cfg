\* One card that is held on the reader.
SPECIFICATION Spec
CONSTANTS
  Parameters <- mc_Readers
  Cards = {a}
  Rssi = {near, far}
  PublishDuplicates = FALSE
  AutoPollEnabled = TRUE
PROPERTIES HeldCardPublishedOnce
