\* Two LEDs and the default tick of 50 ms.
SPECIFICATION FairSpec
CONSTANTS
  N = 2
  TickPeriod = 50
  Commands <- mc_Effects
  PublishOnCommand = TRUE
  PublishOnStartup = FALSE
INVARIANTS MirrorConsistent BlinkKeepsTime
PROPERTIES EveryLedIsRetained
