\* A breath of 511 ms.
SPECIFICATION Spec
CONSTANTS
  N = 1
  TickPeriod = 5
  Commands <- mc_OddBreath
  PublishOnCommand = TRUE
  PublishOnStartup = TRUE
INVARIANTS BreathPeakIsOn
