\* Two LEDs, one of which is commanded twice.
SPECIFICATION Spec
CONSTANTS
  N = 2
  TickPeriod = 1
  Commands <- mc_TwoLeds
  PublishOnCommand = TRUE
  PublishOnStartup = TRUE
INVARIANTS SubscriberSeesEveryLed
