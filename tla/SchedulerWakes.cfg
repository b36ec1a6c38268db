SPECIFICATION Spec
CONSTANTS
  ReadyFailureThreshold = 1
  FailureCap = 1
  ConfigMaxRetries = 1
  ForceEnabled = TRUE
  ForceOnlyWhenPluggedIn = FALSE
  MaxVersion = 1
INVARIANTS
  WakesOncePerDay
