SPECIFICATION FairSpec
CONSTANTS
  ReadyFailureThreshold = 2
  FailureCap = 2
  ConfigMaxRetries = 1
  ForceEnabled = TRUE
  ForceOnlyWhenPluggedIn = TRUE
  MaxVersion = 2
INVARIANTS
  TypeOK
  NeverOverlap
  FollowersNeverAhead
  SuccessMeansDelivered
  WokenOnlyWhenPluggedIn
  WakeBudget
PROPERTIES
  NeverRegresses
  ShutdownIsNotFailure
  KeepsContract
  RunReturns
  PollCycleEnds
