SPECIFICATION Spec
CONSTANTS
  Requesters = {"r1", "r2"}
  MaxIssues = 3
  Persistent = TRUE
  IssueRevokes = FALSE
INVARIANTS
  TypeOK
  AuthSerialised
  NoSpuriousFailure
  StoreFollowsMemory
  StoredRefreshUsable
  RequestsAuthenticated
