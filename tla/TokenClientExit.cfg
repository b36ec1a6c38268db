SPECIFICATION Spec
CONSTANTS
  Requesters = {"r1"}
  MaxIssues = 3
  Persistent = TRUE
  IssueRevokes = FALSE
PROPERTIES
  PersistedAtExit
