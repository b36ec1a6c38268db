SPECIFICATION FairSpec
CONSTANTS
  Requesters = {"r1"}
  MaxIssues = 4
  Persistent = TRUE
  IssueRevokes = TRUE
INVARIANTS
  NoSpuriousFailure
PROPERTIES
  RequestEnds
