SPECIFICATION FairSpec
CONSTANTS
  Clients = {"old", "new"}
  Tokens = {"t1", "t2"}
  Others = {"a", "b"}
INVARIANTS
  TypeOK
  OthersNeverLost
PROPERTIES
  ConflictMeansTwoRivals
  KeepsStoreContract
  SaveEnds
