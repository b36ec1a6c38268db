SPECIFICATION FairSpec
CONSTANTS
  Configs = {"soc", "range"}
  Callbacks = {"cb1"}
  MaxWire = 3
INVARIANTS
  TypeOK
  NoGhostOnline
PROPERTIES
  StableMeansOnline
  StableMeansDiscovered
  CrashMeansOffline
  ShutdownEnds
