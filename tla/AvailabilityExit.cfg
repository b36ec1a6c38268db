SPECIFICATION Spec
CONSTANTS
  Configs = {"soc", "range"}
  Callbacks = {"cb1"}
  MaxWire = 2
INVARIANTS
  ExitLeavesOffline
