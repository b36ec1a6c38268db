SPECIFICATION Spec
CONSTANTS
  Environments <- Envs
  Accounts <- Lists
  FactsOf <- Cars
INVARIANTS
  TypeOK
  HomeAssistantShowsWhatWasTold
  PageShowsWhatWasTold
  PositionKept
  AcceptedMeansUsable
