SPECIFICATION Spec
CONSTANTS
  Zones <- OrdinaryZones
  Settings <- AllTimes
  Start <- Starts
  StepAt <- StepTimes
  Steps <- Jumps
  Horizon = 440
  MaxBusy = 2
INVARIANTS
  TypeOK
  NoDayMissed
  WaitInRange
PROPERTIES
  OncePerLocalDay
