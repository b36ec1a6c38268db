SPECIFICATION Spec
CONSTANTS
  Zones <- OrdinaryZones
  Settings <- Empty
  Start <- Starts
  StepAt <- NoSteps
  Steps <- NoSteps
  Horizon = 440
  MaxBusy = 2
PROPERTIES
  EmptyDisables
