SPECIFICATION Spec
CONSTANTS
  Zones <- MidnightWest
  Settings <- AllTimes
  Start <- Starts
  StepAt <- NoSteps
  Steps <- NoSteps
  Horizon = 440
  MaxBusy = 2
PROPERTIES
  OncePerLocalDay
