SPECIFICATION ControllerSpec
CONSTANTS
  FailThreshold = 3
  RecoverThreshold = 2
  MaxResults = 9
INVARIANT CountsTheRun
PROPERTY KeepsHysteresis
CHECK_DEADLOCK FALSE
