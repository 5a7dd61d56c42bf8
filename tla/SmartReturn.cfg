SPECIFICATION FairSpec
CONSTANTS
  FailThreshold = 2
  RecoverThreshold = 2
  AckQueue = 2
  MaxFaults = 1
INVARIANTS RouteFollowsController GracefulStopIsClean 
PROPERTIES RecoveryJustified OutageFallsBackUnlessFault RecoveryReturns
