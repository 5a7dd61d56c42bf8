SPECIFICATION FairSpec
CONSTANTS
  NumCPU = 2
  Files <- MCFiles
  Scenarios <- MCScenarios
INVARIANTS CleanupLeavesNothing CarrierAvoidsTunnel ServiceWorks OwnTrafficAdmitted UnrelatedStaysDirect LockedPortsClosed
PROPERTY StartsAgain
CHECK_DEADLOCK FALSE
