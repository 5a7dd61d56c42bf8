SPECIFICATION FairSpec
CONSTANTS
  Roles = {"iran", "kharej"}
  Transports = {"udp", "tcp", "kcp"}
  SmartRoles = {"iran"}
  Receivers = {"r1", "r2"}
  FirstReceiver = "r1"
  TunQueues = {"q0", "q1"}
  FirstQueue = "q0"
INVARIANTS ExitIsClean OpenedQueuesInUse
PROPERTIES CarrierWorkersEnd TunFailureStops
CHECK_DEADLOCK FALSE
