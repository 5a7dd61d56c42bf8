SPECIFICATION RunSpec
CONSTANTS
  Roles = {"kharej"}
  Transports = {"udp"}
  SmartRoles = {"kharej"}
  Receivers = {"r1", "r2"}
  FirstReceiver = "r1"
  TunQueues = {"q0", "q1"}
  FirstQueue = "q0"
INVARIANT WorkersCollected
CHECK_DEADLOCK FALSE
