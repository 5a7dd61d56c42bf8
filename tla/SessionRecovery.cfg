SPECIFICATION Spec
CONSTANTS
  ClientNonces = {1, 2, 3}
  Addrs = {"a1", "a2"}
  MaxHellos = 1
  MaxAcks = 1
  MaxFaults = 1
PROPERTIES SidesFindEachOther
