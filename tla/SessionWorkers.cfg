SPECIFICATION Spec
CONSTANTS
  w1 = w1  w2 = w2  q1 = q1  q2 = q2  resp = resp  a1 = a1  a2 = a2  srv = srv
  Window = 2
  Workers = {w1, w2}
  TunQueues = {}
  Responders = {resp}
  Addrs = {a1, a2}
  ServerAddr = srv
  MaxHandshakes = 1
  MaxSessions = 1
  MaxPackets = 2
  MaxKeepalives = 1
  MaxCrashes = 0
SYMMETRY Interchangeable
INVARIANTS SessionInvariant
