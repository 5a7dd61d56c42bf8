SPECIFICATION Spec
CONSTANTS
  w1 = w1  w2 = w2  q1 = q1  q2 = q2  resp = resp  a1 = a1  a2 = a2  srv = srv
  Window = 2
  Workers = {w1}
  TunQueues = {q1}
  Responders = {}
  Addrs = {a1}
  ServerAddr = srv
  MaxHandshakes = 2
  MaxSessions = 2
  MaxPackets = 2
  MaxKeepalives = 0
  MaxCrashes = 1
INVARIANTS NonceNeverReused DeliveredAtMostOnce OneSessionPerHandshake KeysAgreed
PROPERTIES ExpiryIsJudged NoSessionRegression
