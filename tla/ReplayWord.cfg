SPECIFICATION WordSpec
CONSTANTS
  Window = 4
  Counters = {0, 1, 2, 3, 4, 5, 6, 7, 8, 9, 10}
INVARIANTS TypeOK WindowExact WordAgrees
PROPERTY KeepsPromise
