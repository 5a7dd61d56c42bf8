SPECIFICATION HelloSpec
CONSTANTS
  Nonces = {"c1", "c2"}
  Goroutines = {"w1", "w2"}
  Tolerance = 6
  Life = 8
  Ahead = 1
  Wait = 1
  MaxTime = 12
INVARIANTS AnsweredOnce HelloInv
