SPECIFICATION FairSpec
CONSTANTS
  Writers = {"w1", "w2"}
  MaxBreaks = 1
  MaxWrites = 2
INVARIANTS TypeOK NoConnLeaked FramesWhole
PROPERTIES HealthyConnKept CloseWakesAll Reconnects
CHECK_DEADLOCK FALSE
