SPECIFICATION FairSpec
CONSTANTS
  FailThreshold = 2
  RecoverThreshold = 2
  AckQueue = 1
  MaxFaults = 1
PROPERTY OutageFallsBack
