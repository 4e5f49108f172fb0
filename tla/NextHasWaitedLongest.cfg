SPECIFICATION StoreSpec
CONSTANTS
  Client = {c1, c2, c3}
  Language = {ru, en}
  None = None
  StepCount = 2
  WaitingTTL = 2
  MatchedTTL = 2
  MaxLine = 4
INVARIANT
  NextHasWaitedLongest
