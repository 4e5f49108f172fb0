SPECIFICATION FairRepositorySpec
CONSTANTS
  Client = {c1, c2}
  Language = {ru, en}
  None = None
  StepCount = 1
  WaitingTTL = 1
  MatchedTTL = 2
  MaxLine = 9
  Retries = 1
  TotalCalls = 3
INVARIANT
  RepositoryTypeOK
  RepositoryInv
PROPERTIES
  MatchReturnedIsReserved
  CallsReturn
