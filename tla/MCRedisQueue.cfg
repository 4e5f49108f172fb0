SPECIFICATION FairStoreSpec
CONSTANTS
  Client = {c1, c2, c3, c4}
  Language = {ru, en}
  None = None
  StepCount = 2
  WaitingTTL = 2
  MatchedTTL = 3
  MaxLine = 4
INVARIANTS
  StoreTypeOK
  WaitingIsListed
  NoCompatibleRecords
  ReservationsMirrored
PROPERTIES
  ImplementsReservations
  RecordsEnd
