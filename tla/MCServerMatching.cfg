SPECIFICATION OneWaitingSpec
CONSTANTS
  Client = {c1, c2, c3}
  Language = {ru, en}
  RoomID = {r1, r2}
  None = None
  OutboundCap = 1
  MaxCommands = 2
  TotalCommands = 4
  Commands = {"find_partner", "cancel_search"}
SYMMETRY ServerSymmetry
INVARIANTS
  TypeOK
  NoOrphanRoom
  SearchNotForgotten
  OneMatcherPerRequest
  OwnRequestID
  GoneLeavesNothing
  SearchInv
