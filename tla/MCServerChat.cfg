SPECIFICATION RoomOpenSpec
CONSTANTS
  Client = {c1, c2, c3}
  Language = {ru, en}
  RoomID = {r1, r2}
  None = None
  OutboundCap = 1
  MaxCommands = 3
  TotalCommands = 5
  Commands = {"find_partner", "send_message"}
SYMMETRY ServerSymmetry
INVARIANTS
  Inv
  NoOrphanRoom
  RoomConfinement
