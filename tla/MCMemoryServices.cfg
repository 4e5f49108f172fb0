SPECIFICATION MemorySpec
CONSTANTS
  Client = {c1, c2, c3, c4}
  Language = {ru, en}
  RoomID = {r1, r2, r3}
  None = None
INVARIANTS
  QueueTypeOK
  OneSearchPerClient
  NoCompatibleWaiting
  RoomsTypeOK
  RoomIndex
PROPERTIES
  ImplementsPool
  ImplementsOpenRooms
