SPECIFICATION FairSpec
CONSTANTS
  Client = {c1, c2}
  Language = {ru, en}
  RoomID = {r1}
  None = None
  OutboundCap = 2
  MaxCommands = 2
  TotalCommands = 3
  Commands = {"find_partner", "send_message", "invalid"}
PROPERTIES
  HandlersReturn
  SessionsEnd
  TakenRequestAnswered
