CONSTANTS
  Client <- MCClient
  RoomOf <- MCRoomOf
  Actor = 2
SPECIFICATION CastSpec
INVARIANTS
  CastTypeOK
  LastWord
\* Connections come once.
CHECK_DEADLOCK FALSE
