CONSTANTS
  c1 = c1 c2 = c2 c3 = c3 t1 = t1 r1 = r1 u1 = u1 u2 = u2
  Room = {r1}
  User = {u1}
  NoConn = NoConn
  Conn <- TwinConn
  Caster <- TwinCaster
  Task = {t1}
  RoomOf <- TwinRoomOf
  UserOf <- TwinUserOf
SPECIFICATION Spec
PROPERTIES
  CleanupSparesOthers
