CONSTANTS
  c1 = c1 c2 = c2 c3 = c3 t1 = t1 r1 = r1 u1 = u1 u2 = u2
  Room = {r1}
  User = {u1, u2}
  NoConn = NoConn
  Conn <- MCConn
  Caster <- MCCaster
  Task = {t1}
  RoomOf <- MCRoomOf
  UserOf <- MCUserOf
SPECIFICATION FairSpec
ACTION_CONSTRAINT ThirdOrTask
INVARIANTS
  TypeOK
  IndexesAgree
  LoneOnlineRegistered
  EndedUnregistered
PROPERTIES
  OpenNeverDisplaced
  MgrSpec
  ClosedEnds
\* Every connection may end.
CHECK_DEADLOCK FALSE
