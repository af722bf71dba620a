CONSTANTS
  create = create leave1 = leave1 leave2 = leave2
  join1 = join1 join2 = join2 detail = detail mine = mine
  r1 = r1 u1 = u1 u2 = u2
  Room = {r1}
  User = {u1, u2}
  Req = {create, leave1, leave2, join1, join2, detail, mine}
  Kind <- MCKind
  RoomOf <- MCRoomOf
  UserOf <- MCUserOf
  Direct = {}
  Private = {r1}
  NoReq = NoReq
SPECIFICATION Spec
INVARIANTS
  TypeOK
PROPERTIES
  AnswersTrue
\* Every request ends.
CHECK_DEADLOCK FALSE
