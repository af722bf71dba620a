CONSTANTS
  c1 = c1 c2 = c2 u1 = u1
  User = {u1}
  Conn = {c1, c2}
  UserOf <- OneUser
  TTL = 5
  Interval = 1
SPECIFICATION FairSpec
INVARIANTS
  TypeOK
  VisibleUntilOneLeaves
  KeyDeleted
PROPERTIES
  GhostGone
  Relisted
