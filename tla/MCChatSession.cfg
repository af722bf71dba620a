CONSTANTS
  s1 = s1 s2 = s2 u1 = u1 m1 = m1 m2 = m2 m3 = m3
  Session = {s1, s2}
  User = {u1}
  UserOf <- TabsOf
  Msg = {m1, m2, m3}
  Batch <- MCBatch
  Failures = {"redis", "db", "crash"}
  NoSession = NoSession
  MaxTime = 5
SPECIFICATION Spec
INVARIANTS
  TypeOK
  CommittedPublished
  FollowUpsInOrder
PROPERTIES
  RetriesAddNothing
SYMMETRY Symmetry
CHECK_DEADLOCK FALSE
