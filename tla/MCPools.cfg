CONSTANTS
  s1 = s1 s2 = s2 q1 = q1 q2 = q2
  Socket = {s1, s2}
  Request = {q1, q2}
  DbLimit = 2
  RedisLimit = 2
SPECIFICATION FairSpec
INVARIANTS
  TypeOK
  IdleHoldsNothing
  RefusedUnderLoadOnly
PROPERTIES
  PoolRecovers
\* Every handler may end.
CHECK_DEADLOCK FALSE
