CONSTANTS
  m1 = m1 m2 = m2 m3 = m3 m4 = m4 m5 = m5
  Msg = {m1, m2, m3, m4, m5}
  Size = 2
SPECIFICATION Spec
SYMMETRY Sym
INVARIANTS
  TypeOK
  Complete
  RepeatsAreArrivals
  NextHasMessages
\* The walk ends.
CHECK_DEADLOCK FALSE
