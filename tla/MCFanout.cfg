CONSTANTS
  p1 = p1
  Process = {p1}
  Conn <- MCConn
  ProcOf <- MCProcOf
  MaxEvents = 2
SPECIFICATION FairSpec
INVARIANTS
  TypeOK
PROPERTIES
  FeedSpec
  InOrderUnlessOneGone
  SentIsDelivered
\* Connections come once and events are bounded.
CHECK_DEADLOCK FALSE
