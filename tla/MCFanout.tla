------------------------------ MODULE MCFanout ------------------------------
(* Three connections to one process: a task that waits for the first, one   *)
(* that waits for the second, and the third, at which they could overtake.  *)
EXTENDS Fanout

CONSTANT p1

MCConn == 1 .. 3
MCProcOf == [c \in MCConn |-> p1]
=============================================================================
