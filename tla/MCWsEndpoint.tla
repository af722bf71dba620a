---------------------------- MODULE MCWsEndpoint ----------------------------
(* Two connections of one user to one room, as after a reconnect, and       *)
(* either one of another user to the same room or one subscriber task.      *)
EXTENDS WsEndpoint

CONSTANTS c1, c2, c3, t1, r1, u1, u2

MCConn == {c1, c2, c3}
MCCaster == MCConn \cup {t1}
MCRoomOf == [c \in MCConn |-> r1]
MCUserOf == [c \in MCConn |-> IF c = c3 THEN u2 ELSE u1]

\* Bound: the task begins a broadcast only once the third handler has ended,
\* which it may do at once.
ThirdOrTask == (\E t \in Task : Deliver(t)) => pc[c3] = "ended"

\* Two connections of one user only.
TwinConn == {c1, c2}
TwinCaster == TwinConn \cup {t1}
TwinRoomOf == [c \in TwinConn |-> r1]
TwinUserOf == [c \in TwinConn |-> u1]
=============================================================================
