----------------------------- MODULE MCPresence -----------------------------
(* One user with two connections, in two rooms or two processes; the code's *)
(* 300 s and 60 s are five ticks and one.                                   *)
EXTENDS Presence

CONSTANTS c1, c2, u1

OneUser == [c \in {c1, c2} |-> u1]
=============================================================================
