------------------------------- MODULE MCPools -------------------------------
(* Two WebSockets and two requests share two database and two Redis          *)
(* connections, in place of 30 and 20.                                      *)
EXTENDS Pools

CONSTANTS s1, s2, q1, q2
=============================================================================
