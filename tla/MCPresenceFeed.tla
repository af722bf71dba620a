--------------------------- MODULE MCPresenceFeed ----------------------------
(* The actor's room is listed between two connections to another one, the  *)
(* second of which so comes to an older room.                               *)
EXTENDS PresenceFeed

MCClient == 1 .. 3
MCRoomOf == [c \in MCClient |-> IF c = 2 THEN "second" ELSE "first"]
=============================================================================
