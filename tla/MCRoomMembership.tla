-------------------------- MODULE MCRoomMembership --------------------------
(* A user creates a private room; another one joins and leaves it, each in  *)
(* two requests, while asking for the room's members in two ways.           *)
EXTENDS RoomMembership

CONSTANTS create, leave1, leave2, join1, join2, detail, mine, r1, u1, u2

MCKind == [q \in Req |->
  CASE q = create -> "create" [] q \in {leave1, leave2} -> "leave"
    [] q \in {join1, join2} -> "join" [] q = detail -> "detail" [] q = mine -> "mine"]
MCRoomOf == [q \in Req |-> r1]
MCUserOf == [q \in Req |-> IF q = create THEN u1 ELSE u2]
=============================================================================
