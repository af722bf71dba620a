----------------------------- MODULE Membership -----------------------------
(***************************************************************************)
(* What the rooms API promises its callers: each request to create, join   *)
(* or leave a room takes effect, or is refused, at one moment while it is  *)
(* being served, and its answer says which.  A request may also get no     *)
(* answer or an internal error, which promises nothing.                    *)
(*                                                                         *)
(* A request to see a room's members is answered out of two moments: one   *)
(* at which its caller may see them, and one at which they are these.      *)
(***************************************************************************)
CONSTANTS
  Req, Kind,        \* requests, each to "create", "join", "leave" or see ("detail", "mine") ...
  RoomOf, UserOf,   \* ... a room, by a user
  Direct, Private,  \* the rooms for direct messages, and the private ones
  Joinable          \* the rooms that anyone may join

VARIABLES
  rooms,    \* the rooms there are
  members,  \* the pairs of a room and a member of it
  fate,     \* "open" until a request took effect ("yes"), was refused
            \* ("no"), or has failed ("gone"); "half" after the first of the
            \* two moments of a request to see a room
  shown     \* the users a request to see a room was shown

memberVars == <<rooms, members, fate, shown>>

Member(q) == <<RoomOf[q], UserOf[q]>>

MembershipInit ==
  /\ rooms = {} /\ members = {}
  /\ fate = [q \in Req |-> "open"]
  /\ shown = [q \in Req |-> {}]

\* Requests Q are decided.
Decide(Q, kind, how) ==
  /\ Q # {}
  /\ \A q \in Q : Kind[q] = kind /\ fate[q] = "open"
  /\ fate' = [q \in Req |-> IF q \in Q THEN how ELSE fate[q]]
  /\ UNCHANGED shown

CreateRoom(q) ==
  /\ Decide({q}, "create", "yes")
  /\ RoomOf[q] \notin rooms
  /\ rooms' = rooms \cup {RoomOf[q]}
  /\ members' = members \cup {Member(q)}

JoinRoom(q) ==
  /\ Decide({q}, "join", "yes")
  /\ RoomOf[q] \in rooms \cap Joinable /\ Member(q) \notin members
  /\ members' = members \cup {Member(q)}
  /\ UNCHANGED rooms

\* Several requests of a user to leave one room may take effect together.
LeaveRoom(Q, k) ==
  /\ Decide(Q, "leave", "yes")
  /\ \A r \in Q : Member(r) = k
  /\ members' = members \ {k}
  /\ UNCHANGED rooms

RefuseJoin(q) ==
  /\ Decide({q}, "join", "no")
  /\ RoomOf[q] \notin rooms \cap Joinable \/ Member(q) \in members
  /\ UNCHANGED <<rooms, members>>

RefuseLeave(q) ==
  /\ Decide({q}, "leave", "no")
  /\ RoomOf[q] \notin rooms \/ Member(q) \notin members
  /\ UNCHANGED <<rooms, members>>

\* What the second moment of a request to see a room is for comes first or
\* last: "detail" is shown the members before its right to see them is
\* checked, "mine" afterwards.
SeeRoom(q, kind, from, to) ==
  /\ Kind[q] = kind /\ fate[q] = from
  /\ fate' = [fate EXCEPT ![q] = to]
  /\ UNCHANGED <<rooms, members>>

Peek(q, kind, from, to) ==
  /\ SeeRoom(q, kind, from, to)
  /\ RoomOf[q] \in rooms
  /\ shown' = [shown EXCEPT ![q] = {k[2] : k \in {m \in members : m[1] = RoomOf[q]}}]

MaySee(q) == RoomOf[q] \notin Private \cup Direct \/ Member(q) \in members

See(q) ==
  \/ Peek(q, "detail", "open", "half") \/ Peek(q, "mine", "half", "yes")
  \/ SeeRoom(q, "detail", "half", "yes") /\ MaySee(q) /\ UNCHANGED shown
  \/ SeeRoom(q, "mine", "open", "half") /\ Member(q) \in members /\ UNCHANGED shown

RefuseSee(q) ==
  /\ \/ SeeRoom(q, "detail", "open", "no") /\ RoomOf[q] \notin rooms
     \/ SeeRoom(q, "detail", "half", "no") /\ ~MaySee(q)
     \/ SeeRoom(q, "mine", "open", "no") /\ Member(q) \notin members
  /\ UNCHANGED shown

Lose(q) ==
  /\ fate[q] # "gone"
  /\ fate' = [fate EXCEPT ![q] = "gone"]
  /\ UNCHANGED <<rooms, members, shown>>

MembershipNext ==
  \/ \E q \in Req :
       \/ CreateRoom(q) \/ JoinRoom(q) \/ RefuseJoin(q) \/ RefuseLeave(q)
       \/ See(q) \/ RefuseSee(q) \/ Lose(q)
  \/ \E Q \in SUBSET {q \in Req : Kind[q] = "leave"} : \E q \in Q : LeaveRoom(Q, Member(q))

MembershipSpec == MembershipInit /\ [][MembershipNext]_memberVars
=============================================================================
