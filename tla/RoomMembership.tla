--------------------------- MODULE RoomMembership ---------------------------
(***************************************************************************)
(* The requests of app/api/v1/endpoints/rooms.py, through RoomService and  *)
(* RoomRepository: each looks, writes and commits in a database            *)
(* transaction of its own, next to others in any process.  GET /rooms,     *)
(* which is GET /rooms/me for the public rooms, is left out.               *)
(*                                                                         *)
(* PostgreSQL runs them READ COMMITTED.  An INSERT waits while another     *)
(* transaction holds a row of the same room and user, then meets the       *)
(* constraint uq_room_member.  A DELETE waits for a transaction that       *)
(* deletes the row it has found; when that commits the row is gone, and a  *)
(* newer one is not looked for.  Nothing deletes rooms.                    *)
(***************************************************************************)
EXTENDS Naturals

CONSTANTS
  Room, User,
  Req, Kind, RoomOf, UserOf,  \* requests: to "create", "join" or "leave" a room, to see it
                              \* ("detail") or find it in one's list ("mine"), by whom
  Direct, Private,            \* the rooms of these types; the others are public
  NoReq

ASSUME RequestAssumption ==
  /\ Kind \in [Req -> {"create", "join", "leave", "detail", "mine"}]
  /\ RoomOf \in [Req -> Room] /\ UserOf \in [Req -> User]
  /\ NoReq \notin Req
  \* A new room gets an id of its own (uuid4).
  /\ \A q, r \in Req :
       Kind[q] = "create" /\ Kind[r] = "create" /\ RoomOf[q] = RoomOf[r] => q = r

VARIABLES
  rooms,   \* the committed chat_rooms
  row,     \* how many committed room_members rows a room and a user have
  writer,  \* the request whose open transaction has written such a row
  pc,      \* where a request stands
  shown    \* the members that a request to see a room has read

vars == <<rooms, row, writer, pc, shown>>

PC == {"start", "checked", "looked", "inserted", "deleted", "blocked", "nothing",
       "committed", "done", "refused", "failed"}

Key == Room \X User
KeyOf(q) == <<RoomOf[q], UserOf[q]>>

TypeOK ==
  /\ rooms \subseteq Room
  /\ row \in [Key -> 0 .. 1]
  /\ writer \in [Key -> Req \cup {NoReq}]
  /\ pc \in [Req -> PC]
  /\ shown \in [Req -> SUBSET User]

Init ==
  /\ rooms = {}
  /\ row = [k \in Key |-> 0]
  /\ writer = [k \in Key |-> NoReq]
  /\ pc = [q \in Req |-> "start"]
  /\ shown = [q \in Req |-> {}]

Go(q, from, to) == pc[q] = from /\ pc' = [pc EXCEPT ![q] = to]
Lock(q) == writer' = [writer EXCEPT ![KeyOf(q)] = q]
Unlock(q) == writer' = [k \in Key |-> IF writer[k] = q THEN NoReq ELSE writer[k]]

-----------------------------------------------------------------------------
\* The checks before a join or a leave.  A room that was found stays, so
\* looking for it and looking for the member is one step.
Check(q) ==
  /\ \/ /\ Kind[q] = "join"
        /\ Go(q, "start", IF RoomOf[q] \in rooms \ Direct /\ row[KeyOf(q)] = 0
                          THEN "checked" ELSE "refused")
     \/ /\ Kind[q] = "leave"
        /\ Go(q, "start", IF RoomOf[q] \in rooms /\ row[KeyOf(q)] > 0
                          THEN "checked" ELSE "refused")
  /\ UNCHANGED <<rooms, row, writer, shown>>

\* create_room: the room and, in the same transaction, its owner's row.
Create(q) ==
  /\ Kind[q] = "create"
  /\ Go(q, "start", "inserted")
  /\ Lock(q)
  /\ UNCHANGED <<rooms, row, shown>>

\* Faulty variant of Insert: no unique constraint.
InsertAnyway(q) ==
  /\ Kind[q] = "join" /\ writer[KeyOf(q)] = NoReq
  /\ Go(q, "checked", "inserted") /\ Lock(q)
  /\ UNCHANGED <<rooms, row, shown>>

\* Faulty variant of Insert: a row that is there is taken for one's own.
InsertOrNothing(q) ==
  /\ Kind[q] = "join" /\ writer[KeyOf(q)] = NoReq
  /\ \/ row[KeyOf(q)] = 0 /\ Go(q, "checked", "inserted") /\ Lock(q)
     \/ row[KeyOf(q)] > 0 /\ Go(q, "checked", "nothing") /\ UNCHANGED writer
  /\ UNCHANGED <<rooms, row, shown>>

\* add_member for a join.  A violation of the constraint is an
\* IntegrityError, which the endpoint does not handle.
Insert(q) ==
  /\ Kind[q] = "join" /\ writer[KeyOf(q)] = NoReq
  /\ \/ row[KeyOf(q)] = 0 /\ Go(q, "checked", "inserted") /\ Lock(q)
     \/ row[KeyOf(q)] > 0 /\ Go(q, "checked", "failed") /\ UNCHANGED writer
  /\ UNCHANGED <<rooms, row, shown>>

\* remove_member: deletes the row, waits for who is deleting it, or finds
\* none.
Delete(q) ==
  /\ Kind[q] = "leave"
  /\ \/ /\ row[KeyOf(q)] > 0 /\ writer[KeyOf(q)] = NoReq
        /\ Go(q, "checked", "deleted") /\ Lock(q)
     \/ /\ row[KeyOf(q)] > 0 /\ writer[KeyOf(q)] # NoReq
        /\ Go(q, "checked", "blocked") /\ UNCHANGED writer
     \/ /\ row[KeyOf(q)] = 0
        /\ Go(q, "checked", "nothing") /\ UNCHANGED writer
  /\ UNCHANGED <<rooms, row, shown>>

\* The other transaction has been rolled back.
Unblock(q) ==
  /\ writer[KeyOf(q)] = NoReq
  /\ Go(q, "blocked", "deleted")
  /\ Lock(q)
  /\ UNCHANGED <<rooms, row, shown>>

-----------------------------------------------------------------------------
\* What is read of a room's members, in a statement of its own: for "detail"
\* the list (get_with_members), for "mine" the count (member_count).
Read(q) == shown' = [shown EXCEPT ![q] = {u \in User : row[<<RoomOf[q], u>>] > 0}]

\* get_room_detail: the room and its members, then whether the caller may see
\* them.
Look(q) ==
  /\ Kind[q] = "detail"
  /\ \/ RoomOf[q] \in rooms /\ Go(q, "start", "looked") /\ Read(q)
     \/ RoomOf[q] \notin rooms /\ Go(q, "start", "refused") /\ UNCHANGED shown
  /\ UNCHANGED <<rooms, row, writer>>

Permit(q) ==
  /\ Kind[q] = "detail"
  /\ Go(q, "looked", IF RoomOf[q] \notin Private \cup Direct \/ row[KeyOf(q)] > 0
                     THEN "done" ELSE "refused")
  /\ UNCHANGED <<rooms, row, writer, shown>>

\* get_user_rooms, which the room is in or not, then its count.
Mine(q) ==
  /\ Kind[q] = "mine"
  /\ Go(q, "start", IF row[KeyOf(q)] > 0 THEN "looked" ELSE "refused")
  /\ UNCHANGED <<rooms, row, writer, shown>>

Count(q) ==
  /\ Kind[q] = "mine"
  /\ Go(q, "looked", "done")
  /\ Read(q)
  /\ UNCHANGED <<rooms, row, writer>>

-----------------------------------------------------------------------------
CommitInsert(q) ==
  /\ Go(q, "inserted", "committed")
  /\ row' = [row EXCEPT ![KeyOf(q)] = @ + 1]
  /\ rooms' = IF Kind[q] = "create" THEN rooms \cup {RoomOf[q]} ELSE rooms
  /\ Unlock(q)
  /\ UNCHANGED shown

\* Those who waited to delete the same row find it gone.
CommitDelete(q) ==
  /\ pc[q] = "deleted"
  /\ pc' = [r \in Req |-> IF r = q THEN "committed"
                          ELSE IF pc[r] = "blocked" /\ KeyOf(r) = KeyOf(q) THEN "nothing"
                          ELSE pc[r]]
  /\ row' = [row EXCEPT ![KeyOf(q)] = @ - 1]
  /\ Unlock(q)
  /\ UNCHANGED <<rooms, shown>>

CommitNothing(q) == Go(q, "nothing", "committed") /\ UNCHANGED <<rooms, row, writer, shown>>

\* What is read for the answer, in another transaction, changes nothing.
Answer(q) == Go(q, "committed", "done") /\ UNCHANGED <<rooms, row, writer, shown>>

\* A statement or the COMMIT fails, or the process dies: get_db or PostgreSQL
\* rolls back what was not committed, and the caller learns nothing.
Fail(q) ==
  /\ pc[q] \in PC \ {"start", "done", "refused", "failed"}
  /\ pc' = [pc EXCEPT ![q] = "failed"]
  /\ Unlock(q)
  /\ UNCHANGED <<rooms, row, shown>>

-----------------------------------------------------------------------------
Work(q) ==
  \/ Insert(q) \/ Delete(q) \/ Unblock(q)
  \/ CommitInsert(q) \/ CommitDelete(q) \/ CommitNothing(q) \/ Answer(q)

See(q) == Look(q) \/ Permit(q) \/ Mine(q) \/ Count(q)

Next == \E q \in Req : Check(q) \/ Create(q) \/ Work(q) \/ See(q) \/ Fail(q)

Spec == Init /\ [][Next]_vars

-----------------------------------------------------------------------------
(* Properties. *)

FateOf(q) ==
  IF pc[q] \in {"nothing", "committed", "done"} THEN "yes"
  ELSE IF pc[q] = "looked" THEN "half"
  ELSE IF pc[q] = "refused" THEN "no"
  ELSE IF pc[q] = "failed" THEN "gone" ELSE "open"

\* The API with join_room's own idea of who may join what.
Promise == INSTANCE Membership WITH
  members <- {k \in Key : row[k] > 0}, fate <- [q \in Req |-> FateOf(q)],
  Joinable <- Room \ Direct

\* The API with the idea the endpoint documents.
Documented == INSTANCE Membership WITH
  members <- {k \in Key : row[k] > 0}, fate <- [q \in Req |-> FateOf(q)],
  Joinable <- Room \ (Direct \cup Private)

(* Whatever requests overlap or fail, an answer is true of a moment in its  *)
(* request: a join that is answered made the user a member, a leave that is *)
(* answered found or made the user none, a refusal had its reason.  A room  *)
(* and its creator's membership appear together.  What a room's members are *)
(* said to be they were together, at a moment of the request; that the      *)
(* caller may see them is true of another one, before (GET /rooms/me) or    *)
(* after it (GET /rooms/{room_id}).  Which rooms may be joined is as        *)
(* join_room has it: all but those for direct messages.                     *)
AnswersTrue == Promise!MembershipSpec

(* The same with the endpoint's word on which rooms may be joined: "Join a  *)
(* public room" (rooms.py, line 121).  It does not hold: join_room asks     *)
(* only whether the room is for direct messages, and a stranger who knows   *)
(* the id of a private room becomes a member of it.                         *)
AnswersAsDocumented == Documented!MembershipSpec
=============================================================================
