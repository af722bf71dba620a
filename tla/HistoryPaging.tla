---------------------------- MODULE HistoryPaging ----------------------------
(***************************************************************************)
(* GET /messages/{room_id} page after page, while messages are committed:  *)
(* ChatService.get_room_history over MessageRepository.get_room_messages.  *)
(*                                                                         *)
(* A page is cut by offset out of the list of messages, newest first.  Its *)
(* total and its rows are two statements, each with a snapshot of its own. *)
(* A message is dated by the start of its transaction, so it may come into *)
(* the list anywhere.  The reader asks for page 1, 2, ... while has_next.  *)
(***************************************************************************)
EXTENDS Naturals, FiniteSets

CONSTANTS
  Msg,   \* the messages of the room
  Size   \* page_size

ASSUME PagingAssumption == Size \in Nat \ {0} /\ IsFiniteSet(Msg)

VARIABLES
  pos,     \* the place of a committed message in the list, from 1; else 0
  count,   \* how many messages are committed
  offset,  \* (page - 1) * page_size of the page to read next
  total,   \* the result of the page's count
  got,     \* the messages the reader has
  reads,   \* how many items the reader was sent
  pc,      \* where the reader stands
  start,   \* the messages that were there when the reader began
  calm     \* no message came between the last count and its rows

readVars == <<offset, total, got, reads, pc, start, calm>>
vars == <<pos, count, readVars>>

Committed == {m \in Msg : pos[m] > 0}

Init ==
  /\ pos = [m \in Msg |-> 0] /\ count = 0
  /\ offset = 0 /\ total = 0 /\ got = {} /\ reads = 0
  /\ pc = "out" /\ start = {} /\ calm = FALSE

-----------------------------------------------------------------------------
\* Faulty variant of Commit: the message gets the date of another one.
CommitTied(m) ==
  /\ pos[m] = 0
  /\ \E p \in 1 .. count + 1 : pos' = [pos EXCEPT ![m] = p]
  /\ count' = count + 1
  /\ UNCHANGED readVars

\* A message is committed; those dated before it move down one place.
Commit(m) ==
  /\ pos[m] = 0
  /\ \E p \in 1 .. count + 1 :
       pos' = [x \in Msg |-> IF x = m THEN p ELSE IF pos[x] >= p THEN pos[x] + 1 ELSE pos[x]]
  /\ count' = count + 1
  /\ UNCHANGED readVars

\* The reader begins with page 1.
Begin ==
  /\ pc = "out"
  /\ pc' = "asks"
  /\ start' = Committed
  /\ UNCHANGED <<pos, count, offset, total, got, reads, calm>>

\* is_member and the count.
Count ==
  /\ pc = "asks"
  /\ pc' = "counted"
  /\ total' = count
  /\ UNCHANGED <<pos, count, offset, got, reads, start, calm>>

\* The user is no longer a member of the room, and is answered 403.
Refuse ==
  /\ pc = "asks"
  /\ pc' = "refused"
  /\ UNCHANGED <<pos, count, offset, total, got, reads, start, calm>>

\* Faulty variant of Page: page counts from zero.
PageZero == {m \in Msg : offset + Size < pos[m] /\ pos[m] <= offset + 2 * Size}

\* Faulty variant of Page: one row too many, kept for the answer.
PageOverlaps == {m \in Msg : offset < pos[m] /\ pos[m] <= offset + Size + 1}

\* The rows of the page.
Page == {m \in Msg : offset < pos[m] /\ pos[m] <= offset + Size}

\* Faulty variant of HasNext: a full last page promises another one.
HasNextFull == offset + Size <= total

HasNext == offset + Size < total

\* The rows are selected and the answer is sent.
Rows ==
  /\ pc = "counted"
  /\ got' = got \cup Page
  /\ reads' = reads + Cardinality(Page)
  /\ calm' = (count = total)
  /\ IF HasNext THEN pc' = "asks" /\ offset' = offset + Size
     ELSE pc' = "ended" /\ UNCHANGED offset
  /\ UNCHANGED <<pos, count, total, start>>

\* The request fails; the reader asks for the page again, or gives up.
Fail ==
  /\ pc = "counted"
  /\ pc' \in {"asks", "refused"}
  /\ UNCHANGED <<pos, count, offset, total, got, reads, start, calm>>

-----------------------------------------------------------------------------
Next == (\E m \in Msg : Commit(m)) \/ Begin \/ Count \/ Refuse \/ Rows \/ Fail

Spec == Init /\ [][Next]_vars

-----------------------------------------------------------------------------
(* Properties. *)

\* The list has every place up to count once; pages are cut within it.
TypeOK ==
  /\ pos \in [Msg -> Nat]
  /\ count \in Nat /\ offset \in Nat /\ total \in Nat /\ reads \in Nat
  /\ got \in SUBSET Msg /\ start \in SUBSET Msg
  /\ pc \in {"out", "asks", "counted", "ended", "refused"}
  /\ calm \in BOOLEAN
  /\ {pos[m] : m \in Committed} = 1 .. count
  /\ \A m, n \in Committed : pos[m] = pos[n] => m = n

(* A walk to the last page has read every message that was there when it    *)
(* began, wherever messages came in meanwhile, unless one did between the   *)
(* last page's count and its rows.                                          *)
Complete == pc = "ended" /\ calm => start \subseteq got

(* A reader gets a message twice only because others arrived: no more       *)
(* repetitions than messages that came since the walk began.                *)
RepeatsAreArrivals == reads - Cardinality(got) <= count - Cardinality(start)

(* has_next is never wrong about what follows: the page it announces has    *)
(* messages when it is read.                                                *)
NextHasMessages ==
  pc \in {"asks", "counted"} /\ offset > 0 => \E m \in Msg : pos[m] > offset
=============================================================================
