----------------------------- MODULE ChatSession -----------------------------
(***************************************************************************)
(* What the frames of a WebSocket do to PostgreSQL and to the room's Redis *)
(* channel: the message loop of app/websocket/router.py, the handlers of   *)
(* app/websocket/handlers.py, ChatService and MessageRepository, for the   *)
(* sessions of one room.                                                   *)
(*                                                                         *)
(* One AsyncSession serves a WebSocket from its authentication to its end. *)
(* It opens a transaction at its first statement and keeps it until the    *)
(* loop commits or rolls back after a frame; PostgreSQL runs it READ       *)
(* COMMITTED and dates its rows with now(), the transaction's start.       *)
(* A rollback expires current_user: from then on user.id and               *)
(* user.username, which every handler with work to do reads, raise         *)
(* MissingGreenlet.  Such a session answers each frame with an error and   *)
(* changes nothing: its frames are stuttering steps.                       *)
(***************************************************************************)
EXTENDS Naturals

CONSTANTS
  Session, User, UserOf,  \* the WebSockets and whose they are
  Msg,                    \* the ids of messages
  Batch,                  \* what mark_read frames carry: how often each id
  Failures,               \* which of "redis", "db" and "crash" occur
  NoSession,
  MaxTime                 \* bound on the number of transactions

ASSUME ChatAssumption ==
  /\ UserOf \in [Session -> User]
  /\ Batch \subseteq [Msg -> Nat]
  /\ Failures \subseteq {"redis", "db", "crash"}
  /\ NoSession \notin Session
  /\ MaxTime \in Nat

VARIABLES
  member,     \* the users with a room_members row
  pc,         \* where a session stands in a frame
  ids,        \* the receipts a mark_read is to insert: how many per message
  known,      \* of these, the ones its user had when the frame came in
  tx,         \* the start of its open transaction, 0 when there is none
  expired,    \* whether a rollback has expired its current_user
  row,        \* messages: "draft" (frame received), "pending" (flushed), ...
  author, at, \* who sent a message, and its created_at
  seen,       \* what was on the channel when its frame was received
  published,  \* the messages PUBLISHed to channel:room
  receipts,   \* committed message_read_receipts rows per message and user
  clock       \* the last transaction start

sessVars == <<pc, ids, known, tx, expired>>
msgVars == <<row, author, at, seen>>
vars == <<member, sessVars, msgVars, published, receipts, clock>>

PC == {"off", "loop", "send", "inserted", "sent",
       "lookup", "marking", "marked", "told", "ended"}

TypeOK ==
  /\ member \subseteq User
  /\ pc \in [Session -> PC]
  /\ ids \in [Session -> [Msg -> Nat]]
  /\ known \in [Session -> SUBSET Msg]
  /\ tx \in [Session -> 0 .. MaxTime]
  /\ expired \in [Session -> BOOLEAN]
  /\ row \in [Msg -> {"none", "draft", "pending", "committed", "gone"}]
  /\ author \in [Msg -> Session \cup {NoSession}]
  /\ at \in [Msg -> 0 .. MaxTime]
  /\ seen \in [Msg -> SUBSET Msg]
  /\ published \subseteq Msg
  /\ receipts \in [Msg -> [User -> Nat]]
  /\ clock \in 0 .. MaxTime

NoIds == [m \in Msg |-> 0]

Init ==
  /\ member \in SUBSET User
  /\ pc = [s \in Session |-> "off"]
  /\ ids = [s \in Session |-> NoIds]
  /\ known = [s \in Session |-> {}]
  /\ tx = [s \in Session |-> 0]
  /\ expired = [s \in Session |-> FALSE]
  /\ row = [m \in Msg |-> "none"]
  /\ author = [m \in Msg |-> NoSession]
  /\ at = [m \in Msg |-> 0]
  /\ seen = [m \in Msg |-> {}]
  /\ published = {}
  /\ receipts = [m \in Msg |-> [u \in User |-> 0]]
  /\ clock = 0

Go(s, from, to) == pc[s] = from /\ pc' = [pc EXCEPT ![s] = to]

-----------------------------------------------------------------------------
(* The session's transaction. *)

\* A statement: the first one since the last commit or rollback opens a
\* transaction, at a time no other transaction started.
Query(s) ==
  IF tx[s] # 0 THEN UNCHANGED <<tx, clock>>
  ELSE /\ clock < MaxTime
       /\ clock' = clock + 1
       /\ tx' = [tx EXCEPT ![s] = clock + 1]

\* The rows s wrote in its transaction are gone.
Discard(s) ==
  row' = [m \in Msg |-> IF author[m] = s /\ row[m] \in {"draft", "pending"}
                        THEN "gone" ELSE row[m]]

\* The except clause of the loop: rollback, an error reply, the next frame.
Fail(s) ==
  /\ pc' = [pc EXCEPT ![s] = "loop"]
  /\ ids' = [ids EXCEPT ![s] = NoIds]
  /\ known' = [known EXCEPT ![s] = {}]
  /\ tx' = [tx EXCEPT ![s] = 0]
  /\ expired' = [expired EXCEPT ![s] = @ \/ tx[s] # 0]
  /\ Discard(s)
  /\ UNCHANGED <<member, author, at, seen, published, receipts, clock>>

\* Accepted: the token and the membership were looked up in the database.
Connect(s) ==
  /\ Go(s, "off", "loop")
  /\ UserOf[s] \in member
  /\ Query(s)
  /\ UNCHANGED <<member, ids, known, expired, msgVars, published, receipts>>

\* A frame can be worked on.
Ready(s) == pc[s] = "loop" /\ ~expired[s]

-----------------------------------------------------------------------------
(* chat_message: is_member, INSERT, PUBLISH, COMMIT. *)

ChatFrame(s, m) ==
  /\ Ready(s) /\ row[m] = "none"
  /\ UserOf[s] \in member
  /\ Query(s)
  /\ Go(s, "loop", "send")
  /\ row' = [row EXCEPT ![m] = "draft"]
  /\ author' = [author EXCEPT ![m] = s]
  /\ seen' = [seen EXCEPT ![m] = published]
  /\ UNCHANGED <<member, ids, known, expired, at, published, receipts>>

\* is_member is false: AuthorizationError, for chat_message and mark_read.
Refused(s) ==
  /\ Ready(s) /\ UserOf[s] \notin member
  /\ IF tx[s] # 0 THEN UNCHANGED clock ELSE clock < MaxTime /\ clock' = clock + 1
  /\ tx' = [tx EXCEPT ![s] = 0]
  /\ expired' = [expired EXCEPT ![s] = TRUE]
  /\ UNCHANGED <<member, pc, ids, known, msgVars, published, receipts>>

\* The message s is sending.
Mine(m, s) == author[m] = s /\ row[m] \in {"draft", "pending"}

Insert(s) ==
  /\ Go(s, "send", "inserted")
  /\ \E m \in Msg :
       /\ Mine(m, s)
       /\ row' = [row EXCEPT ![m] = "pending"]
       /\ at' = [at EXCEPT ![m] = tx[s]]
  /\ UNCHANGED <<member, ids, known, tx, expired, author, seen, published, receipts, clock>>

\* Faulty variant of Publish: a Redis error is swallowed.
PublishOrNot(s) ==
  /\ Go(s, "inserted", "sent")
  /\ \E m \in Msg : Mine(m, s) /\ published' \in {published, published \cup {m}}
  /\ UNCHANGED <<member, ids, known, tx, expired, msgVars, receipts, clock>>

Publish(s) ==
  /\ Go(s, "inserted", "sent")
  /\ \E m \in Msg : Mine(m, s) /\ published' = published \cup {m}
  /\ UNCHANGED <<member, ids, known, tx, expired, msgVars, receipts, clock>>

\* Faulty variant of Commit: the transaction stays open.
CommitKeepsTx(s) ==
  /\ Go(s, "sent", "loop")
  /\ \E m \in Msg : Mine(m, s) /\ row' = [row EXCEPT ![m] = "committed"]
  /\ UNCHANGED <<member, ids, known, tx, expired, author, at, seen, published, receipts, clock>>

Commit(s) ==
  /\ Go(s, "sent", "loop")
  /\ \E m \in Msg : Mine(m, s) /\ row' = [row EXCEPT ![m] = "committed"]
  /\ tx' = [tx EXCEPT ![s] = 0]
  /\ UNCHANGED <<member, ids, known, expired, author, at, seen, published, receipts, clock>>

-----------------------------------------------------------------------------
(* mark_read: is_member, SELECT the receipts there are, INSERT the others,   *)
(* PUBLISH the event, COMMIT.  Clients name messages the channel brought.    *)

MarkFrame(s, batch) ==
  /\ Ready(s) /\ batch # NoIds
  /\ \A m \in Msg : batch[m] > 0 => m \in published
  /\ UserOf[s] \in member
  /\ Query(s)
  /\ Go(s, "loop", "lookup")
  /\ ids' = [ids EXCEPT ![s] = batch]
  /\ known' = [known EXCEPT ![s] = {m \in Msg : batch[m] > 0 /\ receipts[m][UserOf[s]] > 0}]
  /\ UNCHANGED <<member, expired, msgVars, published, receipts>>

\* Faulty variant of Lookup: receipts that exist are not left out.
LookupNothing(s) ==
  /\ Go(s, "lookup", "marking")
  /\ UNCHANGED <<member, ids, known, tx, expired, msgVars, published, receipts, clock>>

\* Faulty variant of Lookup: the receipts there are counted off.
LookupDifference(s) ==
  /\ Go(s, "lookup", "marking")
  /\ ids' = [ids EXCEPT ![s] = [m \in Msg |-> ids[s][m] - receipts[m][UserOf[s]]]]
  /\ UNCHANGED <<member, known, tx, expired, msgVars, published, receipts, clock>>

Lookup(s) ==
  /\ Go(s, "lookup", "marking")
  /\ ids' = [ids EXCEPT ![s] =
       [m \in Msg |-> IF receipts[m][UserOf[s]] = 0 THEN ids[s][m] ELSE 0]]
  /\ UNCHANGED <<member, known, tx, expired, msgVars, published, receipts, clock>>

\* The rows refer to messages by a foreign key: an id that is not a
\* committed message makes the whole statement fail.
InsertReceipts(s) ==
  \/ /\ \A m \in Msg : ids[s][m] > 0 => row[m] = "committed"
     /\ Go(s, "marking", "marked")
     /\ UNCHANGED <<member, ids, known, tx, expired, msgVars, published, receipts, clock>>
  \/ /\ \E m \in Msg : ids[s][m] > 0 /\ row[m] # "committed"
     /\ pc[s] = "marking" /\ Fail(s)

PublishRead(s) ==
  /\ Go(s, "marked", "told")
  /\ UNCHANGED <<member, ids, known, tx, expired, msgVars, published, receipts, clock>>

CommitRead(s) ==
  /\ Go(s, "told", "loop")
  /\ receipts' = [m \in Msg |-> [receipts[m] EXCEPT ![UserOf[s]] = @ + ids[s][m]]]
  /\ ids' = [ids EXCEPT ![s] = NoIds]
  /\ known' = [known EXCEPT ![s] = {}]
  /\ tx' = [tx EXCEPT ![s] = 0]
  /\ UNCHANGED <<member, expired, msgVars, published, clock>>

-----------------------------------------------------------------------------
(* Frames without a statement (typing events, an empty chat_message or       *)
(* mark_read) end in a commit like the others; typing events need Redis.     *)

LightFrame(s) ==
  /\ Ready(s)
  /\ tx' = [tx EXCEPT ![s] = 0]
  /\ UNCHANGED <<member, pc, ids, known, expired, msgVars, published, receipts, clock>>

TypingFails(s) == Ready(s) /\ "redis" \in Failures /\ Fail(s)

(* A statement, a PUBLISH or the COMMIT raises. *)
CallFails(s) ==
  /\ \/ pc[s] \in {"send", "sent", "lookup", "marking", "told"} /\ "db" \in Failures
     \/ pc[s] \in {"inserted", "marked"} /\ "redis" \in Failures
  /\ Fail(s)

(* The client has left: last_seen is written, if at all, and committed. *)
Disconnect(s) ==
  /\ Go(s, "loop", "ended")
  /\ tx' = [tx EXCEPT ![s] = 0]
  /\ UNCHANGED <<member, ids, known, expired, msgVars, published, receipts, clock>>

(* The process dies in the middle of a frame. *)
Crash(s) ==
  /\ "crash" \in Failures /\ pc[s] \notin {"off", "ended"}
  /\ pc' = [pc EXCEPT ![s] = "ended"]
  /\ ids' = [ids EXCEPT ![s] = NoIds]
  /\ known' = [known EXCEPT ![s] = {}]
  /\ tx' = [tx EXCEPT ![s] = 0]
  /\ Discard(s)
  /\ UNCHANGED <<member, expired, author, at, seen, published, receipts, clock>>

(* POST /rooms/{id}/join and /rooms/{id}/leave, by the user. *)
JoinRoom(u) ==
  /\ u \notin member
  /\ member' = member \cup {u}
  /\ UNCHANGED <<sessVars, msgVars, published, receipts, clock>>

LeaveRoom(u) ==
  /\ u \in member
  /\ member' = member \ {u}
  /\ UNCHANGED <<sessVars, msgVars, published, receipts, clock>>

-----------------------------------------------------------------------------
SessionStep(s) ==
  \/ Connect(s)
  \/ \E m \in Msg : ChatFrame(s, m)
  \/ \E batch \in Batch : MarkFrame(s, batch)
  \/ Refused(s)
  \/ Insert(s) \/ Publish(s) \/ Commit(s)
  \/ Lookup(s) \/ InsertReceipts(s) \/ PublishRead(s) \/ CommitRead(s)
  \/ LightFrame(s) \/ TypingFails(s) \/ CallFails(s)
  \/ Disconnect(s) \/ Crash(s)

Next ==
  \/ \E s \in Session : SessionStep(s)
  \/ \E u \in User : JoinRoom(u) \/ LeaveRoom(u)

Spec == Init /\ [][Next]_vars

-----------------------------------------------------------------------------
(* Properties. *)

(* A message that is in the history was announced on the room's channel:    *)
(* send_message publishes before the loop commits, and when the publish     *)
(* raises the insert is rolled back.                                        *)
CommittedPublished == \A m \in Msg : row[m] = "committed" => m \in published

(* From a session's second message on, the history puts a message after     *)
(* every message that was on the channel when it was sent, its own earlier  *)
(* ones among them: the commit after each frame ends the transaction whose  *)
(* start dates the rows.                                                    *)
FollowUpsInOrder ==
  \A m \in Msg :
    /\ row[m] \in {"pending", "committed"}
    /\ \E k \in seen[m] : author[k] = author[m] /\ row[k] = "committed"
    => \A k \in seen[m] : at[k] < at[m]

(* A mark_read adds receipts only for messages that had none of its user    *)
(* when the frame came in, whatever was sent, failed or committed between   *)
(* then and its commit: a frame repeated after a reconnect or an error adds *)
(* nothing to what the first one committed.                                 *)
RetriesAddNothing ==
  [][\A m \in Msg, u \in User :
       receipts'[m][u] # receipts[m][u] =>
         \E s \in Session : UserOf[s] = u /\ pc[s] = "told" /\ m \notin known[s]]_vars

(* mark_read inserts at most one receipt for a message and a user, as its   *)
(* docstring says ("Insert read receipts, ignoring duplicates").  It does   *)
(* not: new_ids keeps the repetitions of an id, and no unique constraint    *)
(* backs the SELECT, whose answer another session may have made stale.      *)
ReceiptsUnique == \A m \in Msg, u \in User : receipts[m][u] <= 1
=============================================================================
