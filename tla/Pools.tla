-------------------------------- MODULE Pools --------------------------------
(***************************************************************************)
(* The two connection pools of a server process and what its handlers do   *)
(* with them.                                                              *)
(*                                                                         *)
(* app/db/session.py opens at most pool_size + max_overflow connections to *)
(* PostgreSQL.  A session takes one at its first statement and gives it    *)
(* back at its commit, rollback or close; who finds none waits, in no      *)
(* particular order, for up to 30 s.  A handler has one session: get_db is *)
(* resolved once for it and for the get_current_user it depends on.        *)
(*                                                                         *)
(* app/managers/redis_manager.py allows max_connections commands at a      *)
(* time; one more does not wait, it raises.  Commands of a handler that    *)
(* follow each other directly reuse one connection and are one stage here. *)
(***************************************************************************)
EXTENDS Naturals, FiniteSets

CONSTANTS
  Socket,     \* the WebSocket handlers
  Request,    \* the HTTP requests
  DbLimit,    \* pool_size + max_overflow
  RedisLimit  \* max_connections

Handler == Socket \cup Request

ASSUME PoolAssumption ==
  /\ IsFiniteSet(Handler) /\ Socket \cap Request = {}
  /\ DbLimit \in Nat \ {0} /\ RedisLimit \in Nat \ {0}

VARIABLES
  pc,      \* where a handler stands
  want,    \* what a waiting handler does once it has a connection
  holds,   \* the handlers with a database connection
  frames,  \* a socket's frames: "none" dispatched yet, "kept" (committed), or
           \* one "undone" by a rollback, which has expired current_user
  heart,   \* its heartbeat: asleep, in SETEX, cancelled in SETEX, dead, none
  used     \* Redis connections in use

vars == <<pc, want, holds, frames, heart, used>>

\* The stages in which a handler is in a Redis command.
InRedis == {"online", "publish", "offline", "keys"}

PC == InRedis \cup {"idle", "wait", "auth", "connect", "greet", "loop", "frame",
                    "part", "seen", "work", "ended"}

TypeOK ==
  /\ pc \in [Handler -> PC]
  /\ want \in [Handler -> {"auth", "frame", "seen", "work"}]
  /\ holds \subseteq Handler /\ Cardinality(holds) <= DbLimit
  /\ frames \in [Socket -> {"none", "kept", "undone"}]
  /\ heart \in [Socket -> {"none", "sleep", "write", "cancelled", "dead"}]
  /\ used \in 0 .. RedisLimit

Init ==
  /\ pc = [h \in Handler |-> "idle"]
  /\ want = [h \in Handler |-> IF h \in Socket THEN "auth" ELSE "work"]
  /\ holds = {}
  /\ frames = [s \in Socket |-> "none"]
  /\ heart = [s \in Socket |-> "none"]
  /\ used = 0

Go(h, from, to) == pc[h] = from /\ pc' = [pc EXCEPT ![h] = to]
Release(h) == holds' = holds \ {h}

-----------------------------------------------------------------------------
(* The database pool. *)

\* A statement of h's session, at once when the session has a connection.
Query(h, from, stage) ==
  /\ Go(h, from, IF h \in holds THEN stage ELSE "wait")
  /\ want' = [want EXCEPT ![h] = stage]

\* Faulty variant of Grant: connections are opened without a limit.
GrantAny(h) ==
  /\ Go(h, "wait", want[h])
  /\ holds' = holds \cup {h}
  /\ UNCHANGED <<want, frames, heart, used>>

Grant(h) ==
  /\ Cardinality(holds) < DbLimit
  /\ Go(h, "wait", want[h])
  /\ holds' = holds \cup {h}
  /\ UNCHANGED <<want, frames, heart, used>>

\* Faulty variant of Quit: the session is not closed.
QuitHolding(h) == pc' = [pc EXCEPT ![h] = "ended"] /\ UNCHANGED holds

\* The handler returns or raises, and get_db closes its session.
Quit(h) == pc' = [pc EXCEPT ![h] = "ended"] /\ Release(h)

\* The except clause of the message loop.  A rollback expires current_user
\* when there was something to roll back.
Undo(s) ==
  /\ pc' = [pc EXCEPT ![s] = "loop"]
  /\ frames' = [frames EXCEPT ![s] =
       IF s \in holds \/ pc[s] = "wait" THEN "undone" ELSE "kept"]
  /\ Release(s)

\* No connection for 30 s.
TimeOut(h) ==
  /\ pc[h] = "wait"
  /\ IF want[h] = "frame" THEN Undo(h) ELSE Quit(h) /\ UNCHANGED frames
  /\ UNCHANGED <<want, heart, used>>

-----------------------------------------------------------------------------
(* The Redis pool. *)

\* h's next command takes a connection, or raises because there is none.
Command(h, stage) ==
  /\ used < RedisLimit
  /\ pc' = [pc EXCEPT ![h] = stage]
  /\ used' = used + 1

NoCommand == used = RedisLimit /\ UNCHANGED used

\* A command has returned or raised.
Give == used' = used - 1

-----------------------------------------------------------------------------
(* A WebSocket until its loop. *)

\* get_current_user_ws is the first to use the session.
Open(s) == Query(s, "idle", "auth") /\ UNCHANGED <<holds, frames, heart, used>>

\* No such user, an invalid room id, no member of the room, or an error.
Reject(s) == pc[s] = "auth" /\ Quit(s) /\ UNCHANGED <<want, frames, heart, used>>

\* manager.connect waits for the client's handshake and for a lock that is
\* held while another client's socket is being closed.
Admit(s) == Go(s, "auth", "connect") /\ UNCHANGED <<want, holds, frames, heart, used>>

\* set_online, outside the try: when it raises the handler ends.
SetOnline(s) ==
  /\ pc[s] = "connect"
  /\ \/ Command(s, "online") /\ UNCHANGED holds
     \/ NoCommand /\ Quit(s)
  /\ UNCHANGED <<want, frames, heart>>

\* The broadcast of the arrival waits for every slow client of the room.
Greet(s) == Go(s, "online", "greet") /\ Give /\ UNCHANGED <<want, holds, frames, heart>>

Greeted(s) ==
  /\ Go(s, "greet", "loop")
  /\ heart' = [heart EXCEPT ![s] = "sleep"]
  /\ UNCHANGED <<want, holds, frames, used>>

-----------------------------------------------------------------------------
(* Its frames.  Pings and unknown types touch neither pool. *)

\* Once current_user is expired every handler raises before it does anything.
Ready(s) == pc[s] = "loop" /\ frames[s] # "undone"

\* chat_message and mark_read: is_member.
Frame(s) == Ready(s) /\ Query(s, "loop", "frame") /\ UNCHANGED <<holds, frames, heart, used>>

Publish(s) ==
  /\ \/ Command(s, "publish") /\ UNCHANGED <<holds, frames>>
     \/ NoCommand /\ Undo(s)
  /\ UNCHANGED <<want, heart>>

Written(s) == pc[s] = "frame" /\ Publish(s)

\* Typing events need Redis only.
Typing(s) == Ready(s) /\ Publish(s)

\* No member, or a statement fails.
FrameFails(s) == pc[s] = "frame" /\ Undo(s) /\ UNCHANGED <<want, heart, used>>

\* Faulty variant of Commit: only a frame that wrote is committed.
CommitNothing(s) ==
  /\ Go(s, "publish", "loop")
  /\ frames' = [frames EXCEPT ![s] = "kept"]
  /\ Give
  /\ UNCHANGED <<want, holds, heart>>

\* The commit after the frame.
Commit(s) ==
  /\ Go(s, "publish", "loop")
  /\ frames' = [frames EXCEPT ![s] = "kept"]
  /\ Release(s)
  /\ Give
  /\ UNCHANGED <<want, heart>>

\* A frame with nothing to do, like an empty mark_read, is committed too.
LightFrame(s) ==
  /\ Ready(s)
  /\ frames' = [frames EXCEPT ![s] = "kept"]
  /\ Release(s)
  /\ UNCHANGED <<pc, want, heart, used>>

\* PUBLISH or the commit raises.
PublishFails(s) == pc[s] = "publish" /\ Undo(s) /\ Give /\ UNCHANGED <<want, heart>>

-----------------------------------------------------------------------------
(* Its end. *)

\* The heartbeat is cancelled; a SETEX it awaits ends a little later.
StopHeart(s) ==
  heart' = [heart EXCEPT ![s] = IF @ = "write" THEN "cancelled" ELSE "none"]

\* set_offline, or the expired current_user.username that is its argument,
\* raises: the rest of the finally clause is skipped.
Leave(s) ==
  /\ pc[s] = "loop"
  /\ StopHeart(s)
  /\ \/ frames[s] # "undone" /\ Command(s, "offline") /\ UNCHANGED holds
     \/ frames[s] # "undone" /\ NoCommand /\ Quit(s)
     \/ frames[s] = "undone" /\ Quit(s) /\ UNCHANGED used
  /\ UNCHANGED <<want, frames>>

\* The broadcast of the departure, and then update_last_seen.
Part(s) == Go(s, "offline", "part") /\ Give /\ UNCHANGED <<want, holds, frames, heart>>
Parted(s) == Query(s, "part", "seen") /\ UNCHANGED <<holds, frames, heart, used>>

\* Written and committed, or not: a failure is ignored.
Seen(s) == pc[s] = "seen" /\ Quit(s) /\ UNCHANGED <<want, frames, heart, used>>

\* SETEX, DEL or PUBLISH raises outside the try.
PresenceFails(s) ==
  /\ pc[s] \in {"online", "offline"}
  /\ Quit(s) /\ Give
  /\ UNCHANGED <<want, frames, heart>>

-----------------------------------------------------------------------------
(* _heartbeat. *)

Wake(s) ==
  /\ heart[s] = "sleep"
  /\ \/ used < RedisLimit /\ used' = used + 1 /\ heart' = [heart EXCEPT ![s] = "write"]
     \/ NoCommand /\ heart' = [heart EXCEPT ![s] = "dead"]
  /\ UNCHANGED <<pc, want, holds, frames>>

\* SETEX returns or raises.
Beat(s) ==
  /\ heart[s] = "write"
  /\ heart' \in {[heart EXCEPT ![s] = "sleep"], [heart EXCEPT ![s] = "dead"]}
  /\ Give
  /\ UNCHANGED <<pc, want, holds, frames>>

\* Faulty variant of Cancelled: the connection of the command is lost.
CancelledLeaks(s) ==
  /\ heart[s] = "cancelled"
  /\ heart' = [heart EXCEPT ![s] = "none"]
  /\ UNCHANGED <<pc, want, holds, frames, used>>

Cancelled(s) ==
  /\ heart[s] = "cancelled"
  /\ heart' = [heart EXCEPT ![s] = "none"]
  /\ Give
  /\ UNCHANGED <<pc, want, holds, frames>>

-----------------------------------------------------------------------------
(* An HTTP request. *)

\* get_current_user, or the first statement of the endpoint.
Receive(q) == Query(q, "idle", "work") /\ UNCHANGED <<holds, frames, heart, used>>

\* The endpoint commits and goes on to read what it answers.
CommitAndRead(q) ==
  /\ Go(q, "work", "wait")
  /\ want' = [want EXCEPT ![q] = "work"]
  /\ Release(q)
  /\ UNCHANGED <<frames, heart, used>>

\* GET /users/online, with the connection of get_current_user in hand.
GetOnline(q) ==
  /\ pc[q] = "work"
  /\ \/ Command(q, "keys") /\ UNCHANGED holds
     \/ NoCommand /\ Quit(q)
  /\ UNCHANGED <<want, frames, heart>>

\* The answer, or an error.
Answer(q) ==
  /\ pc[q] \in {"work", "keys"} /\ Quit(q)
  /\ IF pc[q] = "keys" THEN Give ELSE UNCHANGED used
  /\ UNCHANGED <<want, frames, heart>>

-----------------------------------------------------------------------------
\* What goes on by itself, without a client.
Serve(s) ==
  \/ Reject(s) \/ Admit(s) \/ Greet(s) \/ Written(s) \/ FrameFails(s) \/ Commit(s)
  \/ PublishFails(s) \/ Part(s) \/ Seen(s) \/ PresenceFails(s)

Pulse(s) == Wake(s) \/ Beat(s) \/ Cancelled(s)

Process(q) == CommitAndRead(q) \/ GetOnline(q) \/ Answer(q)

Next ==
  \/ \E h \in Handler : Grant(h) \/ TimeOut(h)
  \/ \E s \in Socket :
       \/ Open(s) \/ SetOnline(s) \/ Greeted(s)
       \/ Frame(s) \/ Typing(s) \/ LightFrame(s) \/ Leave(s) \/ Parted(s)
       \/ Serve(s) \/ Pulse(s)
  \/ \E q \in Request : Receive(q) \/ Process(q)

Spec == Init /\ [][Next]_vars

\* PostgreSQL and Redis answer, and requests come to an end.
Fairness ==
  /\ \A s \in Socket : WF_vars(Serve(s))
  /\ \A q \in Request : WF_vars(Answer(q))

FairSpec == Spec /\ Fairness

-----------------------------------------------------------------------------
(* Properties. *)

(* From its first dispatched frame on, a WebSocket in its loop holds no     *)
(* database connection between frames, whether a frame was committed,       *)
(* failed, timed out on the pool or was refused by Redis.  Before it, an    *)
(* idle client holds the one of its authentication.                         *)
IdleHoldsNothing ==
  \A s \in Socket : pc[s] = "loop" /\ frames[s] # "none" => s \notin holds

\* Handlers that hold a database connection while they wait for clients.
Stuck == {h \in holds : pc[h] \in {"connect", "greet", "loop", "part"}}

Waiting == {h \in Handler : pc[h] = "wait"}

(* The database pool is exhausted for ever only by clients: unless handlers *)
(* that wait for clients come to hold all of it and keep it, a connection   *)
(* gets free for those who wait.  None of them holds one while it waits for *)
(* one, in the loop, after a commit or in the finally clause, and each way  *)
(* for a handler to fail gives its connection back.                         *)
PoolRecovers ==
  []<>(Cardinality(Stuck) < DbLimit)
    => []<>(Waiting = {} \/ Cardinality(holds) < DbLimit)

\* A handler that runs, or whose cancelled heartbeat does.
Busy == {s \in Socket : pc[s] \notin {"idle", "ended"} \/ heart[s] = "cancelled"}
Asking == {q \in Request : pc[q] \notin {"idle", "ended"}}

(* Redis commands are refused under load only: a WebSocket has at most two  *)
(* under way, its own and its heartbeat's, a request one, and no end of a   *)
(* handler, the cancellation of a heartbeat in SETEX included, loses one.   *)
RefusedUnderLoadOnly ==
  used = RedisLimit => RedisLimit <= 2 * Cardinality(Busy) + Cardinality(Asking)
=============================================================================
