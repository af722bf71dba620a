------------------------------ MODULE Presence ------------------------------
(***************************************************************************)
(* Who is online: the Redis keys presence:{user_id} with their time to     *)
(* live and the events on channel:presence, written by the handlers of     *)
(* app/websocket/router.py through app/services/presence_service.py, each  *)
(* with its _heartbeat task.                                               *)
(*                                                                         *)
(* Every connection of a user, in any room and any server process, writes  *)
(* the one key of that user.  Time is counted in ticks of the heartbeat's  *)
(* granularity; a command to Redis takes less than a tick (Settled), while *)
(* the broadcast of an arrival may wait long for a slow client.            *)
(***************************************************************************)
EXTENDS Naturals

CONSTANTS
  User, Conn, UserOf,  \* the users, their WebSocket connections, whose they are
  TTL,                 \* presence_ttl_seconds in ticks
  Interval             \* _HEARTBEAT_INTERVAL in ticks

ASSUME PresenceAssumption ==
  /\ UserOf \in [Conn -> User]
  /\ TTL \in Nat /\ Interval \in Nat /\ 0 < Interval /\ Interval < TTL

VARIABLES
  ttl,    \* per user, what is left to live of the key, 0 when there is none
  said,   \* the last status announced on channel:presence
  pc,     \* where a connection's handler stands
  heart,  \* its heartbeat task: asleep, in SETEX, dead of an exception, or none
  beat,   \* how long the heartbeat still sleeps
  dirty,  \* whether a rollback has expired the handler's current_user
  late,   \* whether a cancelled SETEX is still on its way
  faults  \* history: the kinds of failure that have happened

vars == <<ttl, said, pc, heart, beat, dirty, late, faults>>

\* "redis": a command raised; "evict": Redis evicted a key (allkeys-lru);
\* "frame": a frame ended in a rollback; "reorder": a cancelled SETEX stayed
\* on its way; "slow": the broadcast of an arrival took a tick.  That a process
\* dies needs no record.
Fault == {"redis", "evict", "frame", "reorder", "slow"}

PC == {"idle", "key", "announce", "greet", "loop", "offkey", "offann", "ended", "died", "lost"}

TypeOK ==
  /\ ttl \in [User -> 0 .. TTL]
  /\ said \in [User -> {"nothing", "online", "offline"}]
  /\ pc \in [Conn -> PC]
  /\ heart \in [Conn -> {"none", "sleep", "write", "dead"}]
  /\ beat \in [Conn -> 0 .. Interval]
  /\ dirty \in [Conn -> BOOLEAN]
  /\ late \in [Conn -> BOOLEAN]
  /\ faults \subseteq Fault

Init ==
  /\ ttl = [u \in User |-> 0]
  /\ said = [u \in User |-> "nothing"]
  /\ pc = [c \in Conn |-> "idle"]
  /\ heart = [c \in Conn |-> "none"]
  /\ beat = [c \in Conn |-> 0]
  /\ dirty = [c \in Conn |-> FALSE]
  /\ late = [c \in Conn |-> FALSE]
  /\ faults = {}

Fails(kind) == faults' = faults \cup {kind}

Go(c, from, to) == pc[c] = from /\ pc' = [pc EXCEPT ![c] = to]

\* SETEX and DEL of the key of c's user.
SetEx(c) == ttl' = [ttl EXCEPT ![UserOf[c]] = TTL]
Del(c) == ttl' = [ttl EXCEPT ![UserOf[c]] = 0]

-----------------------------------------------------------------------------
(* set_online. *)

Connect(c) == Go(c, "idle", "key") /\ UNCHANGED <<ttl, said, heart, beat, dirty, late, faults>>

SetKey(c) ==
  /\ Go(c, "key", "announce")
  /\ SetEx(c)
  /\ UNCHANGED <<said, heart, beat, dirty, late, faults>>

\* The online event.
Announce(c) ==
  /\ Go(c, "announce", "greet")
  /\ said' = [said EXCEPT ![UserOf[c]] = "online"]
  /\ UNCHANGED <<ttl, heart, beat, dirty, late, faults>>

\* The room has been told (module PresenceFeed); the handler starts the
\* heartbeat and enters its loop.
StartHeart(c) ==
  /\ Go(c, "greet", "loop")
  /\ heart' = [heart EXCEPT ![c] = "sleep"]
  /\ beat' = [beat EXCEPT ![c] = Interval]
  /\ UNCHANGED <<ttl, said, dirty, late, faults>>

-----------------------------------------------------------------------------
(* _heartbeat. *)

Wake(c) ==
  /\ heart[c] = "sleep" /\ beat[c] = 0
  /\ heart' = [heart EXCEPT ![c] = "write"]
  /\ UNCHANGED <<ttl, said, pc, beat, dirty, late, faults>>

\* Faulty variant of Refresh: the key's time to live is not extended.
RefreshNothing(c) ==
  /\ heart[c] = "write"
  /\ heart' = [heart EXCEPT ![c] = "sleep"]
  /\ beat' = [beat EXCEPT ![c] = Interval]
  /\ UNCHANGED <<ttl, said, pc, dirty, late, faults>>

Refresh(c) ==
  /\ heart[c] = "write"
  /\ SetEx(c)
  /\ heart' = [heart EXCEPT ![c] = "sleep"]
  /\ beat' = [beat EXCEPT ![c] = Interval]
  /\ UNCHANGED <<said, pc, dirty, late, faults>>

\* The exception ends the task; nobody awaits it.
HeartFails(c) ==
  /\ heart[c] = "write"
  /\ heart' = [heart EXCEPT ![c] = "dead"]
  /\ Fails("redis")
  /\ UNCHANGED <<ttl, said, pc, beat, dirty, late>>

-----------------------------------------------------------------------------
(* The end of a connection. *)

\* A frame fails and the loop rolls back (module ChatSession).
FrameFails(c) ==
  /\ pc[c] = "loop"
  /\ dirty' = [dirty EXCEPT ![c] = TRUE]
  /\ Fails("frame")
  /\ UNCHANGED <<ttl, said, pc, heart, beat, late>>

\* The heartbeat stops; a SETEX it was awaiting may be on its way.
StopHeart(c) ==
  /\ heart' = [heart EXCEPT ![c] = "none"]
  /\ \/ UNCHANGED <<late, faults>>
     \/ heart[c] = "write" /\ late' = [late EXCEPT ![c] = TRUE] /\ Fails("reorder")

\* Faulty variant of Leave: the heartbeat is not cancelled.
LeaveHeartRunning(c) ==
  /\ Go(c, "loop", IF dirty[c] THEN "ended" ELSE "offkey")
  /\ UNCHANGED <<ttl, said, heart, beat, dirty, late, faults>>

\* The finally clause cancels the heartbeat and calls set_offline, whose
\* argument current_user.username raises when current_user is expired.
Leave(c) ==
  /\ Go(c, "loop", IF dirty[c] THEN "ended" ELSE "offkey")
  /\ StopHeart(c)
  /\ UNCHANGED <<ttl, said, beat, dirty>>

\* Faulty variant of DropKey: the key is left to expire.
DropNothing(c) ==
  /\ Go(c, "offkey", "offann")
  /\ UNCHANGED <<ttl, said, heart, beat, dirty, late, faults>>

DropKey(c) ==
  /\ Go(c, "offkey", "offann")
  /\ Del(c)
  /\ UNCHANGED <<said, heart, beat, dirty, late, faults>>

AnnounceOff(c) ==
  /\ Go(c, "offann", "ended")
  /\ said' = [said EXCEPT ![UserOf[c]] = "offline"]
  /\ UNCHANGED <<ttl, heart, beat, dirty, late, faults>>

\* SETEX, DEL or PUBLISH raises in the handler, outside any except clause.
CallFails(c) ==
  /\ pc[c] \in {"key", "announce", "offkey", "offann"}
  /\ pc' = [pc EXCEPT ![c] = "ended"]
  /\ Fails("redis")
  /\ UNCHANGED <<ttl, said, heart, beat, dirty, late>>

\* The process dies, before ("died") or in ("lost") the handler's set_offline.
Crash(c) ==
  /\ pc[c] \notin {"idle", "ended", "died", "lost"}
  /\ pc' = [pc EXCEPT ![c] = IF @ \in {"offkey", "offann"} THEN "lost" ELSE "died"]
  /\ StopHeart(c)
  /\ UNCHANGED <<ttl, said, beat, dirty>>

-----------------------------------------------------------------------------
(* Redis and time. *)

\* A late SETEX arrives, or never does.
LateSet(c) ==
  /\ late[c]
  /\ late' = [late EXCEPT ![c] = FALSE]
  /\ SetEx(c) \/ UNCHANGED ttl
  /\ UNCHANGED <<said, pc, heart, beat, dirty, faults>>

Evict(u) ==
  /\ ttl[u] > 0
  /\ ttl' = [ttl EXCEPT ![u] = 0]
  /\ Fails("evict")
  /\ UNCHANGED <<said, pc, heart, beat, dirty, late>>

\* Faulty variant of Settled: a heartbeat may oversleep.
SettledAnyBeat == \A c \in Conn : pc[c] # "announce" /\ ~late[c] /\ heart[c] # "write"

\* No command is under way and no heartbeat is due.
Settled ==
  \A c \in Conn :
    /\ pc[c] # "announce" /\ ~late[c]
    /\ heart[c] # "write" /\ (heart[c] = "sleep" => beat[c] > 0)

Tick ==
  /\ Settled
  /\ ttl' = [u \in User |-> IF ttl[u] = 0 THEN 0 ELSE ttl[u] - 1]
  /\ beat' = [c \in Conn |-> IF heart[c] = "sleep" THEN beat[c] - 1 ELSE beat[c]]
  /\ IF \E c \in Conn : pc[c] = "greet" THEN Fails("slow") ELSE UNCHANGED faults
  /\ UNCHANGED <<said, pc, heart, dirty, late>>

-----------------------------------------------------------------------------
\* What happens without the client and without a failure.
Work(c) ==
  \/ SetKey(c) \/ Announce(c) \/ Wake(c) \/ Refresh(c)
  \/ DropKey(c) \/ AnnounceOff(c) \/ LateSet(c)

Next ==
  \/ \E c \in Conn :
       \/ Connect(c) \/ StartHeart(c) \/ Leave(c) \/ Work(c)
       \/ HeartFails(c) \/ FrameFails(c) \/ CallFails(c) \/ Crash(c)
  \/ \E u \in User : Evict(u)
  \/ Tick

Spec == Init /\ [][Next]_vars

\* Time passes and the event loop runs; clients owe nothing, nor do those that
\* a broadcast waits for.
Fairness == WF_vars(Tick) /\ \A c \in Conn : WF_vars(Work(c))

FairSpec == Spec /\ Fairness

-----------------------------------------------------------------------------
(* Properties. *)

Connected(c) == pc[c] = "loop"

\* get_online_users: KEYS, then MGET; a key that expires in between is left out.
Listed(u) == ttl[u] > 0

\* No connection of u has begun to leave.
NoneLeft(u) ==
  \A c \in Conn : UserOf[c] = u => pc[c] \notin {"offkey", "offann", "ended", "lost"}

(* While Redis answers and evicts nothing, a connected user is listed and   *)
(* was last announced as online until one of the user's connections leaves, *)
(* also when a process of another connection dies or a frame fails: each    *)
(* heartbeat comes before the key of the previous one expires.  The first   *)
(* comes late when the broadcast of the arrival was slow (router.py:77).    *)
VisibleUntilOneLeaves ==
  faults \cap {"redis", "evict", "slow"} = {} =>
    \A c \in Conn : Connected(c) /\ NoneLeft(UserOf[c])
      => Listed(UserOf[c]) /\ said[UserOf[c]] = "online"

(* "When the connection closes, the key is deleted immediately"             *)
(* (presence_service.py:8): once every handler of a user has returned, the  *)
(* user is not listed, unless a command failed, a frame did, or a cancelled *)
(* write came late.                                                         *)
KeyDeleted ==
  faults \cap {"redis", "frame", "reorder"} = {} => \A u \in User :
    (\A c \in Conn : UserOf[c] = u => pc[c] \in {"idle", "ended"}) => ~Listed(u)

(* A user none of whose handlers runs any more stops being listed, whatever *)
(* failed at the end of them.                                               *)
GhostGone ==
  \A u \in User :
    (\A c \in Conn : UserOf[c] = u => pc[c] \in {"ended", "died", "lost"}) ~> ~Listed(u)

(* A connected user whose key was deleted by another connection, or evicted,*)
(* is listed again, as long as the heartbeat lives.                         *)
Relisted ==
  \A c \in Conn :
    Connected(c) /\ heart[c] # "dead"
      ~> Listed(UserOf[c]) \/ ~Connected(c) \/ heart[c] = "dead"
=============================================================================
