------------------------------- MODULE Fanout -------------------------------
(***************************************************************************)
(* The way of an event to the connections of a room: PUBLISH on a Redis    *)
(* channel, the subscriber of app/events/redis_subscriber.py in each       *)
(* server process, one _handle_message task per event, and in it           *)
(* broadcast_to_room of app/managers/connection_manager.py.                *)
(*                                                                         *)
(* Redis keeps nothing for a process that is not subscribed.  The event    *)
(* loop starts tasks in the order of their creation, and a task runs until *)
(* it is suspended in send_json, which has written the frame and waits for *)
(* the transport of a slow client to drain.  In websockets 13.1 a task     *)
(* does so under a lock of the connection: others queue for it behind the  *)
(* first, also when the transport has drained and the first has yet to run.*)
(*                                                                         *)
(* The registry is a dict, which lists connections in the order in which   *)
(* they registered: connections are numbered in that order.  Each is       *)
(* another user's: what the registry does when a user reconnects is in     *)
(* module WsEndpoint.                                                      *)
(***************************************************************************)
EXTENDS RoomFeed, Sequences

CONSTANTS
  Process,  \* the server processes
  ProcOf    \* the process a connection is opened with

ASSUME FanoutAssumption == Conn \subseteq Nat /\ ProcOf \in [Conn -> Process]

VARIABLES
  up,     \* whether a process is subscribed to the room's channel
  wire,   \* events sent to a process for which no task has run yet
  reg,    \* the connections in their processes' registries
  sock,   \* the transport of a connection
  todo,   \* per process and event, the sockets the task has still to send to
  queue,  \* per connection, the events whose tasks wait for its transport
  stale   \* the sockets on which the task failed to send

taskVars == <<todo, queue, stale>>
vars == <<published, got, up, wire, reg, sock, todo, queue, stale>>

Local(p) == {c \in Conn : ProcOf[c] = p}

TypeOK ==
  /\ published \in 0 .. MaxEvents
  /\ got \in [Conn -> [Event -> Nat]]
  /\ up \in [Process -> BOOLEAN]
  /\ wire \in [Process -> SUBSET (1 .. published)]
  /\ reg \subseteq Conn
  /\ sock \in [Conn -> {"off", "open", "slow", "closed"}]
  /\ queue \in [Conn -> Seq(Event)]
  /\ \A c \in Conn : \A i, j \in 1 .. Len(queue[c]) : queue[c][i] = queue[c][j] => i = j
  /\ {todo, stale} \subseteq [Process -> [Event -> SUBSET Conn]]
  /\ \A p \in Process, e \in Event : todo[p][e] \cup stale[p][e] \subseteq Local(p)

NoSocket == [p \in Process |-> [e \in Event |-> {}]]

Init ==
  /\ FeedInit
  /\ up = [p \in Process |-> FALSE]
  /\ wire = [p \in Process |-> {}]
  /\ reg = {}
  /\ sock = [c \in Conn |-> "off"]
  /\ queue = [c \in Conn |-> <<>>]
  /\ todo = NoSocket /\ stale = NoSocket

-----------------------------------------------------------------------------
(* Redis and the subscribers. *)

\* send_message, mark_messages_read or a typing event, in any process.
Publish ==
  /\ Announce
  /\ wire' = [p \in Process |-> IF up[p] THEN wire[p] \cup {published'} ELSE wire[p]]
  /\ UNCHANGED <<up, reg, sock, taskVars>>

\* At startup, and two seconds after each failure.
Subscribe(p) ==
  /\ ~up[p]
  /\ up' = [up EXCEPT ![p] = TRUE]
  /\ UNCHANGED <<published, got, wire, reg, sock, taskVars>>

\* The connection to Redis breaks: the events after some n-th are lost,
\* those before are already with their tasks.
LoseRedis(p) ==
  /\ up[p]
  /\ up' = [up EXCEPT ![p] = FALSE]
  /\ \E n \in 0 .. published : wire' = [wire EXCEPT ![p] = {e \in @ : e <= n}]
  /\ UNCHANGED <<published, got, reg, sock, taskVars>>

-----------------------------------------------------------------------------
(* A task. *)

\* send_json returns at once, or raises, unless the transport is slow or
\* another task still has its lock.
Busy(S) == {c \in S : sock[c] = "slow" \/ (sock[c] = "open" /\ queue[c] # <<>>)}
Closed(S) == {c \in S : sock[c] = "closed"}

\* The task of event e in p, which stands in none of the queues q, sends to
\* the sockets S one after the other, until it has to wait for one.  When it
\* has none left it removes from the registry those that failed.
Send(p, e, S, failed, q) ==
  LET reached == {c \in S : \A d \in Busy(S) : c <= d}
      bad     == failed \cup Closed(reached)
      done    == Busy(S) = {}
  IN  /\ Hand(e, reached \ Closed(reached))
      /\ queue' = [c \in Conn |-> IF c \in Busy(reached) THEN Append(q[c], e) ELSE q[c]]
      /\ todo' = [todo EXCEPT ![p][e] = S \ reached]
      /\ stale' = [stale EXCEPT ![p][e] = IF done THEN {} ELSE bad]
      /\ reg' = IF done THEN reg \ bad ELSE reg

\* Faulty variant of Start: the newest event goes first.
StartNewest(p) ==
  \E e \in wire[p] :
    /\ \A f \in wire[p] : f <= e
    /\ wire' = [wire EXCEPT ![p] = @ \ {e}]
    /\ Send(p, e, reg \cap Local(p), {}, queue)
    /\ UNCHANGED <<published, up, sock>>

\* Faulty variant of Start: the event is handled again.
StartKeeps(p) ==
  \E e \in wire[p] :
    /\ \A f \in wire[p] : e <= f
    /\ Send(p, e, reg \cap Local(p), {}, queue)
    /\ UNCHANGED <<published, up, wire, sock>>

\* The next task takes its snapshot of the registry.
Start(p) ==
  \E e \in wire[p] :
    /\ \A f \in wire[p] : e <= f
    /\ wire' = [wire EXCEPT ![p] = @ \ {e}]
    /\ Send(p, e, reg \cap Local(p), {}, queue)
    /\ UNCHANGED <<published, up, sock>>

\* Faulty variant of Resume: a failed send ends the broadcast.
ResumeOrDie(c) ==
  LET p == ProcOf[c] e == Head(queue[c]) IN
  /\ queue[c] # <<>> /\ sock[c] # "slow"
  /\ Send(p, e, IF sock[c] = "closed" THEN {} ELSE todo[p][e], {}, [queue EXCEPT ![c] = Tail(@)])
  /\ UNCHANGED <<published, up, wire, sock>>

\* For the first of those that wait for c send_json returns, or raises when
\* the socket is closed.
Resume(c) ==
  LET p == ProcOf[c] e == Head(queue[c]) IN
  /\ queue[c] # <<>> /\ sock[c] # "slow"
  /\ Send(p, e, todo[p][e], stale[p][e] \cup Closed({c}), [queue EXCEPT ![c] = Tail(@)])
  /\ UNCHANGED <<published, up, wire, sock>>

-----------------------------------------------------------------------------
(* Connections. *)

Move(c, from, to) ==
  /\ sock[c] \in from /\ sock' = [sock EXCEPT ![c] = to]
  /\ UNCHANGED <<published, got, up, wire, taskVars>>

\* websocket_chat registers c.
Connect(c) ==
  /\ \A d \in Local(ProcOf[c]) : d < c => sock[d] # "off"
  /\ Move(c, {"off"}, "open")
  /\ reg' = reg \cup {c}

\* The client stops reading.  While tasks wait for it, it is busy anyway.
SlowDown(c) ==
  /\ queue[c] = <<>>
  /\ Move(c, {"open"}, "slow")
  /\ UNCHANGED reg

Drain(c) == Move(c, {"slow"}, "open") /\ UNCHANGED reg

\* The client leaves or the network fails; Uvicorn closes dead connections.
Close(c) == Move(c, {"open", "slow"}, "closed") /\ UNCHANGED reg

\* The handler's finally clause: after a Close, or after 120 s without a
\* frame, when the socket is still up.
Unregister(c) ==
  /\ c \in reg
  /\ reg' = reg \ {c}
  /\ UNCHANGED <<published, got, up, wire, sock, taskVars>>

\* The process dies or is shut down.
Crash(p) ==
  /\ up' = [up EXCEPT ![p] = FALSE]
  /\ wire' = [wire EXCEPT ![p] = {}]
  /\ reg' = reg \ Local(p)
  /\ sock' = [c \in Conn |-> IF ProcOf[c] = p THEN "closed" ELSE sock[c]]
  /\ todo' = [todo EXCEPT ![p] = NoSocket[p]]
  /\ queue' = [c \in Conn |-> IF ProcOf[c] = p THEN <<>> ELSE queue[c]]
  /\ stale' = [stale EXCEPT ![p] = NoSocket[p]]
  /\ UNCHANGED <<published, got>>

-----------------------------------------------------------------------------
Next ==
  \/ Publish
  \/ \E p \in Process :
       Subscribe(p) \/ LoseRedis(p) \/ Start(p) \/ Crash(p)
  \/ \E c \in Conn :
       Resume(c) \/ Connect(c) \/ SlowDown(c) \/ Drain(c) \/ Close(c) \/ Unregister(c)

Spec == Init /\ [][Next]_vars

\* The event loop runs what is ready.  A slow client catches up or is
\* disconnected ("Uvicorn's WebSocket layer will close stale TCP
\* connections", websocket/router.py:15).
Fairness ==
  /\ \A p \in Process : WF_vars(Start(p))
  /\ \A c \in Conn : WF_vars(Resume(c)) /\ WF_vars(sock[c] = "slow" /\ (Drain(c) \/ Close(c)))

FairSpec == Spec /\ Fairness

-----------------------------------------------------------------------------
(* Properties. *)

\* The socket of c is closed, or c was registered and no longer is.
Gone(c) == sock[c] = "closed" \/ (sock[c] # "off" /\ c \notin reg)

(* The tasks of later events do not overtake: a connection is sent events   *)
(* in the order of their PUBLISH, unless a connection of its process has    *)
(* been closed or has left the registry.  Each task queues at the same      *)
(* sockets in the same order, behind its predecessors; but a later one does *)
(* not wait for a slow connection that was removed before it started, and   *)
(* may fail at a closed one before an earlier one that waits there has run. *)
InOrderUnlessOneGone ==
  [][\A c \in Conn : \A e, f \in Event :
       e < f /\ got'[c][e] # got[c][e] /\ got[c][f] > 0
         => \E d \in Local(ProcOf[c]) : Gone(d)]_vars

(* An event that Redis has sent to a process reaches every connection that  *)
(* stays registered there, also when other sockets are slow or fail in the  *)
(* middle of the broadcast, unless the process loses Redis.                 *)
SentIsDelivered ==
  \A c \in Conn, e \in Event :
    e \in wire[ProcOf[c]] /\ c \in reg
      ~> got[c][e] > 0 \/ c \notin reg \/ ~up[ProcOf[c]]
=============================================================================
