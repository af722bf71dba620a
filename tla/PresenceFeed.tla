---------------------------- MODULE PresenceFeed -----------------------------
(***************************************************************************)
(* Which status of a user the other connections of a server process are    *)
(* told last.                                                              *)
(*                                                                         *)
(* One connection, the actor, comes and goes.  Its handler in              *)
(* app/websocket/router.py tells its room each time, and set_online and    *)
(* set_offline tell every room, through channel:presence and a             *)
(* _handle_message task that goes from room to room.  The two ways are not *)
(* ordered, and a broadcast on either waits for the transport of each slow *)
(* client it meets.                                                        *)
(*                                                                         *)
(* As in module Fanout a coroutine runs until it is suspended in a send,   *)
(* those that wait for the same transport go on in turn, and connections   *)
(* are numbered in the order in which they register, each another user's:  *)
(* a room lists them so.  The rooms, dict _rooms, come in the order in     *)
(* which each was listed last, whatever the connections they hold.         *)
(***************************************************************************)
EXTENDS Naturals, Sequences

CONSTANTS Client, RoomOf, Actor

ASSUME FeedAssumption ==
  Client \subseteq Nat /\ Actor \in Client

Room == {RoomOf[c] : c \in Client}

\* The broadcasts: by the task of the event of set_online, by the handler
\* after it, and the same for set_offline.
Cast == {"onTask", "onOwn", "offTask", "offOwn"}
StatusOf(e) == IF e \in {"onTask", "onOwn"} THEN "online" ELSE "offline"

VARIABLES
  stage,  \* where the actor's handler stands
  sock,   \* the transport of a connection
  reg,    \* the connections in the registry
  place,  \* the place of a room among those it lists, some of them perhaps
          \* empty, or 0
  up,     \* whether the process is subscribed to channel:presence
  wire,   \* the events sent to it for which no task has run yet
  queue,  \* per connection, the broadcasts that wait for its transport
  todo,   \* the sockets of the same room a broadcast has still to send to
  rest,   \* the rooms after it, with the places they had when it began, or 0
  stale,  \* the sockets of the same room on which it failed
  last,   \* the status a connection was told last
  calm    \* history: no event was lost, no connection has left the registry
          \* while a broadcast was to wait for it, none has failed at a socket
          \* or removed one for which another was waiting, and no room was
          \* listed anew while one was on its way there

castVars == <<queue, todo, rest, stale>>
feedVars == <<stage, sock, reg, place, up, wire, castVars, last, calm>>

Stage == {"off", "online", "greet", "greeting", "loop", "offline", "part", "parting",
          "ended", "failed"}

Waiting(c) == {queue[c][i] : i \in 1 .. Len(queue[c])}
Suspended == UNION {Waiting(c) : c \in Client}

\* Places in a list of rooms.
Places == {p \in [Room -> Nat] : \A r, s \in Room : p[r] = p[s] /\ p[r] > 0 => r = s}

Nowhere == [r \in Room |-> 0]

CastTypeOK ==
  /\ stage \in Stage
  /\ sock \in [Client -> {"off", "open", "slow", "closed"}]
  /\ reg \subseteq Client /\ place \in Places /\ \A c \in reg : place[RoomOf[c]] > 0
  /\ up \in BOOLEAN /\ calm \in BOOLEAN
  /\ wire \subseteq {"onTask", "offTask"}
  /\ queue \in [Client -> Seq(Cast)] /\ rest \in [Cast -> Places]
  /\ {todo, stale} \subseteq [Cast -> SUBSET Client]
  /\ \A c, d \in Client : \A i \in 1 .. Len(queue[c]), j \in 1 .. Len(queue[d]) :
       queue[c][i] = queue[d][j] => c = d /\ i = j
  /\ \A e \in Cast :
       /\ e \notin Suspended => todo[e] = {} /\ rest[e] = Nowhere /\ stale[e] = {}
       /\ \A c \in Client : e \in Waiting(c) =>
            /\ todo[e] \subseteq {d \in Client : c < d /\ RoomOf[d] = RoomOf[c]}
            /\ stale[e] \subseteq {d \in Client : RoomOf[d] = RoomOf[c]}
            /\ rest[e][RoomOf[c]] = 0
  /\ last \in [Client -> {"nothing", "online", "offline"}]

NoCast == [e \in Cast |-> {}]

CastInit ==
  /\ stage = "off"
  /\ sock = [c \in Client |-> "off"]
  /\ reg = {} /\ place = Nowhere
  /\ up = FALSE /\ calm = TRUE
  /\ wire = {}
  /\ queue = [c \in Client |-> <<>>]
  /\ todo = NoCast /\ rest = [e \in Cast |-> Nowhere] /\ stale = NoCast
  /\ last = [c \in Client |-> "nothing"]

-----------------------------------------------------------------------------
(* A broadcast. *)

\* The sockets S of a room, and in each of the rooms with a place in R those
\* it has when it is reached.
Targets(S, R) == S \cup {c \in reg : R[RoomOf[c]] > 0}

\* The room of S has no place there, and comes first.
Before(R, c, d) ==
  \/ R[RoomOf[c]] < R[RoomOf[d]]
  \/ RoomOf[c] = RoomOf[d] /\ c < d

Closed(S) == {c \in S : sock[c] = "closed"}

\* A send waits for a slow transport, and behind another that has yet to go on.
Busy(S) == {c \in S : sock[c] = "slow" \/ (sock[c] = "open" /\ queue[c] # <<>>)}

\* No broadcast but e waits for a socket of S.
NoneAt(e, S) == \A c \in S : Waiting(c) \subseteq {e}

\* The place after all others.
End == CHOOSE n \in {place[r] + 1 : r \in Room} : \A r \in Room : place[r] < n

\* The rooms P are listed, a new one at the end.
Listing(P) == [r \in Room |-> IF r \in P /\ place[r] = 0 THEN End ELSE place[r]]

\* No broadcast is on its way to a room of P that is about to be listed anew.
NewTo(P) == \A r \in P : place[r] = 0 => \A e \in Cast : rest[e][r] = 0

\* Broadcast e, which stands in none of the queues q, goes through S and R
\* until a send has to wait.  At the end of a room, it removes those that
\* failed from the registry, where the room stays, or is listed again, even
\* if it has got empty (_rooms is a defaultdict).
Send(e, S, R, failed, q) ==
  LET T       == Targets(S, R)
      reached == {c \in T : \A d \in Busy(T) : ~Before(R, d, c)}
      wait    == Busy(reached)
      bad     == failed \cup Closed(reached)
      Here(U) == {c \in U : \E d \in wait : RoomOf[c] = RoomOf[d]}
      gone    == bad \ Here(bad)
      pruned  == {RoomOf[c] : c \in gone}
  IN  /\ last' = [c \in Client |-> IF c \in reached \ Closed(reached) THEN StatusOf(e)
                                   ELSE last[c]]
      /\ queue' = [c \in Client |-> IF c \in wait THEN Append(q[c], e) ELSE q[c]]
      /\ todo' = [todo EXCEPT ![e] = Here(T \ reached)]
      /\ rest' = [rest EXCEPT ![e] =
                    [r \in Room |-> IF \E d \in wait : R[RoomOf[d]] < R[r] THEN R[r] ELSE 0]]
      /\ stale' = [stale EXCEPT ![e] = Here(bad)]
      /\ reg' = reg \ gone
      /\ place' = Listing(pruned)
      /\ calm' = (calm /\ NewTo(pruned) /\ NoneAt(e, gone \cup Closed(reached)))

\* The handler tells its own room.
OwnRoom == [r \in Room |-> IF r = RoomOf[Actor] THEN 1 ELSE 0]
SendOwn(e) == Send(e, {}, OwnRoom, {}, queue)

\* For the first of those that wait for c send_json returns, or raises when
\* the socket is closed.
Resume(c) ==
  LET e == Head(queue[c]) IN
  /\ queue[c] # <<>> /\ sock[c] # "slow"
  /\ Send(e, todo[e], rest[e], stale[e] \cup Closed({c}), [queue EXCEPT ![c] = Tail(@)])
  /\ UNCHANGED <<stage, sock, up, wire>>

\* Faulty variant of Start: the newest event goes first.
StartNewest(e) ==
  /\ e \in wire /\ (e = "onTask" => "offTask" \notin wire)
  /\ wire' = wire \ {e}
  /\ Send(e, {}, place, {}, queue)
  /\ UNCHANGED <<stage, sock, up>>

\* A _handle_message task runs for the first time.
Start(e) ==
  /\ e \in wire /\ (e = "offTask" => "onTask" \notin wire)
  /\ wire' = wire \ {e}
  /\ Send(e, {}, place, {}, queue)
  /\ UNCHANGED <<stage, sock, up>>

-----------------------------------------------------------------------------
(* Redis. *)

\* PUBLISH reaches the process when it is subscribed.
Publish(e) == wire' = IF up THEN wire \cup {e} ELSE wire

Subscribe == ~up /\ up' = TRUE /\ UNCHANGED <<stage, sock, reg, place, wire, castVars, last, calm>>

\* The connection to Redis breaks: the events after some one are lost.
LoseRedis ==
  /\ up /\ up' = FALSE
  /\ wire' \in {{}, wire \ {"offTask"}, wire}
  /\ calm' = FALSE
  /\ UNCHANGED <<stage, sock, reg, place, castVars, last>>

-----------------------------------------------------------------------------
(* The actor's handler. *)

Advance(from, to) == stage = from /\ stage' = to

SetOnline ==
  /\ Advance("online", "greet")
  /\ Publish("onTask")
  /\ UNCHANGED <<sock, reg, place, up, castVars, last, calm>>

Greet == Advance("greet", "greeting") /\ SendOwn("onOwn") /\ UNCHANGED <<sock, up, wire>>

Greeted ==
  /\ "onOwn" \notin Suspended
  /\ Advance("greeting", "loop")
  /\ UNCHANGED <<sock, reg, place, up, wire, castVars, last, calm>>

\* Faulty variant of Unregister: the room's entry is deleted with c's.
UnregisterRoom(c) ==
  /\ reg' = reg \ {c}
  /\ place' = [place EXCEPT ![RoomOf[c]] = 0]
  /\ UNCHANGED <<sock, up, wire, castVars, last, calm>>

\* c leaves the registry.  Later broadcasts pass by a socket at which an
\* earlier one still waits, or will unless it fails there.
Unregister(c) ==
  /\ reg' = reg \ {c}
  /\ place' = [place EXCEPT ![RoomOf[c]] =
                 IF \E d \in reg \ {c} : RoomOf[d] = RoomOf[c] THEN @ ELSE 0]
  /\ calm' = (calm /\ queue[c] = <<>>
                   /\ \A e \in Cast : c \in todo[e] => sock[c] = "closed")
  /\ UNCHANGED <<sock, up, wire, castVars, last>>

\* The client is gone, or silent for 120 s.
Quit == Advance("loop", "offline") /\ Unregister(Actor)

SetOffline ==
  /\ Advance("offline", "part")
  /\ Publish("offTask")
  /\ UNCHANGED <<sock, reg, place, up, castVars, last, calm>>

Part == Advance("part", "parting") /\ SendOwn("offOwn") /\ UNCHANGED <<sock, up, wire>>

Parted ==
  /\ "offOwn" \notin Suspended
  /\ Advance("parting", "ended")
  /\ sock' = [sock EXCEPT ![Actor] = "closed"]
  /\ UNCHANGED <<reg, place, up, wire, castVars, last, calm>>

\* A command of set_online or set_offline raises, sent or not: the handler
\* ends there.
PresenceFails ==
  /\ \/ Advance("online", "failed") /\ (UNCHANGED wire \/ Publish("onTask"))
     \/ Advance("offline", "failed") /\ (UNCHANGED wire \/ Publish("offTask"))
  /\ sock' = [sock EXCEPT ![Actor] = "closed"]
  /\ UNCHANGED <<reg, place, up, castVars, last, calm>>

-----------------------------------------------------------------------------
(* Clients. *)

\* A broadcast under way may know of a room that is new to a later one.
Arrive(c) ==
  /\ sock[c] = "off" /\ \A d \in Client : d < c => sock[d] # "off"
  /\ sock' = [sock EXCEPT ![c] = "open"]
  /\ reg' = reg \cup {c}
  /\ place' = Listing({RoomOf[c]})
  /\ stage' = IF c = Actor THEN "online" ELSE stage
  /\ calm' = (calm /\ NewTo({RoomOf[c]}))
  /\ UNCHANGED <<up, wire, castVars, last>>

Move(c, from, to) ==
  /\ sock[c] \in from /\ sock' = [sock EXCEPT ![c] = to]
  /\ UNCHANGED <<stage, reg, place, up, wire, castVars, last, calm>>

\* The client stops reading.  While a broadcast waits for it, it is busy anyway.
SlowDown(c) == queue[c] = <<>> /\ Move(c, {"open"}, "slow")
Drain(c) == Move(c, {"slow"}, "open")
Close(c) == Move(c, {"open", "slow"}, "closed")

\* The handler of another connection ends; a broadcast may have removed it.
Depart(c) ==
  /\ c # Actor /\ sock[c] # "off"
  /\ c \in reg \/ (place[RoomOf[c]] > 0 /\ \A d \in reg : RoomOf[d] # RoomOf[c])
  /\ Unregister(c)
  /\ UNCHANGED stage

-----------------------------------------------------------------------------
Handler == SetOnline \/ Greet \/ Greeted \/ SetOffline \/ Part \/ Parted \/ PresenceFails

CastNext ==
  \/ Handler \/ Quit \/ Subscribe \/ LoseRedis
  \/ \E e \in {"onTask", "offTask"} : Start(e)
  \/ \E c \in Client :
       Resume(c) \/ Arrive(c) \/ SlowDown(c) \/ Drain(c) \/ Close(c) \/ Depart(c)

CastSpec == CastInit /\ [][CastNext]_feedVars

-----------------------------------------------------------------------------
(* Properties. *)

(* Once the actor's handler has returned and every broadcast is through, no *)
(* connection was told last that the actor is online: however the two ways  *)
(* overlap, the online event may come after an offline event, but not after *)
(* both.  What can break that is an event lost by Redis, a client that      *)
(* leaves the registry, or at which a send fails, while a broadcast waits   *)
(* for it, and a room that gets empty and fills again while a broadcast is  *)
(* on its way there.                                                        *)
LastWord ==
  stage = "ended" /\ wire = {} /\ Suspended = {} /\ calm => \A c \in reg : last[c] # "online"
=============================================================================
