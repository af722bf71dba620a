----------------------------- MODULE WsEndpoint -----------------------------
(***************************************************************************)
(* The life of the WebSocket endpoint websocket_chat of                    *)
(* app/websocket/router.py in one server process, calling the              *)
(* ConnectionManager, while the Redis subscriber of                        *)
(* app/events/redis_subscriber.py runs broadcasts of its own.              *)
(*                                                                         *)
(* pc[c] is where the handler of connection c stands: each value is an     *)
(* await at which other coroutines run.  What a handler does with the      *)
(* frames it receives changes nothing here and is left to other modules.   *)
(***************************************************************************)
EXTENDS ConnectionManager

CONSTANT Task  \* the subscriber's _handle_message tasks

ASSUME CasterAssumption == Caster = Conn \cup Task

VARIABLE pc

vars == <<rooms, userRooms, lock, sock, todo, stale, pc>>

PC == {"idle", "connect", "closing", "online", "hello", "greeting", "loop",
       "finally", "offline", "bye", "parting", "ended", "aborted"}

TypeOK == MgrTypeOK /\ pc \in [Conn -> PC]

Init == MgrInit /\ pc = [c \in Conn |-> "idle"]

Go(c, from, to) == pc[c] = from /\ pc' = [pc EXCEPT ![c] = to]

\* The broadcast run by coroutine a has returned.
CastDone(a) == todo[a] = {} /\ stale[a] = {}

-----------------------------------------------------------------------------
(* Before the message loop. *)

\* The token, the room id or the membership is refused, or accept() fails.
Reject(c) == Go(c, "idle", "ended") /\ Close(c)

\* The caller is a member: connect() accepts the socket.
Admit(c) == Go(c, "idle", "connect") /\ Accept(c)

Connect(c) ==
  \/ Go(c, "connect", "online") /\ ConnectFresh(c)
  \/ Go(c, "connect", "closing") /\ ConnectReplace(c)

Connected(c) == Go(c, "closing", "online") /\ ConnectInstall(c)

\* set_online.  It is awaited before the try block, so when it raises the
\* handler ends without its finally clause.
SetOnline(c) ==
  \/ Go(c, "online", "hello") /\ UNCHANGED mgrVars
  \/ Go(c, "online", "aborted") /\ Close(c)

\* The broadcast of the online event, then the heartbeat and the loop.
Greet(c) == Go(c, "hello", "greeting") /\ BroadcastSnapshot(c, RoomOf[c])

Greeted(c) == CastDone(c) /\ Go(c, "greeting", "loop") /\ UNCHANGED mgrVars

-----------------------------------------------------------------------------
(* The loop ends, and the finally clause. *)

\* The client leaves or the network fails, wherever the handler stands.
ClientGone(c) == sock[c] = "open" /\ Close(c) /\ UNCHANGED pc

\* receive_json raises: WebSocketDisconnect, or RuntimeError when connect()
\* has closed this socket in favour of a newer one.
Dropped(c) == sock[c] = "closed" /\ Go(c, "loop", "finally") /\ UNCHANGED mgrVars

\* 120 s without a frame, or a frame that is not a JSON object.
GiveUp(c) == sock[c] = "open" /\ Go(c, "loop", "finally") /\ UNCHANGED mgrVars

\* Faulty variant of Cleanup: the entry is popped without taking the lock.
CleanupUnlocked(c) ==
  /\ Go(c, "finally", "offline")
  /\ Drop({c})
  /\ UNCHANGED <<lock, sock, todo, stale>>

\* Faulty variant of Cleanup: a handler whose socket is closed returns
\* without unregistering.
CleanupIfOpen(c) ==
  /\ Go(c, "finally", "offline")
  /\ IF sock[c] = "open" THEN Disconnect(c) ELSE UNCHANGED mgrVars

Cleanup(c) == Go(c, "finally", "offline") /\ Disconnect(c)

\* set_offline.  It raises when Redis does, and so does current_user.username,
\* its argument, once a rollback has expired the user (module ChatSession): the
\* rest of the finally clause is then skipped.
SetOffline(c) ==
  \/ Go(c, "offline", "bye") /\ UNCHANGED mgrVars
  \/ Go(c, "offline", "ended") /\ Close(c)

Part(c) == Go(c, "bye", "parting") /\ BroadcastSnapshot(c, RoomOf[c])

\* The offline event is broadcast and last_seen written, or not: a failure
\* there is ignored.  The server closes the transport of a returned handler.
End(c) == CastDone(c) /\ Go(c, "parting", "ended") /\ Close(c)

-----------------------------------------------------------------------------
(* Broadcasts. *)

\* A step of a broadcast begun by a handler or by the subscriber.
CastStep(a) == (BroadcastSend(a) \/ BroadcastPrune(a)) /\ UNCHANGED pc

\* A _handle_message task starts a broadcast.  For channel:presence the code
\* does so for each room in turn: one Deliver per room.
Deliver(t) == (\E r \in Room : BroadcastSnapshot(t, r)) /\ UNCHANGED pc

Handler(c) ==
  \/ Connect(c) \/ Connected(c) \/ SetOnline(c) \/ Greet(c) \/ Greeted(c)
  \/ Dropped(c) \/ Cleanup(c) \/ SetOffline(c) \/ Part(c) \/ End(c)

Next ==
  \/ \E c \in Conn : Reject(c) \/ Admit(c) \/ ClientGone(c) \/ GiveUp(c) \/ Handler(c)
  \/ \E a \in Caster : CastStep(a)
  \/ \E t \in Task : Deliver(t)

Spec == Init /\ [][Next]_vars

\* The event loop runs every coroutine whose await has completed, and
\* asyncio.Lock serves its waiters in order.  Clients owe nothing.
Fairness ==
  /\ \A c \in Conn : WF_vars(Handler(c))
  /\ \A a \in Caster : WF_vars(CastStep(a))

FairSpec == Spec /\ Fairness

-----------------------------------------------------------------------------
(* Safety. *)

Online(c) == pc[c] = "loop" /\ sock[c] = "open"

(* connect gives a key to a new socket only once the old one is closed.     *)
(* existing.close() is awaited in the middle of connect; were the lock not  *)
(* held across it, the entry could by then be another, open socket, which   *)
(* the assignment that follows would silently drop.                         *)
OpenNeverDisplaced ==
  [][\A r \in Room, u \in User :
       LET old == rooms[r][u]
           new == rooms'[r][u]
       IN  old \in Conn /\ new \in Conn /\ old # new => sock[old] = "closed"]_vars

(* A connection in its message loop whose key no other connection has used  *)
(* is in the registry, so every broadcast to the room reaches it, however   *)
(* many broadcasts fail on other sockets meanwhile.                         *)
LoneOnlineRegistered ==
  \A c \in Conn :
    Online(c) /\ (\A d \in Conn \ {c} : SameKey(c, d) => pc[d] = "idle")
      => IsRegistered(c)

(* When websocket_chat has ended, its socket is not left behind in the      *)
(* registry, wherever it was closed, refused or failed: its finally clause  *)
(* has seen to it.  The one exception is a handler aborted by set_online,   *)
(* the only call after connect that the try does not cover.                 *)
EndedUnregistered == \A c \in Conn : pc[c] = "ended" => ~IsRegistered(c)

(* The finally clause cleans up after its own connection ("On disconnect:   *)
(* clean up manager", router.py, line 6) in a "central registry for all     *)
(* active WebSocket connections" (connection_manager.py, line 2): another   *)
(* one that is registered, in its loop and open stays registered.           *)
(* disconnect pops by user id: the handler of a replaced connection         *)
(* unregisters its successor.                                               *)
CleanupSparesOthers ==
  [][\A c, d \in Conn :
       Cleanup(c) /\ d # c /\ Online(d) /\ IsRegistered(d) => IsRegistered(d)']_vars

-----------------------------------------------------------------------------
(* Liveness. *)

(* A handler whose socket is closed while it serves it runs to its end,     *)
(* lock and broadcasts of others notwithstanding.                           *)
ClosedEnds ==
  \A c \in Conn : sock[c] = "closed" /\ pc[c] # "idle" ~> pc[c] \in {"ended", "aborted"}
=============================================================================
