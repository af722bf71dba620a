------------------------- MODULE ConnectionManager -------------------------
(***************************************************************************)
(* The per-process registry of WebSocket connections of                    *)
(* app/managers/connection_manager.py, under its most general client: any  *)
(* coroutine may call any method at any moment.                            *)
(*                                                                         *)
(* A coroutine runs undisturbed between two awaits.  disconnect, the       *)
(* snapshot of broadcast_to_room and the removal of stale sockets await    *)
(* nothing inside "async with self._lock", so each is one action guarded   *)
(* by a free lock.  connect awaits existing.close() inside the lock: lock  *)
(* names the connection whose connect is suspended there.                  *)
(***************************************************************************)

CONSTANTS
  Room, User,
  Conn,            \* the WebSocket objects, one per call of websocket_chat
  RoomOf, UserOf,  \* the room_id and user_id a connection was opened with
  Caster,          \* the coroutines that may run broadcast_to_room
  NoConn           \* "no entry"

ASSUME ConnAssumption ==
  /\ RoomOf \in [Conn -> Room]
  /\ UserOf \in [Conn -> User]
  /\ NoConn \notin Conn

VARIABLES
  rooms,      \* _rooms: room -> user -> WebSocket, NoConn for an absent key
  userRooms,  \* _user_rooms: user -> set of rooms
  lock,       \* the connection suspended inside connect's lock, or NoConn
  sock,       \* the transport under each WebSocket object
  todo,       \* sockets a running broadcast has still to send to
  stale       \* sockets on which a running broadcast failed to send

mgrVars == <<rooms, userRooms, lock, sock, todo, stale>>

MgrTypeOK ==
  /\ rooms \in [Room -> [User -> Conn \cup {NoConn}]]
  /\ userRooms \in [User -> SUBSET Room]
  /\ lock \in Conn \cup {NoConn}
  /\ sock \in [Conn -> {"fresh", "open", "closed"}]
  /\ todo \in [Caster -> SUBSET Conn]
  /\ stale \in [Caster -> SUBSET Conn]

MgrInit ==
  /\ rooms = [r \in Room |-> [u \in User |-> NoConn]]
  /\ userRooms = [u \in User |-> {}]
  /\ lock = NoConn
  /\ sock = [c \in Conn |-> "fresh"]
  /\ todo = [a \in Caster |-> {}]
  /\ stale = [a \in Caster |-> {}]

-----------------------------------------------------------------------------
(* The registry. *)

\* The entry under which connection c is, or would be, registered.
EntryOf(c) == rooms[RoomOf[c]][UserOf[c]]

IsRegistered(c) == EntryOf(c) = c

\* Faulty variant of Registered: absent keys are taken for sockets.
RegisteredOrNone(r) == {rooms[r][u] : u \in User}

\* The sockets of room r.
Registered(r) == {rooms[r][u] : u \in User} \ {NoConn}

SameKey(c, d) == RoomOf[c] = RoomOf[d] /\ UserOf[c] = UserOf[d]

Install(c) ==
  /\ rooms' = [rooms EXCEPT ![RoomOf[c]][UserOf[c]] = c]
  /\ userRooms' = [userRooms EXCEPT ![UserOf[c]] = @ \cup {RoomOf[c]}]

\* Faulty variant of Drop: only the entry of the first index is removed.
DropRoomsOnly(cs) ==
  /\ rooms' = [r \in Room |-> [u \in User |->
       IF \E c \in cs : RoomOf[c] = r /\ UserOf[c] = u THEN NoConn ELSE rooms[r][u]]]
  /\ UNCHANGED userRooms

\* Remove the entries of the keys of cs: the code pops by user id, so
\* whatever socket is stored under the key goes.
Drop(cs) ==
  /\ rooms' = [r \in Room |-> [u \in User |->
       IF \E c \in cs : RoomOf[c] = r /\ UserOf[c] = u THEN NoConn ELSE rooms[r][u]]]
  /\ userRooms' = [u \in User |->
       {r \in userRooms[u] : ~ \E c \in cs : RoomOf[c] = r /\ UserOf[c] = u}]

-----------------------------------------------------------------------------
(* connect and disconnect. *)

\* connect awaits accept() before it asks for the lock.
Accept(c) ==
  /\ sock[c] = "fresh"
  /\ sock' = [sock EXCEPT ![c] = "open"]
  /\ UNCHANGED <<rooms, userRooms, lock, todo, stale>>

\* The transport goes down: the client leaves, the network fails or the
\* server is done with it.
Close(c) ==
  /\ sock' = [sock EXCEPT ![c] = "closed"]
  /\ UNCHANGED <<rooms, userRooms, lock, todo, stale>>

\* connect finds no entry: nothing is awaited inside the lock.
ConnectFresh(c) ==
  /\ lock = NoConn
  /\ EntryOf(c) = NoConn
  /\ Install(c)
  /\ UNCHANGED <<lock, sock, todo, stale>>

\* Faulty variant of ConnectReplace: the stale socket is not closed.
ConnectReplaceKeepsOpen(c) ==
  /\ lock = NoConn
  /\ EntryOf(c) # NoConn
  /\ lock' = c
  /\ UNCHANGED <<rooms, userRooms, sock, todo, stale>>

\* connect finds a socket under its key: it closes it and is suspended in
\* close(), holding the lock.
ConnectReplace(c) ==
  /\ lock = NoConn
  /\ EntryOf(c) # NoConn
  /\ lock' = c
  /\ sock' = [sock EXCEPT ![EntryOf(c)] = "closed"]
  /\ UNCHANGED <<rooms, userRooms, todo, stale>>

\* Faulty variant of ConnectInstall: the lock is kept.
ConnectInstallKeepsLock(c) ==
  /\ lock = c
  /\ Install(c)
  /\ UNCHANGED <<lock, sock, todo, stale>>

\* close() has returned, or failed, which connect ignores.
ConnectInstall(c) ==
  /\ lock = c
  /\ lock' = NoConn
  /\ Install(c)
  /\ UNCHANGED <<sock, todo, stale>>

\* disconnect(room_id, user_id), called with the key of c.
Disconnect(c) ==
  /\ lock = NoConn
  /\ Drop({c})
  /\ UNCHANGED <<lock, sock, todo, stale>>

-----------------------------------------------------------------------------
(* broadcast_to_room, run by coroutine a: snapshot the room's sockets under *)
(* the lock, send to each outside it, and under the lock remove the keys of *)
(* those that failed.                                                       *)

BroadcastSnapshot(a, r) ==
  /\ lock = NoConn
  /\ todo[a] = {} /\ stale[a] = {}
  /\ todo' = [todo EXCEPT ![a] = Registered(r)]
  /\ UNCHANGED <<rooms, userRooms, lock, sock, stale>>

\* Faulty variant of BroadcastSend: a socket counts as stale when the send
\* succeeded.
BroadcastSendInverted(a) ==
  \E c \in todo[a] :
    /\ todo' = [todo EXCEPT ![a] = @ \ {c}]
    /\ stale' = IF sock[c] = "open" THEN [stale EXCEPT ![a] = @ \cup {c}] ELSE stale
    /\ UNCHANGED <<rooms, userRooms, lock, sock>>

BroadcastSend(a) ==
  \E c \in todo[a] :
    /\ todo' = [todo EXCEPT ![a] = @ \ {c}]
    /\ stale' = IF sock[c] = "open" THEN stale ELSE [stale EXCEPT ![a] = @ \cup {c}]
    /\ UNCHANGED <<rooms, userRooms, lock, sock>>

BroadcastPrune(a) ==
  /\ lock = NoConn
  /\ todo[a] = {} /\ stale[a] # {}
  /\ Drop(stale[a])
  /\ stale' = [stale EXCEPT ![a] = {}]
  /\ UNCHANGED <<lock, sock, todo>>

-----------------------------------------------------------------------------
MgrNext ==
  \/ \E c \in Conn :
       \/ Accept(c) \/ Close(c)
       \/ ConnectFresh(c) \/ ConnectReplace(c) \/ ConnectInstall(c)
       \/ Disconnect(c)
  \/ \E a \in Caster :
       \/ \E r \in Room : BroadcastSnapshot(a, r)
       \/ BroadcastSend(a)
       \/ BroadcastPrune(a)

MgrSpec == MgrInit /\ [][MgrNext]_mgrVars

(* _rooms and _user_rooms always describe the same set of connections:      *)
(* user u is stored in room r exactly when r is stored for u.  connect,     *)
(* disconnect and the stale removal of broadcast_to_room each write both.   *)
IndexesAgree ==
  \A r \in Room, u \in User : rooms[r][u] # NoConn <=> r \in userRooms[u]
=============================================================================
