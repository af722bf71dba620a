-------------------------- MODULE WsEndpointProofs --------------------------
(* Theorems about the registry of sockets, first for every client of        *)
(* ConnectionManager, then for websocket_chat.  Every step of the endpoint  *)
(* is a step of the manager's client; the endpoint's own invariants need    *)
(* the inductive EndpointInv.                                               *)
EXTENDS WsEndpoint, TLAPS

-----------------------------------------------------------------------------
(* Any client of the manager. *)

LEMMA InstallType ==
  ASSUME MgrTypeOK, NEW c \in Conn, Install(c)
  PROVE  /\ rooms' \in [Room -> [User -> Conn \cup {NoConn}]]
         /\ userRooms' \in [User -> SUBSET Room]
BY ConnAssumption DEF MgrTypeOK, Install

LEMMA DropType ==
  ASSUME MgrTypeOK, NEW cs \in SUBSET Conn, Drop(cs)
  PROVE  /\ rooms' \in [Room -> [User -> Conn \cup {NoConn}]]
         /\ userRooms' \in [User -> SUBSET Room]
BY DEF MgrTypeOK, Drop

\* No step of the manager leaves the types.
LEMMA MgrTypeStep == MgrTypeOK /\ [MgrNext]_mgrVars => MgrTypeOK'
<1> SUFFICES ASSUME MgrTypeOK, [MgrNext]_mgrVars PROVE MgrTypeOK'
  OBVIOUS
<1>1. CASE UNCHANGED mgrVars
  BY <1>1 DEF mgrVars, MgrTypeOK
<1>2. ASSUME NEW c \in Conn, Accept(c) \/ Close(c)
      PROVE  MgrTypeOK'
  BY <1>2 DEF Accept, Close, MgrTypeOK
<1>3. ASSUME NEW c \in Conn, ConnectFresh(c) \/ ConnectInstall(c)
      PROVE  MgrTypeOK'
  BY <1>3, InstallType DEF ConnectFresh, ConnectInstall, MgrTypeOK
<1>4. ASSUME NEW c \in Conn, ConnectReplace(c)
      PROVE  MgrTypeOK'
  BY <1>4 DEF ConnectReplace, MgrTypeOK
<1>5. ASSUME NEW c \in Conn, Disconnect(c)
      PROVE  MgrTypeOK'
  BY <1>5, DropType DEF Disconnect, MgrTypeOK
<1>6. ASSUME NEW a \in Caster, NEW r \in Room, BroadcastSnapshot(a, r)
      PROVE  MgrTypeOK'
  <2>1. Registered(r) \in SUBSET Conn
    BY DEF Registered, MgrTypeOK
  <2> QED
    BY <1>6, <2>1 DEF BroadcastSnapshot, MgrTypeOK
<1>7. ASSUME NEW a \in Caster, BroadcastSend(a)
      PROVE  MgrTypeOK'
  BY <1>7 DEF BroadcastSend, MgrTypeOK
<1>8. ASSUME NEW a \in Caster, BroadcastPrune(a)
      PROVE  MgrTypeOK'
  <2>1. stale[a] \in SUBSET Conn
    BY DEF MgrTypeOK
  <2> QED
    BY <1>8, <2>1, DropType DEF BroadcastPrune, MgrTypeOK
<1> QED
  BY <1>1, <1>2, <1>3, <1>4, <1>5, <1>6, <1>7, <1>8 DEF MgrNext

LEMMA InstallAgrees ==
  ASSUME MgrTypeOK, IndexesAgree, NEW c \in Conn, Install(c)
  PROVE  IndexesAgree'
BY ConnAssumption DEF MgrTypeOK, IndexesAgree, Install

LEMMA DropAgrees ==
  ASSUME MgrTypeOK, IndexesAgree, NEW cs \in SUBSET Conn, Drop(cs)
  PROVE  IndexesAgree'
BY DEF MgrTypeOK, IndexesAgree, Drop

LEMMA AgreeStep == MgrTypeOK /\ IndexesAgree /\ [MgrNext]_mgrVars => IndexesAgree'
<1> SUFFICES ASSUME MgrTypeOK, IndexesAgree, [MgrNext]_mgrVars PROVE IndexesAgree'
  OBVIOUS
<1>1. CASE UNCHANGED <<rooms, userRooms>>
  BY <1>1 DEF IndexesAgree
<1>2. ASSUME NEW c \in Conn, Install(c)
      PROVE  IndexesAgree'
  BY <1>2, InstallAgrees
<1>3. ASSUME NEW cs \in SUBSET Conn, Drop(cs)
      PROVE  IndexesAgree'
  BY <1>3, DropAgrees
<1>4. ASSUME NEW c \in Conn, Disconnect(c)
      PROVE  IndexesAgree'
  BY <1>4, <1>3 DEF Disconnect
<1>5. ASSUME NEW a \in Caster, BroadcastPrune(a)
      PROVE  IndexesAgree'
  BY <1>5, <1>3 DEF BroadcastPrune, MgrTypeOK
<1> QED
  BY <1>1, <1>2, <1>4, <1>5
  DEF MgrNext, mgrVars, Accept, Close, ConnectFresh, ConnectReplace, ConnectInstall,
      BroadcastSnapshot, BroadcastSend

(* The two indexes of the registry agree, whoever calls its methods in      *)
(* whatever order, including after the key of a closed socket was reused.   *)
THEOREM MgrCorrect == MgrSpec => [](MgrTypeOK /\ IndexesAgree)
<1>1. MgrInit => MgrTypeOK /\ IndexesAgree
  BY DEF MgrInit, MgrTypeOK, IndexesAgree
<1>2. MgrTypeOK /\ IndexesAgree /\ [MgrNext]_mgrVars => (MgrTypeOK /\ IndexesAgree)'
  BY MgrTypeStep, AgreeStep
<1> QED
  BY <1>1, <1>2, PTL DEF MgrSpec

-----------------------------------------------------------------------------
(* The endpoint. *)

LEMMA StepSimulation == [Next]_vars => [MgrNext]_mgrVars
<1> SUFFICES ASSUME [Next]_vars PROVE [MgrNext]_mgrVars
  OBVIOUS
<1>1. CASE UNCHANGED mgrVars
  BY <1>1
<1>2. ASSUME NEW c \in Conn,
             Reject(c) \/ Admit(c) \/ ClientGone(c) \/ GiveUp(c) \/ Handler(c)
      PROVE  [MgrNext]_mgrVars
  <2>1. c \in Caster
    BY CasterAssumption
  <2>2. CASE Greet(c) \/ Part(c)
    BY <2>1, <2>2, ConnAssumption DEF Greet, Part, MgrNext
  <2>3. CASE Connect(c) \/ Connected(c) \/ Cleanup(c)
    BY <2>3 DEF Connect, Connected, Cleanup, MgrNext
  <2>4. CASE Reject(c) \/ Admit(c) \/ ClientGone(c) \/ SetOnline(c) \/ SetOffline(c) \/ End(c)
    BY <2>4 DEF Reject, Admit, ClientGone, SetOnline, SetOffline, End, MgrNext
  <2>5. CASE GiveUp(c) \/ Greeted(c) \/ Dropped(c)
    BY <2>5 DEF GiveUp, Greeted, Dropped
  <2> QED
    BY <1>2, <2>2, <2>3, <2>4, <2>5 DEF Handler
<1>3. ASSUME NEW a \in Caster, CastStep(a)
      PROVE  [MgrNext]_mgrVars
  BY <1>3 DEF CastStep, MgrNext
<1>4. ASSUME NEW t \in Task, Deliver(t)
      PROVE  [MgrNext]_mgrVars
  BY <1>4, CasterAssumption DEF Deliver, MgrNext
<1> QED
  BY <1>1, <1>2, <1>3, <1>4 DEF Next, vars, mgrVars

(* The endpoint and the subscriber use the manager as its general client    *)
(* may: whatever holds of the manager alone holds inside the server.        *)
THEOREM EndpointImplementsManager == Spec => MgrSpec
<1>1. Init => MgrInit
  BY DEF Init
<1> QED
  BY <1>1, StepSimulation, PTL DEF Spec, MgrSpec

LEMMA TypeStep == TypeOK /\ [Next]_vars => TypeOK'
<1> SUFFICES ASSUME TypeOK, [Next]_vars PROVE TypeOK'
  OBVIOUS
<1>1. MgrTypeOK'
  BY StepSimulation, MgrTypeStep DEF TypeOK
<1>2. pc' \in [Conn -> PC]
  BY DEF TypeOK, Next, vars, Handler, Reject, Admit, ClientGone, GiveUp, Connect,
         Connected, SetOnline, Greet, Greeted, Dropped, Cleanup, SetOffline, Part,
         End, CastStep, Deliver, Go, PC
<1> QED
  BY <1>1, <1>2 DEF TypeOK

(* Every variable of the endpoint and of the manager keeps its type; in     *)
(* particular the tasks of broadcasts hold sockets only.                    *)
THEOREM EndpointTyped == Spec => []TypeOK
<1>1. Init => TypeOK
  BY DEF Init, MgrInit, TypeOK, MgrTypeOK, PC
<1> QED
  BY <1>1, TypeStep, PTL DEF Spec

(* The two indexes of the registry agree in every state of the running      *)
(* server.                                                                  *)
THEOREM EndpointIndexesAgree == Spec => []IndexesAgree
BY EndpointImplementsManager, MgrCorrect, PTL

-----------------------------------------------------------------------------
(* The inductive invariant. *)

\* Where a handler may stand while its socket is registered: between connect
\* and its own disconnect, or past a set_online that raised.
Serving == {"online", "hello", "greeting", "loop", "finally", "aborted"}

\* An entry is stored under its own key by a handler that is serving it.
EntriesServed ==
  \A r \in Room, u \in User :
    rooms[r][u] \in Conn =>
      /\ RoomOf[rooms[r][u]] = r /\ UserOf[rooms[r][u]] = u
      /\ pc[rooms[r][u]] \in Serving

\* The lock is held exactly by a connect inside close(), whose key has no
\* entry or that of a closed socket.
LockOnClosed ==
  \A c \in Conn :
    /\ lock = c <=> pc[c] = "closing"
    /\ lock = c /\ EntryOf(c) \in Conn => sock[EntryOf(c)] = "closed"

\* Broadcasts hold only sockets that were admitted, as stale only closed ones.
TargetsAdmitted ==
  /\ \A c \in Conn : pc[c] # "idle" => sock[c] # "fresh"
  /\ \A a \in Caster : \A c \in todo[a] : pc[c] # "idle"
  /\ \A a \in Caster : \A c \in stale[a] : pc[c] # "idle" /\ sock[c] = "closed"

Lone(c) == \A d \in Conn \ {c} : SameKey(c, d) => pc[d] = "idle"

LoneServed ==
  \A c \in Conn :
    pc[c] \in {"online", "hello", "greeting", "loop"} /\ sock[c] = "open" /\ Lone(c)
      => IsRegistered(c)

EndpointInv ==
  TypeOK /\ EntriesServed /\ LockOnClosed /\ TargetsAdmitted /\ LoneServed

LEMMA InvInit == Init => EndpointInv
BY ConnAssumption
DEF Init, MgrInit, EndpointInv, TypeOK, MgrTypeOK, PC, EntriesServed, LockOnClosed,
    EntryOf, TargetsAdmitted, LoneServed

LEMMA EntriesStep == EndpointInv /\ [Next]_vars => EntriesServed'
<1> SUFFICES ASSUME EndpointInv, [Next]_vars PROVE EntriesServed'
  OBVIOUS
<1> USE ConnAssumption DEF EndpointInv, TypeOK, MgrTypeOK, PC, Serving, EntriesServed
<1>1. CASE UNCHANGED vars
  BY <1>1 DEF vars
<1>2. ASSUME NEW c \in Conn,
             Reject(c) \/ Admit(c) \/ ClientGone(c) \/ GiveUp(c) \/ Dropped(c)
               \/ SetOnline(c) \/ Greet(c) \/ Greeted(c) \/ SetOffline(c) \/ Part(c) \/ End(c)
      PROVE  EntriesServed'
  BY <1>2 DEF Reject, Admit, ClientGone, GiveUp, Dropped, SetOnline, Greet, Greeted,
              SetOffline, Part, End, Go, Close, Accept, BroadcastSnapshot, mgrVars
<1>3. ASSUME NEW c \in Conn, Connect(c)
      PROVE  EntriesServed'
  <2>1. CASE Go(c, "connect", "online") /\ Install(c)
    BY <2>1 DEF Install, Go
  <2>2. CASE Go(c, "connect", "closing") /\ UNCHANGED rooms
    BY <2>2 DEF Go
  <2> QED
    BY <1>3, <2>1, <2>2 DEF Connect, ConnectFresh, ConnectReplace
<1>4. ASSUME NEW c \in Conn, Connected(c)
      PROVE  EntriesServed'
  BY <1>4 DEF Connected, ConnectInstall, Install, Go
<1>5. ASSUME NEW c \in Conn, Cleanup(c)
      PROVE  EntriesServed'
  BY <1>5 DEF Cleanup, Disconnect, Drop, Go
<1>6. ASSUME NEW a \in Caster, CastStep(a)
      PROVE  EntriesServed'
  <2>1. pc' = pc
    BY <1>6 DEF CastStep
  <2>2. CASE BroadcastSend(a)
    BY <2>1, <2>2 DEF BroadcastSend
  <2>3. CASE BroadcastPrune(a)
    <3>1. \A r \in Room, u \in User : rooms'[r][u] = rooms[r][u] \/ rooms'[r][u] = NoConn
      BY <2>3 DEF BroadcastPrune, Drop
    <3> SUFFICES ASSUME NEW r \in Room, NEW u \in User, rooms'[r][u] \in Conn
                 PROVE  /\ RoomOf[rooms'[r][u]] = r /\ UserOf[rooms'[r][u]] = u
                        /\ pc'[rooms'[r][u]] \in Serving
      OBVIOUS
    <3>2. rooms'[r][u] = rooms[r][u]
      BY <3>1
    <3> QED
      BY <2>1, <3>2
  <2> QED
    BY <1>6, <2>2, <2>3 DEF CastStep
<1>7. ASSUME NEW t \in Task, Deliver(t)
      PROVE  EntriesServed'
  BY <1>7 DEF Deliver, BroadcastSnapshot
<1> QED
  BY <1>1, <1>2, <1>3, <1>4, <1>5, <1>6, <1>7 DEF Next, Handler

LEMMA LockStep == EndpointInv /\ [Next]_vars => LockOnClosed'
<1> SUFFICES ASSUME EndpointInv, [Next]_vars PROVE LockOnClosed'
  OBVIOUS
<1> USE ConnAssumption
    DEF EndpointInv, TypeOK, MgrTypeOK, PC, LockOnClosed, EntryOf, TargetsAdmitted
<1>1. CASE UNCHANGED vars
  BY <1>1 DEF vars
<1>2. ASSUME NEW c \in Conn,
             Reject(c) \/ Admit(c) \/ ClientGone(c) \/ GiveUp(c) \/ Dropped(c)
               \/ SetOnline(c) \/ Greet(c) \/ Greeted(c) \/ SetOffline(c) \/ Part(c) \/ End(c)
      PROVE  LockOnClosed'
  BY <1>2 DEF Reject, Admit, ClientGone, GiveUp, Dropped, SetOnline, Greet, Greeted,
              SetOffline, Part, End, Go, Close, Accept, BroadcastSnapshot, mgrVars
<1>3. ASSUME NEW c \in Conn, Connect(c)
      PROVE  LockOnClosed'
  BY <1>3 DEF Connect, ConnectFresh, ConnectReplace, Install, Go
<1>4. ASSUME NEW c \in Conn, Connected(c)
      PROVE  LockOnClosed'
  BY <1>4 DEF Connected, ConnectInstall, Install, Go
<1>5. ASSUME NEW c \in Conn, Cleanup(c)
      PROVE  LockOnClosed'
  BY <1>5 DEF Cleanup, Disconnect, Go
<1>6. ASSUME NEW a \in Caster, CastStep(a)
      PROVE  LockOnClosed'
  BY <1>6 DEF CastStep, BroadcastSend, BroadcastPrune
<1>7. ASSUME NEW t \in Task, Deliver(t)
      PROVE  LockOnClosed'
  BY <1>7 DEF Deliver, BroadcastSnapshot
<1> QED
  BY <1>1, <1>2, <1>3, <1>4, <1>5, <1>6, <1>7 DEF Next, Handler

LEMMA TargetsStep == EndpointInv /\ [Next]_vars => TargetsAdmitted'
<1> SUFFICES ASSUME EndpointInv, [Next]_vars PROVE TargetsAdmitted'
  OBVIOUS
<1> USE DEF EndpointInv, TypeOK, MgrTypeOK, PC, TargetsAdmitted
<1>1. CASE UNCHANGED vars
  BY <1>1 DEF vars
<1>2. ASSUME NEW c \in Conn,
             Reject(c) \/ Admit(c) \/ ClientGone(c) \/ GiveUp(c) \/ Dropped(c)
               \/ SetOnline(c) \/ Greeted(c) \/ SetOffline(c) \/ End(c)
      PROVE  TargetsAdmitted'
  BY <1>2 DEF Reject, Admit, ClientGone, GiveUp, Dropped, SetOnline, Greeted,
              SetOffline, End, Go, Close, Accept, mgrVars
<1>3. ASSUME NEW c \in Conn, Connect(c) \/ Connected(c) \/ Cleanup(c)
      PROVE  TargetsAdmitted'
  BY <1>3, ConnAssumption DEF Connect, ConnectFresh, ConnectReplace, Connected, ConnectInstall,
              Cleanup, Disconnect, Go
<1>4. ASSUME NEW a \in Caster, NEW r \in Room, BroadcastSnapshot(a, r),
             \A c \in Conn : pc[c] # "idle" => pc'[c] # "idle", sock' = sock,
             \A c \in Conn : pc[c] = "idle" => pc'[c] = "idle"
      PROVE  TargetsAdmitted'
  <2>1. \A c \in Registered(r) : c \in Conn /\ pc[c] # "idle"
    BY DEF Registered, EntriesServed, Serving
  <2> QED
    BY <1>4, <2>1 DEF BroadcastSnapshot
<1>5. ASSUME NEW c \in Conn, Greet(c) \/ Part(c)
      PROVE  TargetsAdmitted'
  <2>1. c \in Caster /\ RoomOf[c] \in Room /\ BroadcastSnapshot(c, RoomOf[c])
    BY <1>5, ConnAssumption, CasterAssumption DEF Greet, Part
  <2>2. /\ \A d \in Conn : pc[d] # "idle" <=> pc'[d] # "idle"
        /\ sock' = sock
    BY <1>5, <2>1 DEF Greet, Part, Go, BroadcastSnapshot
  <2> QED
    BY <1>4, <2>1, <2>2
<1>6. ASSUME NEW a \in Caster, CastStep(a)
      PROVE  TargetsAdmitted'
  BY <1>6 DEF CastStep, BroadcastSend, BroadcastPrune
<1>7. ASSUME NEW t \in Task, Deliver(t)
      PROVE  TargetsAdmitted'
  BY <1>4, <1>7, CasterAssumption DEF Deliver, BroadcastSnapshot
<1> QED
  BY <1>1, <1>2, <1>3, <1>5, <1>6, <1>7 DEF Next, Handler

LEMMA LoneStep == EndpointInv /\ [Next]_vars => LoneServed'
<1> SUFFICES ASSUME EndpointInv, [Next]_vars PROVE LoneServed'
  OBVIOUS
<1> USE ConnAssumption
    DEF EndpointInv, TypeOK, MgrTypeOK, PC, LoneServed, Lone, IsRegistered, EntryOf
<1>1. CASE UNCHANGED vars
  BY <1>1 DEF vars, SameKey
<1>2. ASSUME NEW c \in Conn,
             Reject(c) \/ Admit(c) \/ ClientGone(c) \/ GiveUp(c) \/ Dropped(c)
               \/ SetOnline(c) \/ Greet(c) \/ Greeted(c) \/ SetOffline(c) \/ Part(c) \/ End(c)
      PROVE  LoneServed'
  BY <1>2 DEF Reject, Admit, ClientGone, GiveUp, Dropped, SetOnline, Greet, Greeted,
              SetOffline, Part, End, Go, Close, Accept, BroadcastSnapshot, mgrVars, SameKey
<1>3. ASSUME NEW c \in Conn, Go(c, "connect", "online") \/ Go(c, "closing", "online"),
             Install(c), UNCHANGED sock
      PROVE  LoneServed'
  <2> SUFFICES ASSUME NEW d \in Conn, d # c, sock[d] = "open", Lone(d)',
                      pc[d] \in {"online", "hello", "greeting", "loop"}
               PROVE  EntryOf(d)' = d
    BY <1>3 DEF Go, Install
  <2>1. ~SameKey(d, c)
    BY <1>3 DEF Go
  <2>2. \A e \in Conn \ {d} : SameKey(d, e) => pc[e] = "idle"
    BY <1>3, <2>1 DEF Go
  <2>3. EntryOf(d) = d
    BY <2>2
  <2> QED
    BY <1>3, <2>1, <2>3 DEF Install, SameKey
<1>4. ASSUME NEW c \in Conn, Connect(c) \/ Connected(c)
      PROVE  LoneServed'
  <2>1. CASE Go(c, "connect", "closing") /\ ConnectReplace(c)
    BY <2>1 DEF Go, ConnectReplace, SameKey
  <2> QED
    BY <1>3, <1>4, <2>1 DEF Connect, Connected, ConnectFresh, ConnectInstall
<1>5. ASSUME NEW c \in Conn, Cleanup(c)
      PROVE  LoneServed'
  <2> SUFFICES ASSUME NEW d \in Conn, d # c, sock[d] = "open", Lone(d)',
                      pc[d] \in {"online", "hello", "greeting", "loop"}
               PROVE  EntryOf(d)' = d
    BY <1>5 DEF Cleanup, Disconnect, Go
  <2>1. ~SameKey(d, c)
    BY <1>5 DEF Cleanup, Go
  <2>2. \A e \in Conn \ {d} : SameKey(d, e) => pc[e] = "idle"
    BY <1>5, <2>1 DEF Cleanup, Go
  <2>3. EntryOf(d) = d
    BY <2>2
  <2> QED
    BY <1>5, <2>1, <2>3 DEF Cleanup, Disconnect, Drop, SameKey
<1>6. ASSUME NEW a \in Caster, BroadcastPrune(a), UNCHANGED pc
      PROVE  LoneServed'
  <2> SUFFICES ASSUME NEW d \in Conn, sock[d] = "open", Lone(d),
                      pc[d] \in {"online", "hello", "greeting", "loop"}
               PROVE  EntryOf(d)' = d
    BY <1>6 DEF BroadcastPrune, SameKey
  <2>1. EntryOf(d) = d
    OBVIOUS
  <2>2. \A e \in stale[a] : ~(RoomOf[e] = RoomOf[d] /\ UserOf[e] = UserOf[d])
    BY DEF TargetsAdmitted, SameKey
  <2> QED
    BY <1>6, <2>1, <2>2 DEF BroadcastPrune, Drop
<1>7. ASSUME NEW a \in Caster, CastStep(a)
      PROVE  LoneServed'
  BY <1>6, <1>7 DEF CastStep, BroadcastSend, SameKey
<1>8. ASSUME NEW t \in Task, Deliver(t)
      PROVE  LoneServed'
  BY <1>8 DEF Deliver, BroadcastSnapshot, SameKey
<1> QED
  BY <1>1, <1>2, <1>4, <1>5, <1>7, <1>8 DEF Next, Handler

LEMMA EndpointInvariant == Spec => []EndpointInv
<1>1. EndpointInv /\ [Next]_vars => EndpointInv'
  <2> SUFFICES ASSUME EndpointInv, [Next]_vars PROVE EndpointInv'
    OBVIOUS
  <2>1. TypeOK'
    BY TypeStep DEF EndpointInv
  <2> QED
    BY <2>1, EntriesStep, LockStep, TargetsStep, LoneStep DEF EndpointInv
<1> QED
  BY <1>1, InvInit, PTL DEF Spec

-----------------------------------------------------------------------------
(* A connection in its loop whose key nobody else used is reached by every  *)
(* broadcast to its room, however many broadcasts fail on other sockets.    *)
THEOREM LoneConnectionKept == Spec => []LoneOnlineRegistered
<1>1. EndpointInv => LoneOnlineRegistered
  BY DEF EndpointInv, LoneServed, LoneOnlineRegistered, Online, Lone
<1> QED
  BY <1>1, EndpointInvariant, PTL

(* No handler that set_online did not abort returns leaving its socket in   *)
(* the registry, whoever closed, replaced, pruned or refused it.            *)
THEOREM FinallyUnregisters == Spec => []EndedUnregistered
<1>1. EndpointInv => EndedUnregistered
  BY ConnAssumption
  DEF EndpointInv, EntriesServed, Serving, EndedUnregistered, IsRegistered, EntryOf
<1> QED
  BY <1>1, EndpointInvariant, PTL

(* The step behind OpenNeverDisplaced: connect overwrites an entry only in  *)
(* ConnectInstall, under the lock it has held since it closed that entry.   *)
LEMMA DisplaceStep ==
  EndpointInv /\ [Next]_vars =>
    [\A r \in Room, u \in User :
       LET old == rooms[r][u]
           new == rooms'[r][u]
       IN  old \in Conn /\ new \in Conn /\ old # new => sock[old] = "closed"]_vars
<1> SUFFICES ASSUME EndpointInv, [MgrNext]_mgrVars,
                    NEW r \in Room, NEW u \in User,
                    rooms[r][u] \in Conn, rooms'[r][u] \in Conn, rooms[r][u] # rooms'[r][u]
             PROVE  sock[rooms[r][u]] = "closed"
  BY StepSimulation
<1> USE ConnAssumption DEF EndpointInv, TypeOK, MgrTypeOK
<1>1. ASSUME NEW c \in Conn, Install(c), EntryOf(c) \in Conn => sock[EntryOf(c)] = "closed"
      PROVE  sock[rooms[r][u]] = "closed"
  BY <1>1 DEF Install, EntryOf
<1>2. ASSUME NEW cs \in SUBSET Conn, Drop(cs)
      PROVE  FALSE
  BY <1>2 DEF Drop
<1>3. CASE UNCHANGED rooms
  BY <1>3
<1>4. ASSUME NEW c \in Conn, ConnectFresh(c) \/ ConnectInstall(c)
      PROVE  sock[rooms[r][u]] = "closed"
  BY <1>1, <1>4 DEF ConnectFresh, ConnectInstall, LockOnClosed
<1>5. ASSUME NEW c \in Conn, Disconnect(c)
      PROVE  FALSE
  BY <1>2, <1>5 DEF Disconnect
<1>6. ASSUME NEW a \in Caster, BroadcastPrune(a)
      PROVE  FALSE
  BY <1>2, <1>6 DEF BroadcastPrune
<1> QED
  BY <1>3, <1>4, <1>5, <1>6
  DEF MgrNext, mgrVars, Accept, Close, ConnectReplace, BroadcastSnapshot, BroadcastSend

(* A key passes from one socket to another only when the first is closed:   *)
(* what holding the lock across existing.close() is for.                    *)
THEOREM NoOpenSocketDisplaced == Spec => OpenNeverDisplaced
BY EndpointInvariant, DisplaceStep, PTL DEF Spec, OpenNeverDisplaced
=============================================================================
