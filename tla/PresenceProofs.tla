--------------------------- MODULE PresenceProofs ---------------------------
(* Theorems about presence, for any users, connections and timing constants *)
(* with Interval < TTL, and about who is told last of a user who comes and  *)
(* goes, for any connections and rooms.  PresenceFeed shares no name with   *)
(* Presence so that this module can extend both.                            *)
EXTENDS Presence, PresenceFeed, WellFoundedInduction, TLAPS

LEMMA InitType == Init => TypeOK
BY PresenceAssumption DEF Init, TypeOK, PC

LEMMA TypeStep == TypeOK /\ [Next]_vars => TypeOK'
<1> SUFFICES ASSUME TypeOK, [Next]_vars PROVE TypeOK'
  OBVIOUS
<1>0. 0 \in 0 .. TTL /\ TTL \in 0 .. TTL /\ Interval \in 0 .. Interval
  BY PresenceAssumption
<1>f. faults' \subseteq Fault
  BY DEF TypeOK, Fault, Fails, Next, Work, vars, Connect, SetKey, Announce, StartHeart, Wake, Refresh,
         HeartFails, Leave, FrameFails, CallFails, Crash, StopHeart, DropKey, AnnounceOff,
         LateSet, Evict, Tick
<1> USE <1>0, <1>f, PresenceAssumption DEF TypeOK, PC, Go, SetEx, Del, StopHeart
<1>1. CASE UNCHANGED vars
  BY <1>1 DEF vars
<1>2. ASSUME NEW c \in Conn, Connect(c) \/ SetKey(c) \/ Announce(c) \/ StartHeart(c)
      PROVE  TypeOK'
  BY <1>2 DEF Connect, SetKey, Announce, StartHeart
<1>3. ASSUME NEW c \in Conn, Wake(c) \/ Refresh(c) \/ HeartFails(c)
      PROVE  TypeOK'
  BY <1>3 DEF Wake, Refresh, HeartFails
<1>4. ASSUME NEW c \in Conn, Leave(c) \/ FrameFails(c) \/ CallFails(c) \/ Crash(c)
      PROVE  TypeOK'
  <2>1. CASE Leave(c)
    BY <2>1 DEF Leave
  <2>2. CASE FrameFails(c) \/ CallFails(c)
    BY <2>2 DEF FrameFails, CallFails
  <2>3. CASE Crash(c)
    BY <2>3 DEF Crash
  <2> QED
    BY <1>4, <2>1, <2>2, <2>3
<1>5. ASSUME NEW c \in Conn, DropKey(c) \/ AnnounceOff(c) \/ LateSet(c)
      PROVE  TypeOK'
  <2>1. CASE DropKey(c) \/ AnnounceOff(c)
    BY <2>1 DEF DropKey, AnnounceOff
  <2>2. CASE LateSet(c)
    BY <2>2 DEF LateSet
  <2> QED
    BY <1>5, <2>1, <2>2
<1>6. ASSUME NEW u \in User, Evict(u)
      PROVE  TypeOK'
  BY <1>6 DEF Evict
<1>7. CASE Tick
  <2>1. \A u \in User : (IF ttl[u] = 0 THEN 0 ELSE ttl[u] - 1) \in 0 .. TTL
    OBVIOUS
  <2>2. \A c \in Conn : (IF heart[c] = "sleep" THEN beat[c] - 1 ELSE beat[c]) \in 0 .. Interval
    BY <1>7 DEF Tick, Settled
  <2> QED
    BY <1>7, <2>1, <2>2 DEF Tick
<1> QED
  BY <1>1, <1>2, <1>3, <1>4, <1>5, <1>6, <1>7 DEF Next, Work

(* Every variable keeps its type.                                           *)
THEOREM PresenceTyped == Spec => []TypeOK
BY InitType, TypeStep, PTL DEF Spec

-----------------------------------------------------------------------------
(* Listed until the first connection leaves. *)

\* While none of its user's connections has left, the key outlives the
\* sleep of each heartbeat; heartbeats run exactly in the loop.
Outlives(c) ==
  LET u == UserOf[c]
  IN  /\ pc[c] \in {"announce", "greet"} => ttl[u] = TTL
      /\ pc[c] \in {"greet", "loop"} => said[u] = "online"
      /\ heart[c] = "sleep" => ttl[u] > beat[c]
      /\ heart[c] = "write" => ttl[u] > 0

Beating == \A c \in Conn : heart[c] \in {"sleep", "write"} <=> pc[c] = "loop"

\* Redis has failed no command and evicted no key, no broadcast of an arrival
\* was slow.
Sound == faults \cap {"redis", "evict", "slow"} = {}

BeatInv ==
  /\ TypeOK
  /\ Sound => Beating /\ \A c \in Conn : NoneLeft(UserOf[c]) => Outlives(c)

LEMMA BeatInit == Init => BeatInv
BY InitType DEF Init, BeatInv, Sound, Beating, Outlives

LEMMA BeatStep == BeatInv /\ [Next]_vars => BeatInv'
<1> SUFFICES ASSUME BeatInv, [Next]_vars PROVE BeatInv'
  OBVIOUS
<1>0. TypeOK' /\ TypeOK
  BY TypeStep DEF BeatInv
<1> SUFFICES ASSUME Sound'
             PROVE  Beating' /\ \A c \in Conn : NoneLeft(UserOf[c])' => Outlives(c)'
  BY <1>0 DEF BeatInv
<1>r. Sound
  BY DEF Sound, Fails, Next, Work, vars, Connect, SetKey, Announce, StartHeart, Wake, Refresh,
         HeartFails, Leave, FrameFails, CallFails, Crash, StopHeart, DropKey, AnnounceOff,
         LateSet, Evict, Tick
<1> USE <1>0, <1>r, PresenceAssumption DEF TypeOK, PC, BeatInv, Go
<1>9. ASSUME NEW c \in Conn, HeartFails(c) \/ CallFails(c)
      PROVE  FALSE
  BY <1>9 DEF HeartFails, CallFails, Fails, Sound
<1>10. ASSUME NEW u \in User, Evict(u)
       PROVE  FALSE
  BY <1>10 DEF Evict, Fails, Sound
<1>1. Beating'
  BY <1>9, <1>10 DEF Beating, Next, Work, vars, Connect, SetKey, Announce, StartHeart, Wake,
         Refresh, HeartFails,
         Leave, FrameFails, CallFails, Crash, StopHeart, DropKey, AnnounceOff, LateSet,
         Evict, Tick
<1> SUFFICES ASSUME NEW d \in Conn, NoneLeft(UserOf[d])'
             PROVE  Outlives(d)'
  BY <1>1
<1>2. CASE UNCHANGED vars
  BY <1>2 DEF vars, NoneLeft, Outlives
<1>3. ASSUME NEW c \in Conn, Connect(c) \/ Wake(c) \/ FrameFails(c)
      PROVE  Outlives(d)'
  BY <1>3 DEF Connect, Wake, FrameFails, NoneLeft, Outlives
<1>4. ASSUME NEW c \in Conn, SetKey(c) \/ Refresh(c) \/ LateSet(c)
      PROVE  Outlives(d)'
  BY <1>4 DEF SetKey, Refresh, LateSet, SetEx, NoneLeft, Outlives
<1>5. ASSUME NEW c \in Conn, Announce(c) \/ StartHeart(c)
      PROVE  Outlives(d)'
  BY <1>5 DEF Announce, StartHeart, NoneLeft, Outlives
<1>6. ASSUME NEW c \in Conn, Leave(c) \/ DropKey(c) \/ AnnounceOff(c)
      PROVE  Outlives(d)'
  BY <1>6 DEF Leave, StopHeart, DropKey, Del, AnnounceOff, NoneLeft, Outlives
<1>7. ASSUME NEW c \in Conn, Crash(c)
      PROVE  Outlives(d)'
  BY <1>7 DEF Crash, StopHeart, NoneLeft, Outlives
<1>8. CASE Tick
  <2>1. \A c \in Conn : pc[c] # "greet"
    BY <1>8 DEF Tick, Fails, Sound
  <2> QED
    BY <1>8, <2>1 DEF Tick, Settled, NoneLeft, Outlives
<1> QED
  BY <1>2, <1>3, <1>4, <1>5, <1>6, <1>7, <1>8, <1>9, <1>10 DEF Next, Work

(* While Redis answers and evicts nothing, a connected user stays listed    *)
(* until one of the user's connections leaves, whatever processes die and   *)
(* however the heartbeats of several connections interleave.                *)
THEOREM ListedUntilOneLeaves == Spec => []VisibleUntilOneLeaves
<1>1. BeatInv => VisibleUntilOneLeaves
  BY PresenceAssumption
  DEF BeatInv, Sound, TypeOK, Beating, Outlives, VisibleUntilOneLeaves, Connected,
      Listed
<1> QED
  BY <1>1, BeatInit, BeatStep, PTL DEF Spec

-----------------------------------------------------------------------------
(* Unlisted once every connection has left. *)

\* A listed user has a connection that has not yet deleted the key, or that
\* its process's death kept from deleting it.
Holds ==
  /\ \A u \in User : ttl[u] > 0 =>
       \E c \in Conn : /\ UserOf[c] = u
                     /\ pc[c] \in {"announce", "greet", "loop", "offkey", "died", "lost"}
  /\ \A c \in Conn :
       /\ heart[c] \in {"sleep", "write"} => pc[c] = "loop"
       /\ ~dirty[c] /\ ~late[c]

\* No command, no frame and no cancelled write has failed.
Orderly == faults \cap {"redis", "frame", "reorder"} = {}

Held == Orderly => Holds

LEMMA HeldStep == TypeOK /\ Held /\ [Next]_vars => Held'
<1> SUFFICES ASSUME TypeOK, Held, [Next]_vars, Orderly' PROVE Holds'
  BY DEF Held
<1>o. Orderly
  BY DEF Orderly, Fails, Next, Work, vars, Connect, SetKey, Announce, StartHeart, Wake, Refresh,
         HeartFails, Leave, FrameFails, CallFails, Crash, StopHeart, DropKey, AnnounceOff,
         LateSet, Evict, Tick
<1> USE <1>o, PresenceAssumption DEF TypeOK, PC, Held, Holds, Go
<1>1. CASE UNCHANGED vars
  BY <1>1 DEF vars
<1>2. ASSUME NEW c \in Conn, Connect(c) \/ Wake(c) \/ Announce(c) \/ StartHeart(c) \/ AnnounceOff(c)
      PROVE  Holds'
  BY <1>2 DEF Connect, Wake, Announce, StartHeart, AnnounceOff
<1>3. ASSUME NEW c \in Conn, SetKey(c) \/ Refresh(c)
      PROVE  Holds'
  BY <1>3 DEF SetKey, Refresh, SetEx
<1>4. ASSUME NEW c \in Conn, Leave(c) \/ Crash(c)
      PROVE  Holds'
  <2>1. CASE Leave(c)
    BY <2>1 DEF Leave, StopHeart, Fails, Orderly
  <2>2. CASE Crash(c)
    BY <2>2 DEF Crash, StopHeart, Fails, Orderly
  <2> QED
    BY <1>4, <2>1, <2>2
<1>5. ASSUME NEW c \in Conn, DropKey(c)
      PROVE  Holds'
  BY <1>5 DEF DropKey, Del
<1>6. ASSUME NEW c \in Conn,
             LateSet(c) \/ HeartFails(c) \/ FrameFails(c) \/ CallFails(c)
      PROVE  FALSE
  BY <1>6 DEF LateSet, HeartFails, FrameFails, CallFails, Fails, Orderly
<1>7. ASSUME NEW u \in User, Evict(u)
      PROVE  Holds'
  BY <1>7 DEF Evict
<1>8. CASE Tick
  BY <1>8 DEF Tick
<1> QED
  BY <1>1, <1>2, <1>3, <1>4, <1>5, <1>6, <1>7, <1>8 DEF Next, Work

(* While Redis answers, no frame fails and no cancelled write comes late, a *)
(* user whose handlers have all returned is not listed, wherever processes  *)
(* die: the last handler to leave deletes the key after the last write.     *)
THEOREM LastOneUnlists == Spec => []KeyDeleted
<1>1. Init => Held
  BY PresenceAssumption DEF Init, Held, Holds
<1>2. TypeOK /\ Held => KeyDeleted
  BY PresenceAssumption DEF TypeOK, Held, Holds, Orderly, KeyDeleted, Listed
<1> QED
  BY <1>1, <1>2, PresenceTyped, HeldStep, PTL DEF Spec

-----------------------------------------------------------------------------
(* What a broadcast of module PresenceFeed does until it has to wait. *)

LEMMA LeastOf ==
  ASSUME NEW T \in SUBSET Nat, T # {}
  PROVE  \E m \in T : \A n \in T : m <= n
<1>1. \E m \in T : \A n \in T : ~(<<n, m>> \in OpToRel(<, Nat))
  BY WFMin, NatLessThanWellFounded
<1>2. PICK m \in T : \A n \in T : ~(<<n, m>> \in OpToRel(<, Nat))
  BY <1>1
<1>3. ASSUME NEW n \in T PROVE m <= n
  <2>1. m \in Nat /\ n \in Nat
    OBVIOUS
  <2>2. <<n, m>> \in OpToRel(<, Nat) <=> n < m
    BY <2>1 DEF OpToRel
  <2>3. ~(n < m)
    BY <1>2, <2>2, Zenon
  <2> QED
    BY <2>1, <2>3
<1> QED
  BY <1>3

\* The sockets it gets to, the one among them that it waits for, and those it
\* then removes from the registry.
Reach(S, R) == {c \in Targets(S, R) : \A d \in Busy(Targets(S, R)) : ~Before(R, d, c)}
Halt(S, R) == Busy(Reach(S, R))
Shed(S, R, failed) ==
  {c \in failed \cup Closed(Reach(S, R)) : \A d \in Halt(S, R) : RoomOf[c] # RoomOf[d]}

Bounded == \E n \in Nat : \A r \in Room : place[r] <= n

CastOK ==
  /\ reg \subseteq Client /\ place \in Places /\ \A c \in reg : place[RoomOf[c]] > 0
  /\ Bounded
  /\ calm \in BOOLEAN
  /\ queue \in [Client -> Seq(Cast)] /\ rest \in [Cast -> Places]
  /\ {todo, stale} \subseteq [Cast -> SUBSET Client]
  /\ last \in [Client -> {"nothing", "online", "offline"}]

\* The list of rooms has an end, and a room that is new to it gets there.
LEMMA EndFacts ==
  ASSUME place \in [Room -> Nat], Bounded
  PROVE  End \in Nat \ {0} /\ \A r \in Room : place[r] < End
<1> USE FeedAssumption
<1> DEFINE B == {n \in Nat : \A r \in Room : place[r] <= n}
<1>1. PICK m \in B : \A n \in B : m <= n
  <2>1. B # {} /\ B \in SUBSET Nat
    BY DEF Bounded
  <2> HIDE DEF B
  <2> QED
    BY <2>1, LeastOf
<1>2. \E r \in Room : place[r] = m
  <2>1. SUFFICES ASSUME \A r \in Room : place[r] # m PROVE FALSE
    OBVIOUS
  <2>2. m \in Nat /\ RoomOf[Actor] \in Room
    BY DEF Room
  <2>3. \A r \in Room : place[r] \in Nat /\ place[r] < m
    BY <2>1, <2>2
  <2>4. m - 1 \in B
    BY <2>2, <2>3
  <2> QED
    BY <1>1, <2>2, <2>4
<1>3. PICK r \in Room : place[r] = m
  BY <1>2
<1>4. m + 1 \in {place[s] + 1 : s \in Room} /\ \A s \in Room : place[s] < m + 1
  BY <1>3
<1>5. End \in {place[s] + 1 : s \in Room} /\ \A s \in Room : place[s] < End
  BY <1>4 DEF End
<1> QED
  BY <1>5

LEMMA ListingFacts ==
  ASSUME place \in Places, Bounded, NEW P \in SUBSET Room,
         \A r, s \in P : place[r] = 0 /\ place[s] = 0 => r = s
  PROVE  /\ Listing(P) \in Places
         /\ \A r \in P : Listing(P)[r] > 0
         /\ \A r \in Room : place[r] > 0 \/ r \notin P => Listing(P)[r] = place[r]
         /\ \E n \in Nat : \A r \in Room : Listing(P)[r] <= n
<1>1. place \in [Room -> Nat] /\ \A r, s \in Room : place[r] = place[s] /\ place[r] > 0 => r = s
  BY DEF Places
<1>2. End \in Nat /\ End > 0 /\ \A r \in Room : place[r] < End
  BY <1>1, EndFacts
<1>3. \A r \in Room : Listing(P)[r] = IF r \in P /\ place[r] = 0 THEN End ELSE place[r]
  BY DEF Listing
<1>4. Listing(P) \in [Room -> Nat]
  BY <1>1, <1>2 DEF Listing
<1>5. \A r, s \in Room : Listing(P)[r] = Listing(P)[s] /\ Listing(P)[r] > 0 => r = s
  BY <1>1, <1>2, <1>3
<1>6. \A r \in Room : Listing(P)[r] <= End
  BY <1>1, <1>2, <1>3
<1>7. \A r \in P : Listing(P)[r] > 0
  BY <1>1, <1>2, <1>3
<1>8. \A r \in Room : place[r] > 0 \/ r \notin P => Listing(P)[r] = place[r]
  BY <1>1, <1>3
<1> QED
  BY <1>2, <1>4, <1>5, <1>6, <1>7, <1>8 DEF Places

\* The sockets S and those that failed are of one room, which has no place in R.
InLine(S, R, failed) ==
  /\ \A c, d \in S \cup failed : RoomOf[c] = RoomOf[d]
  /\ \A c \in S \cup failed : R[RoomOf[c]] = 0

\* The sockets of a broadcast follow each other.
LEMMA BeforeOrders ==
  ASSUME NEW S \in SUBSET Client, NEW R \in Places, reg \subseteq Client,
         InLine(S, R, {})
  PROVE  /\ \A c, d, x \in Client : Before(R, c, d) /\ Before(R, d, x) => Before(R, c, x)
         /\ \A c \in Client : ~Before(R, c, c)
         /\ \A c, d \in Targets(S, R) : c = d \/ Before(R, c, d) \/ Before(R, d, c)
<1>1. Client \subseteq Nat /\ \A c \in Client : RoomOf[c] \in Room /\ R[RoomOf[c]] \in Nat
  BY FeedAssumption DEF Room, Places
<1>2. \A c, d, x \in Client : Before(R, c, d) /\ Before(R, d, x) => Before(R, c, x)
  <2> SUFFICES ASSUME NEW c \in Client, NEW d \in Client, NEW x \in Client,
                      Before(R, c, d), Before(R, d, x)
               PROVE  Before(R, c, x)
    OBVIOUS
  <2>1. /\ c \in Nat /\ d \in Nat /\ x \in Nat
        /\ R[RoomOf[c]] \in Nat /\ R[RoomOf[d]] \in Nat /\ R[RoomOf[x]] \in Nat
    BY <1>1
  <2> QED
    BY <2>1 DEF Before
<1>3. \A c \in Client : ~Before(R, c, c)
  BY <1>1 DEF Before
<1>4. ASSUME NEW c \in Targets(S, R), NEW d \in Targets(S, R)
      PROVE  c = d \/ Before(R, c, d) \/ Before(R, d, c)
  <2>1. c \in Client /\ d \in Client
    BY DEF Targets
  <2>2. /\ c \in Nat /\ d \in Nat /\ R[RoomOf[c]] \in Nat /\ R[RoomOf[d]] \in Nat
        /\ RoomOf[c] \in Room /\ RoomOf[d] \in Room
    BY <1>1, <2>1
  <2>3. R[RoomOf[c]] = R[RoomOf[d]] => RoomOf[c] = RoomOf[d]
    <3>1. CASE R[RoomOf[c]] > 0
      BY <2>2, <3>1 DEF Places
    <3>2. CASE R[RoomOf[c]] = 0 /\ R[RoomOf[d]] = 0
      <4>1. c \in S /\ d \in S
        BY <3>2 DEF Targets
      <4> QED
        BY <4>1 DEF InLine
    <3> QED
      BY <2>2, <3>1, <3>2
  <2> QED
    BY <2>2, <2>3 DEF Before
<1> QED
  BY <1>2, <1>3, <1>4

LEMMA FirstOf ==
  ASSUME NEW S \in SUBSET Client, NEW R \in Places, reg \subseteq Client,
         InLine(S, R, {}), NEW U \in SUBSET Targets(S, R), U # {}
  PROVE  \E d \in U : \A x \in U : ~Before(R, x, d)
<1>0. Targets(S, R) \subseteq Client
  BY DEF Targets
<1>1. Client \subseteq Nat /\ \A c \in Client : RoomOf[c] \in Room /\ R[RoomOf[c]] \in Nat
  BY FeedAssumption DEF Room, Places
<1> DEFINE N == {R[RoomOf[c]] : c \in U}
<1>2. PICK n \in N : \A k \in N : n <= k
  <2>1. N # {} /\ N \in SUBSET Nat
    BY <1>0, <1>1
  <2> HIDE DEF N
  <2> QED
    BY <2>1, LeastOf
<1> DEFINE V == {c \in U : R[RoomOf[c]] = n}
<1>3. PICK d \in V : \A x \in V : d <= x
  <2>1. V # {} /\ V \in SUBSET Nat
    BY <1>0, <1>1
  <2> HIDE DEF V
  <2> QED
    BY <2>1, LeastOf
<1>4. ASSUME NEW x \in U, Before(R, x, d) PROVE FALSE
  <2>1. x \in Nat /\ d \in Nat /\ R[RoomOf[x]] \in Nat /\ R[RoomOf[d]] = n /\ n \in Nat
    BY <1>0, <1>1
  <2>2. n <= R[RoomOf[x]]
    BY <1>2
  <2>3. RoomOf[x] = RoomOf[d] /\ x < d
    BY <1>4, <2>1, <2>2 DEF Before
  <2>4. x \in V
    BY <2>1, <2>3
  <2> QED
    BY <1>3, <2>1, <2>3, <2>4
<1> QED
  BY <1>4

LEMMA ReachFacts ==
  ASSUME reg \subseteq Client, NEW S \in SUBSET Client, NEW R \in Places, InLine(S, R, {})
  PROVE  /\ Reach(S, R) \subseteq Targets(S, R) /\ Targets(S, R) \subseteq Client
         /\ Halt(S, R) \subseteq Reach(S, R) /\ Halt(S, R) \cap Closed(Reach(S, R)) = {}
         /\ \A c \in Targets(S, R) \ Reach(S, R) : \E d \in Halt(S, R) : Before(R, d, c)
         /\ \A c, d \in Halt(S, R) : c = d
<1> DEFINE T == Targets(S, R)
<1>1. /\ T \subseteq Client
      /\ Reach(S, R) \subseteq T /\ Halt(S, R) \subseteq Busy(T)
      /\ Halt(S, R) \subseteq Reach(S, R) /\ Halt(S, R) \cap Closed(Reach(S, R)) = {}
  BY DEF Targets, Reach, Halt, Busy, Closed
<1>r. Reach(S, R) = {c \in T : \A d \in Busy(T) : ~Before(R, d, c)}
  BY DEF Reach
<1>o. /\ \A c, d, x \in Client : Before(R, c, d) /\ Before(R, d, x) => Before(R, c, x)
      /\ \A c, d \in T : c = d \/ Before(R, c, d) \/ Before(R, d, c)
  BY BeforeOrders
<1>b. Busy(T) \subseteq T /\ Halt(S, R) = {c \in Reach(S, R) : c \in Busy(T)}
  BY <1>1 DEF Halt, Busy
<1>f. Busy(T) # {} => \E d \in Busy(T) : \A x \in Busy(T) : ~Before(R, x, d)
  <2>1. Busy(T) \in SUBSET Targets(S, R)
    BY <1>b
  <2> QED
    BY <2>1, FirstOf
<1> HIDE DEF T
<1>2. ASSUME NEW c \in T \ Reach(S, R)
      PROVE  \E d \in Halt(S, R) : Before(R, d, c)
  <2>1. PICK n \in Busy(T) : Before(R, n, c)
    BY <1>r
  <2>2. PICK d \in Busy(T) : \A x \in Busy(T) : ~Before(R, x, d)
    BY <1>f, <2>1
  <2>3. d \in Halt(S, R)
    BY <1>b, <1>r, <2>2
  <2>4. d = n \/ Before(R, d, n)
    BY <1>b, <1>o, <2>2
  <2>5. Before(R, d, c)
    BY <1>1, <1>b, <1>o, <2>1, <2>4
  <2> QED
    BY <2>3, <2>5
<1>3. ASSUME NEW c \in Halt(S, R), NEW d \in Halt(S, R)
      PROVE  c = d
  BY <1>1, <1>b, <1>o, <1>r
<1> QED
  BY <1>1, <1>2, <1>3 DEF T

\* A broadcast will still come to c.
Due(e, c) == c \in todo[e] \/ rest[e][RoomOf[c]] > 0

\* What it has still to do then.
Sent(e, S, R, failed) ==
  /\ \A c \in Targets(S, R) \ Reach(S, R) :
       c \in todo'[e] \/ rest'[e][RoomOf[c]] > 0
  /\ todo'[e] \subseteq Targets(S, R) \ Reach(S, R)
  /\ \A c \in todo'[e], d \in Halt(S, R) : d < c /\ RoomOf[c] = RoomOf[d]
  /\ \A r \in Room : rest'[e][r] =
       IF \E d \in Halt(S, R) : R[RoomOf[d]] < R[r] THEN R[r] ELSE 0
  /\ stale'[e] \subseteq failed \cup Closed(Reach(S, R))
  /\ \A c \in stale'[e], d \in Halt(S, R) : RoomOf[c] = RoomOf[d]
  /\ Halt(S, R) = {} => todo'[e] = {} /\ rest'[e] = Nowhere /\ stale'[e] = {}
  /\ failed \cup Closed(Reach(S, R)) \subseteq Shed(S, R, failed) \cup stale'[e]
  /\ rest' \in [Cast -> Places] /\ {todo', stale'} \subseteq [Cast -> SUBSET Client]
  /\ \A f \in Cast \ {e} : todo'[f] = todo[f] /\ rest'[f] = rest[f] /\ stale'[f] = stale[f]

LEMMA SendFacts ==
  ASSUME CastOK, NEW e \in Cast, NEW S \in SUBSET Client, NEW R \in Places,
         NEW failed \in SUBSET Client, NEW q, Send(e, S, R, failed, q), InLine(S, R, failed)
  PROVE  Sent(e, S, R, failed)
<1> DEFINE W == Halt(S, R)
           Here(U) == {c \in U : \E d \in W : RoomOf[c] = RoomOf[d]}
           bad == failed \cup Closed(Reach(S, R))
           left == Targets(S, R) \ Reach(S, R)
           ahead == [r \in Room |-> IF \E d \in W : R[RoomOf[d]] < R[r] THEN R[r] ELSE 0]
<1>0. InLine(S, R, {})
  BY DEF InLine
<1>1. /\ Reach(S, R) \subseteq Targets(S, R) /\ Targets(S, R) \subseteq Client
      /\ W \subseteq Reach(S, R)
      /\ \A c \in left : \E d \in W : Before(R, d, c)
      /\ \A c, d \in W : c = d
  BY <1>0, ReachFacts DEF CastOK
<1>2. /\ todo' = [todo EXCEPT ![e] = Here(left)]
      /\ rest' = [rest EXCEPT ![e] = ahead]
      /\ stale' = [stale EXCEPT ![e] = Here(bad)]
  BY DEF Send, Halt, Reach
<1>3. /\ todo'[e] = Here(left) /\ stale'[e] = Here(bad)
      /\ rest'[e] = ahead
      /\ bad \subseteq Client
  BY <1>1, <1>2 DEF CastOK, Closed
<1>a. ahead \in Places
  <2>1. R \in [Room -> Nat] /\ \A r, s \in Room : R[r] = R[s] /\ R[r] > 0 => r = s
    BY DEF Places
  <2>2. ahead \in [Room -> Nat]
    BY <2>1
  <2>3. \A r \in Room : ahead[r] > 0 => ahead[r] = R[r]
    OBVIOUS
  <2> HIDE DEF ahead
  <2> QED
    BY <2>1, <2>2, <2>3 DEF Places
<1>4. ASSUME NEW c \in left
      PROVE  c \in Here(left) \/ ahead[RoomOf[c]] > 0
  <2>1. PICK d \in W : Before(R, d, c)
    BY <1>1
  <2>2. RoomOf[c] \in Room /\ RoomOf[d] \in Room
    BY <1>1 DEF Room
  <2>3. R[RoomOf[c]] \in Nat /\ R[RoomOf[d]] \in Nat
    BY <2>2 DEF Places
  <2> QED
    BY <2>1, <2>2, <2>3 DEF Before
<1>5. ASSUME NEW c \in Here(left), NEW d \in W
      PROVE  d < c /\ RoomOf[c] = RoomOf[d]
  <2>1. RoomOf[c] = RoomOf[d] /\ Before(R, d, c)
    BY <1>1
  <2>2. RoomOf[d] \in Room
    BY <1>1 DEF Room
  <2>3. R[RoomOf[d]] \in Nat
    BY <2>2 DEF Places
  <2> QED
    BY <2>1, <2>3 DEF Before
<1>6. \A c \in Here(bad), d \in W : RoomOf[c] = RoomOf[d]
  BY <1>1
<1>7. W = {} => Here(left) = {} /\ Here(bad) = {} /\ ahead = Nowhere
  BY DEF Nowhere
<1>8. bad \subseteq Shed(S, R, failed) \cup Here(bad)
  BY DEF Shed
<1>9. rest' \in [Cast -> Places] /\ {todo', stale'} \subseteq [Cast -> SUBSET Client]
  <2>1. Here(left) \subseteq Client /\ Here(bad) \subseteq Client
    BY <1>1, <1>3
  <2> HIDE DEF Here, W, bad, left, ahead
  <2> QED
    BY <1>2, <1>a, <2>1 DEF CastOK
<1>10. \A f \in Cast \ {e} : todo'[f] = todo[f] /\ rest'[f] = rest[f] /\ stale'[f] = stale[f]
  BY <1>2 DEF CastOK
<1>11. \A r \in Room : ahead[r] = IF \E d \in W : R[RoomOf[d]] < R[r] THEN R[r] ELSE 0
  OBVIOUS
<1> HIDE DEF ahead
<1> QED
  BY <1>3, <1>4, <1>5, <1>6, <1>7, <1>8, <1>9, <1>10, <1>11 DEF Sent
-----------------------------------------------------------------------------
(* Where the broadcasts stand. *)

Elems(s) == {s[i] : i \in 1 .. Len(s)}
Single(s) == \A i, j \in 1 .. Len(s) : s[i] = s[j] => i = j

LEMMA AppendElems ==
  ASSUME NEW s \in Seq(Cast), NEW e \in Cast
  PROVE  /\ Append(s, e) \in Seq(Cast) /\ Elems(Append(s, e)) = Elems(s) \cup {e}
         /\ Single(s) /\ e \notin Elems(s) => Single(Append(s, e))
<1>1. /\ Len(Append(s, e)) = Len(s) + 1 /\ Len(s) \in Nat
      /\ \A i \in 1 .. Len(s) : Append(s, e)[i] = s[i]
      /\ Append(s, e)[Len(s) + 1] = e
      /\ Append(s, e) \in Seq(Cast)
  OBVIOUS
<1>2. \A f : f \in Elems(Append(s, e)) <=> f \in Elems(s) \/ f = e
  BY <1>1 DEF Elems
<1>3. Single(s) /\ e \notin Elems(s) => Single(Append(s, e))
  BY <1>1 DEF Elems, Single
<1> QED
  BY <1>1, <1>2, <1>3

LEMMA TailElems ==
  ASSUME NEW s \in Seq(Cast), s # <<>>, Single(s)
  PROVE  /\ Tail(s) \in Seq(Cast) /\ Single(Tail(s)) /\ Head(s) \in Elems(s) /\ Head(s) \in Cast
         /\ \A f : f \in Elems(Tail(s)) <=> f \in Elems(s) /\ f # Head(s)
<1>1. /\ Tail(s) \in Seq(Cast) /\ Head(s) \in Cast /\ Head(s) = s[1]
      /\ Len(s) \in Nat \ {0} /\ Len(Tail(s)) = Len(s) - 1
      /\ \A i \in 1 .. Len(s) - 1 : Tail(s)[i] = s[i + 1]
  OBVIOUS
<1>2. Single(Tail(s)) /\ Head(s) \in Elems(s)
  BY <1>1 DEF Single, Elems
<1>3. ASSUME NEW f, f \in Elems(Tail(s))
      PROVE  f \in Elems(s) /\ f # Head(s)
  BY <1>1, <1>3 DEF Single, Elems
<1>4. ASSUME NEW f, f \in Elems(s), f # Head(s)
      PROVE  f \in Elems(Tail(s))
  <2>1. PICK i \in 1 .. Len(s) : s[i] = f
    BY <1>4 DEF Elems
  <2>2. i - 1 \in 1 .. Len(s) - 1 /\ Tail(s)[i - 1] = f
    BY <1>1, <1>4, <2>1
  <2> QED
    BY <1>1, <2>2 DEF Elems
<1> QED
  BY <1>1, <1>2, <1>3, <1>4

Apart ==
  /\ \A c \in Client : Single(queue[c])
  /\ \A c, d \in Client : \A e \in Cast : e \in Waiting(c) /\ e \in Waiting(d) => c = d

Spots ==
  \A e \in Cast :
    /\ e \notin Suspended => todo[e] = {} /\ rest[e] = Nowhere /\ stale[e] = {}
    /\ \A c \in Client : e \in Waiting(c) =>
         /\ todo[e] \subseteq {d \in Client : c < d /\ RoomOf[d] = RoomOf[c]}
         /\ stale[e] \subseteq {d \in Client : RoomOf[d] = RoomOf[c]}
         /\ rest[e][RoomOf[c]] = 0

StatesOK ==
  /\ stage \in Stage /\ sock \in [Client -> {"off", "open", "slow", "closed"}]
  /\ up \in BOOLEAN /\ wire \subseteq {"onTask", "offTask"}

LEMMA TypeParts == StatesOK /\ CastOK /\ Apart /\ Spots => CastTypeOK
<1> DEFINE Once == \A c, d \in Client : \A i \in 1 .. Len(queue[c]), j \in 1 .. Len(queue[d]) :
                     queue[c][i] = queue[d][j] => c = d /\ i = j
<1>1. ASSUME CastOK, Apart PROVE Once
  <2> SUFFICES ASSUME NEW c \in Client, NEW d \in Client,
                      NEW i \in 1 .. Len(queue[c]), NEW j \in 1 .. Len(queue[d]),
                      queue[c][i] = queue[d][j]
               PROVE  c = d /\ i = j
    OBVIOUS
  <2>1. queue[c][i] \in Cast
    BY <1>1 DEF CastOK
  <2>2. c = d
    BY <1>1, <2>1 DEF Apart, Waiting
  <2> QED
    BY <1>1, <2>2 DEF Apart, Single
<1>2. StatesOK /\ CastOK /\ Once /\ Spots => CastTypeOK
  BY DEF CastTypeOK, StatesOK, CastOK, Spots
<1> QED
  BY <1>1, <1>2

\* q are the queues without broadcast e.
Without(q, e) ==
  /\ q \in [Client -> Seq(Cast)]
  /\ \A c \in Client : Single(q[c]) /\ \A f : f \in Elems(q[c]) <=> f \in Waiting(c) /\ f # e

\* A stretch of broadcast e.
Casting(e, S, R, failed, q) ==
  /\ e \in Cast /\ S \subseteq Client /\ R \in Places /\ failed \subseteq Closed(Client)
  /\ InLine(S, R, failed) /\ Without(q, e) /\ Send(e, S, R, failed, q)

LEMMA SendPlaces ==
  ASSUME CastOK, NEW e, NEW S, NEW R, NEW failed, NEW q, Casting(e, S, R, failed, q)
  PROVE  /\ \A c \in Client, f \in Cast : f \in Waiting(c)' <=>
              (f \in Waiting(c) /\ f # e) \/ (c \in Halt(S, R) /\ f = e)
         /\ Halt(S, R) \subseteq Client
         /\ queue' \in [Client -> Seq(Cast)] /\ \A c \in Client : Single(queue'[c])
         /\ e \in Suspended' <=> Halt(S, R) # {}
         /\ \A f \in Cast \ {e} : f \in Suspended' <=> f \in Suspended
<1> USE DEF Casting
<1>0. Halt(S, R) \subseteq Client
  BY ReachFacts DEF CastOK, InLine
<1>1. queue' = [c \in Client |-> IF c \in Halt(S, R) THEN Append(q[c], e) ELSE q[c]]
  BY DEF Send, Halt, Reach
<1>2. ASSUME NEW c \in Client
      PROVE  /\ queue'[c] \in Seq(Cast) /\ Single(queue'[c])
             /\ \A f : f \in Elems(queue'[c]) <=>
                         (f \in Waiting(c) /\ f # e) \/ (c \in Halt(S, R) /\ f = e)
  <2>1. q[c] \in Seq(Cast) /\ Single(q[c]) /\ e \notin Elems(q[c])
    BY DEF Without
  <2>2. queue'[c] = IF c \in Halt(S, R) THEN Append(q[c], e) ELSE q[c]
    BY <1>1
  <2> QED
    BY <2>1, <2>2, AppendElems DEF Without
<1>3. \A c \in Client : Waiting(c)' = Elems(queue'[c])
  BY DEF Waiting, Elems
<1>4. queue' \in [Client -> Seq(Cast)]
  BY <1>1, <1>2
<1>5. \A c \in Client, f \in Cast : f \in Waiting(c)' <=>
        (f \in Waiting(c) /\ f # e) \/ (c \in Halt(S, R) /\ f = e)
  BY <1>2, <1>3
<1>6. \A f : f \in Suspended' <=> \E c \in Client : f \in Waiting(c)'
  BY DEF Suspended
<1>7. \A f : f \in Suspended <=> \E c \in Client : f \in Waiting(c)
  BY DEF Suspended
<1> QED
  BY <1>0, <1>2, <1>4, <1>5, <1>6, <1>7

\* The rooms it has removed sockets from are listed, one of them anew perhaps.
LEMMA ShedListed ==
  ASSUME CastOK, NEW e, NEW S, NEW R, NEW failed, NEW q, Casting(e, S, R, failed, q)
  PROVE  LET L == Listing({RoomOf[c] : c \in Shed(S, R, failed)}) IN
           /\ L \in Places
           /\ \A r \in Room : place[r] > 0 => L[r] = place[r]
           /\ \E n \in Nat : \A r \in Room : L[r] <= n
<1> DEFINE X == Shed(S, R, failed)
           P == {RoomOf[c] : c \in X}
<1>1. X \subseteq failed \cup Targets(S, R) /\ X \subseteq Client
  <2>1. Reach(S, R) \subseteq Targets(S, R) /\ Targets(S, R) \subseteq Client
    BY ReachFacts DEF CastOK, Casting, InLine
  <2> QED
    BY <2>1 DEF Casting, Shed, Closed
<1>2. \A c \in Client : RoomOf[c] \in Room
  BY DEF Room
<1> HIDE DEF X
<1>3. \A c \in X : place[RoomOf[c]] > 0 \/ c \in S \cup failed
  BY <1>1 DEF CastOK, Targets
<1>4. \A c, d \in X : place[RoomOf[c]] = 0 /\ place[RoomOf[d]] = 0 => RoomOf[c] = RoomOf[d]
  <2>1. \A c \in X : place[RoomOf[c]] = 0 => c \in S \cup failed
    BY <1>3
  <2> QED
    BY <2>1 DEF Casting, InLine
<1>5. P \in SUBSET Room /\ \A r, s \in P : place[r] = 0 /\ place[s] = 0 => r = s
  BY <1>1, <1>2, <1>4
<1>6. place \in Places /\ Bounded
  BY DEF CastOK
<1> HIDE DEF P
<1>7. /\ Listing(P) \in Places
      /\ \A r \in Room : place[r] > 0 => Listing(P)[r] = place[r]
      /\ \E n \in Nat : \A r \in Room : Listing(P)[r] <= n
  BY <1>5, <1>6, ListingFacts
<1> QED
  BY <1>7 DEF P, X

LEMMA SendType ==
  ASSUME CastOK, Apart, Spots, NEW e, NEW S, NEW R, NEW failed, NEW q, Casting(e, S, R, failed, q)
  PROVE  CastOK' /\ Apart' /\ Spots'
<1> DEFINE W == Halt(S, R)
<1>1. /\ \A c \in Client, f \in Cast : f \in Waiting(c)' <=>
           (f \in Waiting(c) /\ f # e) \/ (c \in W /\ f = e)
      /\ W \subseteq Client
      /\ queue' \in [Client -> Seq(Cast)] /\ \A c \in Client : Single(queue'[c])
      /\ e \in Suspended' <=> W # {}
      /\ \A f \in Cast \ {e} : f \in Suspended' <=> f \in Suspended
  BY SendPlaces
<1>2. /\ todo'[e] \subseteq Client /\ stale'[e] \subseteq Client
      /\ \A c \in todo'[e], d \in W : d < c /\ RoomOf[c] = RoomOf[d]
      /\ \A r \in Room : rest'[e][r] = IF \E d \in W : R[RoomOf[d]] < R[r] THEN R[r] ELSE 0
      /\ \A c \in stale'[e], d \in W : RoomOf[c] = RoomOf[d]
      /\ W = {} => todo'[e] = {} /\ rest'[e] = Nowhere /\ stale'[e] = {}
      /\ rest' \in [Cast -> Places] /\ {todo', stale'} \subseteq [Cast -> SUBSET Client]
      /\ \A f \in Cast \ {e} : todo'[f] = todo[f] /\ rest'[f] = rest[f] /\ stale'[f] = stale[f]
  <2>1. Sent(e, S, R, failed)
    BY SendFacts DEF Casting, Closed
  <2>2. todo'[e] \subseteq Client /\ stale'[e] \subseteq Client
    BY <2>1 DEF Casting, Sent
  <2> QED
    BY <2>1, <2>2 DEF Sent
<1>3. \A c, d \in W : c = d
  BY ReachFacts DEF CastOK, Casting, InLine
<1> HIDE DEF W
<1>4. CastOK'
  <2>1. /\ reg' = reg \ Shed(S, R, failed)
        /\ place' = Listing({RoomOf[c] : c \in Shed(S, R, failed)})
        /\ calm' \in BOOLEAN
        /\ last' \in [Client -> {"nothing", "online", "offline"}]
    <3>1. reg' = reg \ Shed(S, R, failed)
      BY DEF Casting, Send, Shed, Halt, Reach
    <3>2. place' = Listing({RoomOf[c] : c \in Shed(S, R, failed)})
      BY DEF Casting, Send, Shed, Halt, Reach
    <3>3. calm' \in BOOLEAN
      BY DEF Casting, Send
    <3>4. \A f : StatusOf(f) \in {"online", "offline"}
      BY DEF StatusOf
    <3>5. last' \in [Client -> {"nothing", "online", "offline"}]
      BY <3>4 DEF Casting, Send, CastOK
    <3> QED
      BY <3>1, <3>2, <3>3, <3>5
  <2>2. /\ place' \in Places /\ Bounded'
        /\ \A r \in Room : place[r] > 0 => place'[r] = place[r]
    BY <2>1, ShedListed DEF Bounded
  <2>3. reg' \subseteq Client /\ \A c \in reg' : place'[RoomOf[c]] > 0
    BY <2>1, <2>2 DEF CastOK, Room
  <2> QED
    BY <1>1, <1>2, <2>1, <2>2, <2>3 DEF CastOK
<1>5. Apart'
  BY <1>1, <1>3 DEF Apart
<1>6. ASSUME NEW f \in Cast
      PROVE  /\ f \notin Suspended' => todo'[f] = {} /\ rest'[f] = Nowhere /\ stale'[f] = {}
             /\ \A c \in Client : f \in Waiting(c)' =>
                  /\ todo'[f] \subseteq {d \in Client : c < d /\ RoomOf[d] = RoomOf[c]}
                  /\ stale'[f] \subseteq {d \in Client : RoomOf[d] = RoomOf[c]}
                  /\ rest'[f][RoomOf[c]] = 0
  <2>1. CASE f = e
    <3>1. \A c \in Client : e \in Waiting(c)' <=> c \in W
      BY <1>1, <2>1
    <3>2. \A c \in W : RoomOf[c] \in Room /\ R[RoomOf[c]] \in Nat
      BY <1>1 DEF Casting, Places, Room
    <3>3. \A c \in W : rest'[e][RoomOf[c]] = 0
      BY <1>2, <1>3, <3>2
    <3> QED
      BY <1>1, <1>2, <2>1, <3>1, <3>3
  <2>2. CASE f # e
    BY <1>1, <1>2, <2>2 DEF Spots
  <2> QED
    BY <2>1, <2>2
<1>7. Spots'
  BY <1>6 DEF Spots
<1> QED
  BY <1>4, <1>5, <1>7
-----------------------------------------------------------------------------
(* The invariant of LastWord. *)

Early == {"online", "greet", "greeting", "loop", "offline"}

Fresh ==
  /\ \A c \in Client : sock[c] = "off" =>
       c \notin reg /\ last[c] = "nothing" /\ queue[c] = <<>> /\ \A e \in Cast : c \notin todo[e]
  /\ stage = "off" <=> sock[Actor] = "off"
  /\ \A e \in Cast : stale[e] \subseteq Closed(Client)

\* What is suspended when, and what is on the wire.
Phases ==
  /\ "onOwn" \in Suspended => stage = "greeting"
  /\ "offOwn" \in Suspended => stage = "parting"
  /\ \A c \in Client, e \in {"onOwn", "offOwn"} :
       e \in Waiting(c) => RoomOf[c] = RoomOf[Actor] /\ rest[e] = Nowhere
  /\ wire \cap Suspended = {}
  /\ stage \in {"off", "online"} => "onTask" \notin wire \cup Suspended
  /\ "offTask" \in wire \cup Suspended => stage \in {"part", "parting", "ended", "failed"}
  /\ "onTask" \in wire => "offTask" \notin Suspended

\* A broadcast has to do with connections that are registered, or closed.
Snap ==
  calm => /\ \A e \in Cast : \A c \in todo[e] : c \in reg \/ sock[c] = "closed"
          /\ \A c \in Client : queue[c] # <<>> => c \in reg

\* The rooms it is on its way to have kept their places, behind that of the
\* socket it waits for.
Kept ==
  calm => \A e \in Cast, r \in Room : rest[e][r] > 0 =>
            /\ place[r] > 0 => rest[e][r] = place[r]
            /\ \A c \in Client : e \in Waiting(c) => place[RoomOf[c]] < rest[e][r]

Good == calm /\ stage # "failed"

\* As long as the task of the online event has not ended, that of the offline
\* event has not either.
Behind ==
  Good /\ "onTask" \in wire \cup Suspended =>
    (stage \in Early /\ up) \/ "offTask" \in wire \cup Suspended

AheadIn(s) == \E i, j \in 1 .. Len(s) : i < j /\ s[i] = "onTask" /\ s[j] = "offTask"

\* It stands behind it in the same queue, or will come to where that one waits,
\* and to all connections where that one will.
Order ==
  Good /\ "onTask" \in Suspended /\ "offTask" \in Suspended =>
    /\ \A c \in Client : "onTask" \in Waiting(c) => AheadIn(queue[c]) \/ Due("offTask", c)
    /\ \A c \in todo["onTask"] \cap reg : Due("offTask", c)
    /\ \A r \in Room : rest["onTask"][r] > 0 /\ place[r] > 0 => rest["offTask"][r] > 0

\* Who has been told that the actor is online will be told that it is not, or
\* removed, by one of the two broadcasts.
Told ==
  Good => \A c \in reg : last[c] = "online" =>
    \/ stage \in Early /\ up
    \/ "offTask" \in wire
    \/ Due("offTask", c)
    \/ RoomOf[c] = RoomOf[Actor] /\ (stage \in Early \cup {"part"} \/ c \in todo["offOwn"])
    \/ c \in stale["offTask"] \cup stale["offOwn"]

CastInv ==
  /\ StatesOK /\ CastOK /\ Apart /\ Spots /\ Fresh /\ Phases
  /\ Snap /\ Kept /\ Behind /\ Order /\ Told

-----------------------------------------------------------------------------
(* A stretch of a broadcast, resumed or started. *)

Course(e, S, R, failed, q) ==
  /\ Casting(e, S, R, failed, q) /\ UNCHANGED <<sock, up>>
  /\ \A c \in Client : AheadIn(queue[c]) => e # "offTask" /\ (e = "onTask" \/ AheadIn(q[c]))
  /\ \/ /\ e \in Suspended /\ S = todo[e] /\ R = rest[e] /\ stale[e] \subseteq failed
        /\ UNCHANGED <<stage, wire>>
     \/ /\ e \notin Suspended /\ S = {} /\ failed = {}
        /\ \/ /\ e \in wire /\ wire' = wire \ {e} /\ UNCHANGED stage
              /\ R = place /\ (e = "offTask" => "onTask" \notin wire)
           \/ /\ \/ e = "onOwn" /\ stage = "greet" /\ stage' = "greeting"
                 \/ e = "offOwn" /\ stage = "part" /\ stage' = "parting"
              /\ R = OwnRoom /\ UNCHANGED wire

LEMMA TailAhead ==
  ASSUME NEW s \in Seq(Cast), s # <<>>, Single(s), AheadIn(s)
  PROVE  Head(s) # "offTask" /\ (Head(s) = "onTask" \/ AheadIn(Tail(s)))
<1>1. /\ Head(s) = s[1] /\ Len(s) \in Nat \ {0} /\ Len(Tail(s)) = Len(s) - 1
      /\ \A i \in 1 .. Len(s) - 1 : Tail(s)[i] = s[i + 1]
  OBVIOUS
<1>2. PICK i \in 1 .. Len(s), j \in 1 .. Len(s) : i < j /\ s[i] = "onTask" /\ s[j] = "offTask"
  BY DEF AheadIn
<1>3. Head(s) # "offTask"
  BY <1>1, <1>2 DEF Single
<1>4. ASSUME Head(s) # "onTask" PROVE AheadIn(Tail(s))
  <2>1. i - 1 \in 1 .. Len(s) - 1 /\ j - 1 \in 1 .. Len(s) - 1 /\ i - 1 < j - 1
    BY <1>1, <1>2, <1>4
  <2>2. Tail(s)[i - 1] = "onTask" /\ Tail(s)[j - 1] = "offTask"
    BY <1>1, <1>2, <2>1
  <2> QED
    BY <1>1, <2>1, <2>2 DEF AheadIn
<1> QED
  BY <1>3, <1>4

LEMMA AppendAhead ==
  ASSUME NEW s \in Seq(Cast), NEW e \in Cast
  PROVE  /\ AheadIn(s) => AheadIn(Append(s, e))
         /\ "onTask" \in Elems(s) => AheadIn(Append(s, "offTask"))
<1>1. \A f \in Cast :
        /\ Len(Append(s, f)) = Len(s) + 1 /\ Len(s) \in Nat
        /\ \A i \in 1 .. Len(s) : Append(s, f)[i] = s[i]
        /\ Append(s, f)[Len(s) + 1] = f
  OBVIOUS
<1>2. AheadIn(s) => AheadIn(Append(s, e))
  BY <1>1 DEF AheadIn
<1>3. "onTask" \in Elems(s) => AheadIn(Append(s, "offTask"))
  <2>1. "offTask" \in Cast
    BY DEF Cast
  <2> QED
    BY <1>1, <2>1 DEF AheadIn, Elems
<1> QED
  BY <1>2, <1>3

LEMMA ResumeCourse ==
  ASSUME CastInv, NEW c \in Client, Resume(c)
  PROVE  LET e == Head(queue[c]) IN
           Course(e, todo[e], rest[e], stale[e] \cup Closed({c}), [queue EXCEPT ![c] = Tail(@)])
<1> DEFINE e == Head(queue[c])
           q == [queue EXCEPT ![c] = Tail(@)]
           failed == stale[e] \cup Closed({c})
<1> USE DEF CastInv
<1>1. /\ queue[c] \in Seq(Cast) /\ queue[c] # <<>> /\ Single(queue[c])
      /\ Waiting(c) = Elems(queue[c])
  BY DEF Resume, CastOK, Apart, Waiting, Elems
<1>2. /\ Tail(queue[c]) \in Seq(Cast) /\ Single(Tail(queue[c]))
      /\ e \in Waiting(c) /\ e \in Cast
      /\ \A f : f \in Elems(Tail(queue[c])) <=> f \in Waiting(c) /\ f # e
  BY <1>1, TailElems
<1>3. Send(e, todo[e], rest[e], failed, q) /\ UNCHANGED <<stage, sock, up, wire>>
  BY DEF Resume
<1> HIDE DEF e
<1>4. Without(q, e)
  <2>1. \A d \in Client : q[d] = IF d = c THEN Tail(queue[c]) ELSE queue[d]
    BY DEF CastOK
  <2>2. q \in [Client -> Seq(Cast)]
    BY <1>2 DEF CastOK
  <2>3. \A d \in Client \ {c} : e \notin Waiting(d)
    BY <1>2 DEF Apart
  <2>4. \A d \in Client \ {c} : Waiting(d) = Elems(queue[d]) /\ Single(queue[d])
    BY DEF Waiting, Elems, Apart
  <2> HIDE DEF q
  <2> QED
    BY <1>2, <2>1, <2>2, <2>3, <2>4 DEF Without
<1>5. /\ todo[e] \subseteq Client /\ rest[e] \in Places /\ failed \subseteq Closed(Client)
  <2>1. todo[e] \subseteq Client /\ rest[e] \in Places
    BY <1>2 DEF CastOK
  <2>2. stale[e] \subseteq Closed(Client)
    BY <1>2 DEF Fresh
  <2> QED
    BY <2>1, <2>2 DEF Closed
<1>6. InLine(todo[e], rest[e], failed)
  <2>1. /\ todo[e] \subseteq {d \in Client : c < d /\ RoomOf[d] = RoomOf[c]}
        /\ stale[e] \subseteq {d \in Client : RoomOf[d] = RoomOf[c]}
        /\ rest[e][RoomOf[c]] = 0
    BY <1>2 DEF Spots
  <2>2. \A d \in todo[e] \cup failed : RoomOf[d] = RoomOf[c]
    BY <2>1 DEF Closed
  <2> QED
    BY <2>1, <2>2 DEF InLine
<1>7. Casting(e, todo[e], rest[e], failed, q)
  BY <1>2, <1>3, <1>4, <1>5, <1>6 DEF Casting
<1>8. \A d \in Client : AheadIn(queue[d]) => e # "offTask" /\ (e = "onTask" \/ AheadIn(q[d]))
  <2>1. AheadIn(queue[c]) => e # "offTask" /\ (e = "onTask" \/ AheadIn(q[c]))
    BY <1>1, TailAhead DEF e, CastOK
  <2>2. ASSUME NEW d \in Client \ {c}, AheadIn(queue[d])
        PROVE  e # "offTask" /\ (e = "onTask" \/ AheadIn(q[d]))
    <3>1. q[d] = queue[d]
      BY DEF CastOK
    <3>2. "offTask" \in Waiting(d)
      BY <2>2 DEF AheadIn, Waiting
    <3> QED
      BY <1>2, <2>2, <3>1, <3>2 DEF Apart
  <2> QED
    BY <2>1, <2>2
<1>9. e \in Suspended
  BY <1>2 DEF Suspended
<1>10. Course(e, todo[e], rest[e], failed, q)
  BY <1>3, <1>7, <1>8, <1>9 DEF Course
<1> QED
  BY <1>10 DEF e

LEMMA StartCourse ==
  ASSUME CastInv, NEW e \in Cast, e \notin Suspended, NEW R \in Places,
         Send(e, {}, R, {}, queue), UNCHANGED <<sock, up>>,
         \/ /\ e \in wire /\ wire' = wire \ {e} /\ UNCHANGED stage
            /\ R = place /\ (e = "offTask" => "onTask" \notin wire)
         \/ /\ \/ e = "onOwn" /\ stage = "greet" /\ stage' = "greeting"
               \/ e = "offOwn" /\ stage = "part" /\ stage' = "parting"
            /\ R = OwnRoom /\ UNCHANGED wire
  PROVE  Course(e, {}, R, {}, queue)
<1>1. \A c \in Client : e \notin Waiting(c) /\ Waiting(c) = Elems(queue[c])
  BY DEF Suspended, Waiting, Elems
<1>2. Without(queue, e)
  BY <1>1 DEF CastInv, Apart, CastOK, Without
<1>3. Casting(e, {}, R, {}, queue)
  BY <1>2 DEF Casting, InLine
<1>4. \A c \in Client : AheadIn(queue[c]) => e # "offTask"
  BY <1>1 DEF AheadIn, Waiting
<1> QED
  BY <1>3, <1>4 DEF Course
-----------------------------------------------------------------------------
(* Such a stretch keeps the invariant. *)

\* What is known of it, in one place.
LEMMA CourseFacts ==
  ASSUME CastInv, NEW e, NEW S, NEW R, NEW failed, NEW q, Course(e, S, R, failed, q)
  PROVE  /\ CastOK' /\ Apart' /\ Spots' /\ e \in Cast /\ S \subseteq todo[e]
         /\ failed \subseteq Closed(Client)
         /\ Reach(S, R) \subseteq Targets(S, R) /\ Targets(S, R) \subseteq Client
         /\ Halt(S, R) \subseteq Reach(S, R) /\ Halt(S, R) \cap Closed(Reach(S, R)) = {}
         /\ \A c \in Targets(S, R) \ Reach(S, R) :
              Due(e, c)' /\ \E d \in Halt(S, R) : Before(R, d, c)
         /\ todo'[e] \subseteq Targets(S, R)
         /\ \A r \in Room : rest'[e][r] =
              IF \E d \in Halt(S, R) : R[RoomOf[d]] < R[r] THEN R[r] ELSE 0
         /\ stale'[e] \subseteq failed \cup Closed(Reach(S, R))
         /\ failed \cup Closed(Reach(S, R)) \subseteq Shed(S, R, failed) \cup stale'[e]
         /\ Shed(S, R, failed) \subseteq Closed(Client)
         /\ \A f \in Cast \ {e} : todo'[f] = todo[f] /\ rest'[f] = rest[f] /\ stale'[f] = stale[f]
         /\ \A c \in Client, f \in Cast : f \in Waiting(c)' <=>
              (f \in Waiting(c) /\ f # e) \/ (c \in Halt(S, R) /\ f = e)
         /\ e \in Suspended' <=> Halt(S, R) # {}
         /\ \A f \in Cast \ {e} : f \in Suspended' <=> f \in Suspended
<1> USE DEF CastInv, Course
<1>1. CastOK' /\ Apart' /\ Spots'
  BY SendType
<1>2. /\ \A c \in Client, f \in Cast : f \in Waiting(c)' <=>
           (f \in Waiting(c) /\ f # e) \/ (c \in Halt(S, R) /\ f = e)
      /\ e \in Suspended' <=> Halt(S, R) # {}
      /\ \A f \in Cast \ {e} : f \in Suspended' <=> f \in Suspended
  BY SendPlaces
<1>3. /\ e \in Cast /\ S \in SUBSET Client /\ R \in Places /\ failed \in SUBSET Client
      /\ Send(e, S, R, failed, q) /\ InLine(S, R, failed) /\ failed \subseteq Closed(Client)
  BY DEF Casting, Closed
<1>4. /\ Reach(S, R) \subseteq Targets(S, R) /\ Targets(S, R) \subseteq Client
      /\ Halt(S, R) \subseteq Reach(S, R) /\ Halt(S, R) \cap Closed(Reach(S, R)) = {}
      /\ \A c \in Targets(S, R) \ Reach(S, R) : \E d \in Halt(S, R) : Before(R, d, c)
  BY <1>3, ReachFacts DEF CastOK, InLine
<1>5. Sent(e, S, R, failed)
  BY <1>3, SendFacts
<1>6. todo'[e] \subseteq Targets(S, R) /\ stale'[e] \subseteq failed \cup Closed(Reach(S, R))
  BY <1>5 DEF Sent
<1>7. Shed(S, R, failed) \subseteq Closed(Client)
  BY <1>3, <1>4 DEF Shed, Closed
<1>8. S \subseteq todo[e]
  OBVIOUS
<1>9. \A c \in Targets(S, R) \ Reach(S, R) : Due(e, c)'
  BY <1>5 DEF Sent, Due
<1>10. \A r \in Room : rest'[e][r] =
         IF \E d \in Halt(S, R) : R[RoomOf[d]] < R[r] THEN R[r] ELSE 0
  BY <1>5 DEF Sent
<1>11. \A f \in Cast \ {e} : todo'[f] = todo[f] /\ rest'[f] = rest[f] /\ stale'[f] = stale[f]
  BY <1>5 DEF Sent
<1>12. failed \cup Closed(Reach(S, R)) \subseteq Shed(S, R, failed) \cup stale'[e]
  BY <1>5 DEF Sent
<1> HIDE DEF CastInv, Course
<1> QED
  BY <1>1, <1>2, <1>3, <1>4, <1>6, <1>7, <1>8, <1>9, <1>10, <1>11, <1>12

LEMMA CourseEffects ==
  ASSUME NEW e, NEW S, NEW R, NEW failed, NEW q, Course(e, S, R, failed, q), CastInv
  PROVE  /\ \A c \in Client :
              last'[c] = IF c \in Reach(S, R) \ Closed(Reach(S, R)) THEN StatusOf(e) ELSE last[c]
         /\ reg' = reg \ Shed(S, R, failed)
         /\ place' = Listing({RoomOf[c] : c \in Shed(S, R, failed)})
         /\ \A r \in Room : place[r] > 0 => place'[r] = place[r]
         /\ calm' => /\ calm /\ NewTo({RoomOf[c] : c \in Shed(S, R, failed)})
                     /\ NoneAt(e, Shed(S, R, failed) \cup Closed(Reach(S, R)))
<1> USE DEF Course, Casting
<1>1. \A c \in Client :
        last'[c] = IF c \in Reach(S, R) \ Closed(Reach(S, R)) THEN StatusOf(e) ELSE last[c]
  BY DEF Send, Reach
<1>2. reg' = reg \ Shed(S, R, failed)
  BY DEF Send, Halt, Reach, Shed
<1>3. place' = Listing({RoomOf[c] : c \in Shed(S, R, failed)})
  BY DEF Send, Halt, Reach, Shed
<1>4. \A r \in Room : place[r] > 0 => place'[r] = place[r]
  BY <1>3 DEF Listing
<1>5. calm' => /\ calm /\ NewTo({RoomOf[c] : c \in Shed(S, R, failed)})
               /\ NoneAt(e, Shed(S, R, failed) \cup Closed(Reach(S, R)))
  BY DEF Send, Halt, Reach, Shed
<1> QED
  BY <1>1, <1>2, <1>3, <1>4, <1>5

LEMMA CourseFresh ==
  ASSUME CastInv, NEW e, NEW S, NEW R, NEW failed, NEW q, Course(e, S, R, failed, q)
  PROVE  StatesOK' /\ Fresh'
<1> DEFINE T == Targets(S, R)
<1>1. /\ CastOK' /\ e \in Cast /\ S \subseteq todo[e] /\ failed \subseteq Closed(Client)
      /\ Reach(S, R) \subseteq T /\ T \subseteq Client /\ Halt(S, R) \subseteq Reach(S, R)
      /\ todo'[e] \subseteq T /\ stale'[e] \subseteq failed \cup Closed(Reach(S, R))
      /\ \A f \in Cast \ {e} : todo'[f] = todo[f] /\ stale'[f] = stale[f]
      /\ \A c \in Client, f \in Cast : f \in Waiting(c)' <=>
           (f \in Waiting(c) /\ f # e) \/ (c \in Halt(S, R) /\ f = e)
  BY CourseFacts
<1>2. /\ \A c \in Client :
           last'[c] = IF c \in Reach(S, R) \ Closed(Reach(S, R)) THEN StatusOf(e) ELSE last[c]
      /\ reg' \subseteq reg
  BY CourseEffects
<1>3. /\ sock' = sock /\ up' = up /\ wire' \subseteq wire
      /\ stage' \in Stage /\ (stage' = "off" <=> stage = "off")
  BY DEF Course, CastInv, StatesOK, Stage
<1>4. StatesOK'
  BY <1>3 DEF CastInv, StatesOK
<1>5. \A c \in T : sock[c] # "off"
  BY <1>1 DEF Targets, CastInv, Fresh
<1>6. ASSUME NEW c \in Client, sock[c] = "off"
      PROVE  /\ c \notin reg' /\ last'[c] = "nothing" /\ queue'[c] = <<>>
             /\ \A f \in Cast : c \notin todo'[f]
  <2>1. c \notin T /\ c \notin reg /\ last[c] = "nothing" /\ queue[c] = <<>>
        /\ \A f \in Cast : c \notin todo[f]
    BY <1>5, <1>6 DEF CastInv, Fresh
  <2>2. queue'[c] = <<>>
    <3>1. \A f \in Cast : f \notin Waiting(c)'
      BY <1>1, <2>1 DEF Waiting
    <3>2. queue'[c] \in Seq(Cast)
      BY <1>1 DEF CastOK
    <3> QED
      BY <3>1, <3>2 DEF Waiting
  <2> QED
    BY <1>1, <1>2, <2>1, <2>2
<1>7. \A f \in Cast : stale'[f] \subseteq Closed(Client)
  BY <1>1 DEF CastInv, Fresh, Closed
<1>8. Closed(Client)' = Closed(Client)
  BY <1>3 DEF Closed
<1> QED
  BY <1>3, <1>4, <1>6, <1>7, <1>8 DEF Fresh, CastInv

LEMMA CoursePhases ==
  ASSUME CastInv, NEW e, NEW S, NEW R, NEW failed, NEW q, Course(e, S, R, failed, q)
  PROVE  Phases'
<1>1. /\ e \in Cast /\ S \subseteq todo[e] /\ Halt(S, R) \subseteq Targets(S, R)
      /\ \A r \in Room : rest'[e][r] =
           IF \E d \in Halt(S, R) : R[RoomOf[d]] < R[r] THEN R[r] ELSE 0
      /\ \A f \in Cast \ {e} : rest'[f] = rest[f]
      /\ \A c \in Client, f \in Cast : f \in Waiting(c)' <=>
           (f \in Waiting(c) /\ f # e) \/ (c \in Halt(S, R) /\ f = e)
      /\ \A f \in Cast \ {e} : f \in Suspended' <=> f \in Suspended
  BY CourseFacts
<1>2. {"onOwn", "offOwn", "onTask", "offTask"} \subseteq Cast
  BY DEF Cast
<1>3. /\ e \in Suspended => UNCHANGED <<stage, wire>>
      /\ wire' \subseteq wire /\ wire \subseteq {"onTask", "offTask"}
      /\ e \notin wire' /\ (e = "offTask" => "onTask" \notin wire')
  BY DEF Course, CastInv, Phases, StatesOK
<1>4. /\ "onOwn" \in Suspended' => stage' = "greeting"
      /\ "offOwn" \in Suspended' => stage' = "parting"
      /\ stage' \in {"off", "online"} => "onTask" \notin wire' \cup Suspended'
      /\ "offTask" \in wire' \cup Suspended' => stage' \in {"part", "parting", "ended", "failed"}
  <2>0. /\ \A f \in Cast : f \in Suspended' => f \in Suspended \/ f = e
        /\ "onOwn" \in Suspended => stage = "greeting"
        /\ "offOwn" \in Suspended => stage = "parting"
        /\ stage \in {"off", "online"} => "onTask" \notin wire \cup Suspended
        /\ "offTask" \in wire \cup Suspended => stage \in {"part", "parting", "ended", "failed"}
    BY <1>1 DEF CastInv, Phases
  <2>1. CASE UNCHANGED stage /\ (e \in Suspended \/ e \in wire)
    <3>1. \A f \in Cast : f \in wire' \cup Suspended' => f \in wire \cup Suspended
      BY <1>3, <2>0, <2>1
    <3>2. e \in {"onOwn", "offOwn"} => e \in Suspended
      BY <1>3, <2>1
    <3> QED
      BY <1>2, <2>0, <2>1, <3>1, <3>2
  <2>2. CASE e = "onOwn" /\ stage = "greet" /\ stage' = "greeting"
    BY <1>2, <1>3, <2>0, <2>2
  <2>3. CASE e = "offOwn" /\ stage = "part" /\ stage' = "parting"
    BY <1>2, <1>3, <2>0, <2>3
  <2> QED
    BY <2>1, <2>2, <2>3 DEF Course
<1>5. wire' \cap Suspended' = {} /\ ("onTask" \in wire' => "offTask" \notin Suspended')
  BY <1>1, <1>2, <1>3 DEF CastInv, Phases
<1>6. ASSUME NEW c \in Client, NEW f \in {"onOwn", "offOwn"}, f \in Waiting(c)'
      PROVE  RoomOf[c] = RoomOf[Actor] /\ rest'[f] = Nowhere
  <2>1. CASE f # e
    BY <1>1, <1>2, <1>6, <2>1 DEF CastInv, Phases
  <2>2. CASE f = e
    <3>1. c \in Halt(S, R)
      BY <1>1, <1>2, <1>6, <2>2
    <3>2. R = Nowhere \/ R = OwnRoom
      BY <1>6, <2>2 DEF Course, CastInv, StatesOK, Phases, Suspended
    <3>3. \A d \in S : RoomOf[d] = RoomOf[Actor]
      <4>1. CASE e \in Suspended
        <5>1. PICK d \in Client : e \in Waiting(d)
          BY <4>1 DEF Suspended
        <5>2. RoomOf[d] = RoomOf[Actor] /\ \A x \in todo[e] : RoomOf[x] = RoomOf[d]
          BY <1>1, <1>6, <2>2, <5>1 DEF CastInv, Phases, Spots
        <5> QED
          BY <1>1, <5>2
      <4>2. CASE e \notin Suspended
        BY <4>2 DEF Course
      <4> QED
        BY <4>1, <4>2
    <3>4. \A d \in Halt(S, R) : RoomOf[d] = RoomOf[Actor]
      <4>1. Halt(S, R) \subseteq Client
        BY <1>1, CourseFacts
      <4>2. \A d \in Client : RoomOf[d] \in Room
        BY DEF Room
      <4>3. \A d \in Halt(S, R) : d \in S \/ R[RoomOf[d]] > 0
        BY <1>1 DEF Targets
      <4> QED
        BY <3>2, <3>3, <4>1, <4>2, <4>3 DEF Nowhere, OwnRoom
    <3>5. RoomOf[Actor] \in Room
      BY FeedAssumption DEF Room
    <3>6. rest'[e] = Nowhere
      <4>1. \A r \in Room : rest'[e][r] = 0
        BY <1>1, <3>2, <3>4, <3>5 DEF Nowhere, OwnRoom
      <4>2. rest'[e] \in [Room -> Nat]
        BY <1>1, CourseFacts DEF CastOK, Places
      <4> QED
        BY <4>1, <4>2 DEF Nowhere
    <3> QED
      BY <2>2, <3>1, <3>4, <3>6
  <2> QED
    BY <2>1, <2>2
<1> QED
  BY <1>4, <1>5, <1>6 DEF Phases

LEMMA CourseSnap ==
  ASSUME CastInv, NEW e, NEW S, NEW R, NEW failed, NEW q, Course(e, S, R, failed, q)
  PROVE  Snap'
<1> DEFINE T == Targets(S, R)
           X == Shed(S, R, failed)
<1>1. /\ CastOK' /\ e \in Cast /\ S \subseteq todo[e]
      /\ Reach(S, R) \subseteq T /\ T \subseteq Client /\ Halt(S, R) \subseteq Reach(S, R)
      /\ Halt(S, R) \cap Closed(Reach(S, R)) = {}
      /\ todo'[e] \subseteq T
      /\ X \subseteq Closed(Client)
      /\ \A f \in Cast \ {e} : todo'[f] = todo[f]
      /\ \A c \in Client, f \in Cast : f \in Waiting(c)' <=>
           (f \in Waiting(c) /\ f # e) \/ (c \in Halt(S, R) /\ f = e)
  BY CourseFacts
<1>2. /\ reg' = reg \ X
      /\ calm' => calm /\ NoneAt(e, X \cup Closed(Reach(S, R)))
  BY CourseEffects
<1>3. sock' = sock
  BY DEF Course
<1> SUFFICES ASSUME calm'
             PROVE  /\ \A f \in Cast : \A c \in todo'[f] : c \in reg' \/ sock[c] = "closed"
                    /\ \A c \in Client : queue'[c] # <<>> => c \in reg'
  BY <1>3 DEF Snap
<1>4. /\ \A f \in Cast : \A c \in todo[f] : c \in reg \/ sock[c] = "closed"
      /\ \A c \in Client : queue[c] # <<>> => c \in reg
      /\ \A c \in X : Waiting(c) \subseteq {e}
  BY <1>2 DEF CastInv, Snap, NoneAt
<1>5. \A c \in T : c \in reg \/ sock[c] = "closed"
  BY <1>1, <1>4 DEF Targets
<1> HIDE DEF X, T
<1>6. \A c \in X : sock[c] = "closed"
  BY <1>1 DEF Closed
<1>7. \A f \in Cast : \A c \in todo'[f] : c \in reg' \/ sock[c] = "closed"
  BY <1>1, <1>2, <1>4, <1>5, <1>6
<1>8. ASSUME NEW c \in Client, queue'[c] # <<>>
      PROVE  c \in reg'
  <2>1. queue'[c] \in Seq(Cast)
    BY <1>1 DEF CastOK
  <2>2. PICK f \in Cast : f \in Waiting(c)'
    <3>1. queue'[c][1] \in Cast /\ 1 \in 1 .. Len(queue'[c])
      BY <1>8, <2>1
    <3> QED
      BY <3>1 DEF Waiting
  <2>3. CASE f \in Waiting(c) /\ f # e
    <3>1. queue[c] # <<>>
      BY <2>3 DEF Waiting
    <3> QED
      BY <1>2, <1>4, <2>3, <3>1
  <2>4. CASE c \in Halt(S, R)
    <3>1. sock[c] # "closed" /\ c \in T
      BY <1>1, <2>4 DEF Closed
    <3> QED
      BY <1>2, <1>5, <1>6, <3>1
  <2> QED
    BY <1>1, <2>2, <2>3, <2>4
<1> QED
  BY <1>7, <1>8
LEMMA CourseKept ==
  ASSUME CastInv, NEW e, NEW S, NEW R, NEW failed, NEW q, Course(e, S, R, failed, q)
  PROVE  Kept'
<1> DEFINE T == Targets(S, R)
           W == Halt(S, R)
<1>1. /\ CastOK' /\ Spots' /\ e \in Cast /\ T \subseteq Client
      /\ W \subseteq T /\ \A c \in W : sock[c] # "closed"
      /\ \A r \in Room : rest'[e][r] = IF \E d \in W : R[RoomOf[d]] < R[r] THEN R[r] ELSE 0
      /\ \A f \in Cast \ {e} : rest'[f] = rest[f]
      /\ \A c \in Client, f \in Cast : f \in Waiting(c)' <=>
           (f \in Waiting(c) /\ f # e) \/ (c \in W /\ f = e)
  BY CourseFacts DEF Closed
<1>w. \A c, d \in W : c = d
  <2>1. reg \subseteq Client /\ S \in SUBSET Client /\ R \in Places /\ InLine(S, R, {})
    BY DEF CastInv, CastOK, Course, Casting, InLine
  <2> QED
    BY <2>1, ReachFacts
<1> SUFFICES ASSUME calm', NEW f \in Cast, NEW r \in Room, rest'[f][r] > 0
             PROVE  /\ place'[r] > 0 => rest'[f][r] = place'[r]
                    /\ \A c \in Client : f \in Waiting(c)' => place'[RoomOf[c]] < rest'[f][r]
  BY DEF Kept
<1> DEFINE P == {RoomOf[c] : c \in Shed(S, R, failed)}
<1>2. /\ place' = Listing(P) /\ NewTo(P) /\ calm
      /\ \A s \in Room : place[s] > 0 => place'[s] = place[s]
  BY CourseEffects
<1>3. /\ \A g \in Cast, s \in Room : rest[g][s] > 0 =>
           /\ place[s] > 0 => rest[g][s] = place[s]
           /\ \A c \in Client : g \in Waiting(c) => place[RoomOf[c]] < rest[g][s]
      /\ \A g \in Cast : \A c \in todo[g] : c \in reg \/ sock[c] = "closed"
      /\ \A c \in Client : queue[c] # <<>> => c \in reg
  BY <1>2 DEF CastInv, Kept, Snap
<1>4. /\ place \in [Room -> Nat] /\ \A c \in reg : place[RoomOf[c]] > 0
      /\ \A c \in Client : RoomOf[c] \in Room
      /\ \A g \in Cast : rest[g] \in [Room -> Nat]
      /\ R \in [Room -> Nat]
  BY DEF CastInv, CastOK, Places, Room, Course, Casting
\* A room that is listed now was listed before, or is on nobody's way.
<1>5. \A g \in Cast : rest[g][r] > 0 /\ place'[r] > 0 => place[r] > 0
  <2>1. place[r] > 0 \/ place[r] = 0
    BY <1>4
  <2>2. place[r] = 0 /\ place'[r] > 0 => r \in P
    BY <1>2 DEF Listing
  <2> HIDE DEF P
  <2> QED
    BY <1>2, <1>4, <2>1, <2>2 DEF NewTo
<1> HIDE DEF P, T, W
<1>6. CASE f # e
  <2>1. rest'[f] = rest[f]
    BY <1>1, <1>6
  <2>2. ASSUME NEW c \in Client, f \in Waiting(c)'
        PROVE  place'[RoomOf[c]] < rest'[f][r]
    <3>1. f \in Waiting(c)
      BY <1>1, <1>6, <2>2
    <3>2. c \in reg
      BY <1>3, <3>1 DEF Waiting
    <3> QED
      BY <1>2, <1>3, <1>4, <2>1, <3>1, <3>2
  <2> QED
    BY <1>2, <1>3, <1>5, <2>1, <2>2
<1>7. CASE f = e
  <2>1. R[r] > 0 /\ rest'[e][r] = R[r] /\ \E d \in W : R[RoomOf[d]] < R[r]
    BY <1>1, <1>7
  <2>2. CASE e \in Suspended
    <3>1. S = todo[e] /\ R = rest[e]
      BY <2>2 DEF Course
    <3>2. ASSUME NEW c \in Client, e \in Waiting(c)'
          PROVE  place'[RoomOf[c]] < R[r]
      <4>1. c \in W /\ R[RoomOf[c]] < R[r]
        BY <1>1, <1>w, <2>1, <3>2
      <4>2. c \in reg
        BY <1>1, <1>3, <3>1, <4>1 DEF T, Targets
      <4>3. place'[RoomOf[c]] = place[RoomOf[c]]
        BY <1>2, <1>4, <4>2
      <4>4. CASE R[RoomOf[c]] > 0
        BY <1>1, <1>3, <1>4, <3>1, <4>1, <4>2, <4>3, <4>4
      <4>5. CASE ~(R[RoomOf[c]] > 0)
        <5>1. c \in todo[e]
          BY <1>1, <3>1, <4>1, <4>5 DEF T, Targets
        <5>2. PICK x \in Client : e \in Waiting(x)
          BY <2>2 DEF Suspended
        <5>3. RoomOf[c] = RoomOf[x]
          BY <1>1, <5>1, <5>2 DEF CastInv, Spots
        <5> QED
          BY <1>1, <1>3, <2>1, <3>1, <4>3, <5>2, <5>3
      <4> QED
        BY <4>4, <4>5
    <3> QED
      BY <1>1, <1>2, <1>3, <1>5, <1>7, <2>1, <3>1, <3>2
  <2>3. CASE e \notin Suspended /\ R = place
    <3>1. S = {}
      BY <2>3 DEF Course
    <3>2. ASSUME NEW c \in Client, e \in Waiting(c)'
          PROVE  place'[RoomOf[c]] < R[r]
      <4>1. c \in W /\ R[RoomOf[c]] < R[r]
        BY <1>1, <1>w, <2>1, <3>2
      <4>2. c \in reg
        BY <1>1, <3>1, <4>1 DEF T, Targets
      <4> QED
        BY <1>2, <1>4, <2>3, <4>1, <4>2
    <3> QED
      BY <1>2, <1>7, <2>1, <2>3, <3>2
  <2>4. CASE e \notin Suspended /\ R = OwnRoom
    <3>1. e \in {"onOwn", "offOwn"} \/ R = place
      BY <2>4 DEF Course
    <3>2. ASSUME e \in {"onOwn", "offOwn"} PROVE FALSE
      <4>1. Phases'
        BY CoursePhases
      <4>2. rest'[e] = Nowhere
        BY <1>1, <3>2, <4>1 DEF Phases, Spots, Suspended
      <4> QED
        BY <2>1, <4>2 DEF Nowhere
    <3> QED
      BY <2>3, <2>4, <3>1, <3>2
  <2> QED
    BY <2>2, <2>3, <2>4 DEF Course
<1> QED
  BY <1>6, <1>7
\* Who is to be told by a broadcast of the actor's departure is told or will be.
LEMMA Covered ==
  ASSUME CastInv, NEW e, NEW S, NEW R, NEW failed, NEW q, Course(e, S, R, failed, q)
  PROVE  /\ e \in Suspended => \A c \in reg : Due(e, c) => c \in Targets(S, R)
         /\ e \in Suspended => todo[e] \subseteq Targets(S, R) /\ rest[e] = R
         /\ e = "offTask" /\ e \notin Suspended =>
              /\ reg \subseteq Targets(S, R) /\ R = place
              /\ "offTask" \in wire /\ "onTask" \notin wire
         /\ e = "offOwn" /\ e \notin Suspended =>
              \A c \in reg : RoomOf[c] = RoomOf[Actor] => c \in Targets(S, R)
<1>1. e \in Suspended => S = todo[e] /\ R = rest[e]
  BY DEF Course
<1>2. \A c \in reg : place[RoomOf[c]] > 0
  BY DEF CastInv, CastOK
<1>3. e = "offTask" /\ e \notin Suspended =>
        S = {} /\ R = place /\ "offTask" \in wire /\ "onTask" \notin wire
  BY DEF Course
<1>4. e = "offOwn" /\ e \notin Suspended => S = {} /\ R = OwnRoom
  BY DEF Course, CastInv, StatesOK
<1>5. RoomOf[Actor] \in Room
  BY FeedAssumption DEF Room
<1> QED
  BY <1>1, <1>2, <1>3, <1>4, <1>5 DEF Targets, Due, OwnRoom

\* The task of the offline event stops where that of the online event waits, or
\* before.
LEMMA StopsBehind ==
  ASSUME CastInv, NEW S, NEW R, NEW failed, NEW q, Course("offTask", S, R, failed, q),
         calm', stage # "failed", NEW s \in Client, "onTask" \in Waiting(s)
  PROVE  \E d \in Halt(S, R) : d = s \/ Before(R, d, s)
<1> DEFINE T == Targets(S, R)
<1>1. /\ calm /\ NoneAt("offTask", Closed(Reach(S, R)))
      /\ Reach(S, R) \subseteq T /\ T \subseteq Client /\ Halt(S, R) \subseteq Reach(S, R)
      /\ \A c \in T \ Reach(S, R) : \E d \in Halt(S, R) : Before(R, d, c)
  <2>1. calm /\ NoneAt("offTask", Shed(S, R, failed) \cup Closed(Reach(S, R)))
    BY CourseEffects
  <2> QED
    BY <2>1, CourseFacts DEF NoneAt
<1>2. queue[s] # <<>> /\ s \in reg /\ sock[s] \in {"open", "slow", "closed"}
  <2>1. queue[s] # <<>>
    BY DEF Waiting
  <2> QED
    BY <1>1, <2>1 DEF CastInv, Snap, StatesOK, Fresh
<1>3. s \in T
  <2>1. CASE "offTask" \in Suspended
    <3>1. "onTask" \in Suspended
      BY DEF Suspended
    <3>2. ~AheadIn(queue[s])
      BY DEF Course
    <3>3. Due("offTask", s)
      BY <1>1, <2>1, <3>1, <3>2 DEF CastInv, Order, Good
    <3> QED
      BY <1>2, <2>1, <3>3, Covered
  <2>2. CASE "offTask" \notin Suspended
    BY <1>2, <2>2, Covered
  <2> QED
    BY <2>1, <2>2
<1> HIDE DEF T
<1>4. CASE s \in Reach(S, R)
  <2>1. sock[s] # "closed"
    BY <1>1, <1>4 DEF NoneAt, Closed
  <2>2. s \in Halt(S, R)
    BY <1>2, <1>4, <2>1 DEF Halt, Busy
  <2> QED
    BY <2>2
<1>5. CASE s \notin Reach(S, R)
  BY <1>1, <1>3, <1>5
<1> QED
  BY <1>4, <1>5

LEMMA CourseBehind ==
  ASSUME CastInv, NEW e, NEW S, NEW R, NEW failed, NEW q, Course(e, S, R, failed, q)
  PROVE  Behind'
<1>1. /\ e \in Cast /\ (e \in Suspended' <=> Halt(S, R) # {})
      /\ \A f \in Cast \ {e} : f \in Suspended' <=> f \in Suspended
      /\ calm' => calm
  BY CourseFacts, CourseEffects
<1>2. /\ up' = up /\ (stage \in Early => stage' \in Early) /\ wire' \subseteq wire
      /\ wire \subseteq wire' \cup {e} /\ (stage' # "failed" => stage # "failed")
      /\ e \in wire \/ e \in Suspended \/ e \in {"onOwn", "offOwn"}
      /\ {"onTask", "offTask"} \subseteq Cast
  BY DEF Course, Early, CastInv, StatesOK, Cast
<1> SUFFICES ASSUME calm', stage' # "failed", "onTask" \in wire' \cup Suspended'
             PROVE  (stage' \in Early /\ up') \/ "offTask" \in wire' \cup Suspended'
  BY DEF Behind, Good
<1>3. "onTask" \in wire \cup Suspended
  BY <1>1, <1>2
<1>4. (stage \in Early /\ up) \/ "offTask" \in wire \cup Suspended
  BY <1>1, <1>2, <1>3 DEF CastInv, Behind, Good
<1>5. CASE e = "offTask"
  <2>1. "onTask" \in Suspended
    <3>1. "onTask" \notin wire'
      BY <1>2, <1>5, Covered DEF CastInv, Phases
    <3> QED
      BY <1>1, <1>2, <1>5, <3>1
  <2>2. PICK s \in Client : "onTask" \in Waiting(s)
    BY <2>1 DEF Suspended
  <2>3. Halt(S, R) # {}
    BY <1>2, <1>5, <2>2, StopsBehind
  <2> QED
    BY <1>1, <1>5, <2>3
<1>6. CASE e # "offTask"
  BY <1>1, <1>2, <1>4, <1>6
<1> QED
  BY <1>5, <1>6

LEMMA CourseOrder ==
  ASSUME CastInv, NEW e, NEW S, NEW R, NEW failed, NEW q, Course(e, S, R, failed, q)
  PROVE  Order'
<1> DEFINE T == Targets(S, R)
           W == Halt(S, R)
<1>1. /\ CastOK' /\ e \in Cast /\ S \subseteq todo[e]
      /\ Reach(S, R) \subseteq T /\ T \subseteq Client /\ W \subseteq Reach(S, R)
      /\ W \cap Closed(Reach(S, R)) = {}
      /\ \A c \in T \ Reach(S, R) : Due(e, c)'
      /\ todo'[e] \subseteq T
      /\ \A r \in Room : rest'[e][r] = IF \E d \in W : R[RoomOf[d]] < R[r] THEN R[r] ELSE 0
      /\ \A f \in Cast \ {e} : todo'[f] = todo[f] /\ rest'[f] = rest[f]
  BY CourseFacts
<1>2. /\ \A c \in Client, f \in Cast : f \in Waiting(c)' <=>
           (f \in Waiting(c) /\ f # e) \/ (c \in W /\ f = e)
      /\ e \in Suspended' <=> W # {}
      /\ \A f \in Cast \ {e} : f \in Suspended' <=> f \in Suspended
  <2>1. \A c \in Client, f \in Cast : f \in Waiting(c)' <=>
          (f \in Waiting(c) /\ f # e) \/ (c \in W /\ f = e)
    BY CourseFacts
  <2>2. e \in Suspended' <=> W # {}
    BY CourseFacts
  <2>3. \A f \in Cast \ {e} : f \in Suspended' <=> f \in Suspended
    BY CourseFacts
  <2> QED
    BY <2>1, <2>2, <2>3
<1>3. /\ \A c \in Client : queue'[c] = IF c \in W THEN Append(q[c], e) ELSE q[c]
      /\ reg' \subseteq reg
      /\ calm' => calm /\ \A r \in Room : rest["onTask"][r] > 0 /\ place'[r] > 0 => place[r] > 0
  <2>1. /\ "onTask" \in Cast
        /\ rest["onTask"] \in [Room -> Nat] /\ place \in [Room -> Nat]
    BY DEF Cast, CastInv, CastOK, Places
  <2>2. reg' = reg \ Shed(S, R, failed)
    BY CourseEffects
  <2>5. \A c \in Client : queue'[c] = IF c \in W THEN Append(q[c], e) ELSE q[c]
    BY DEF Course, Casting, Send, Halt, Reach
  <2> DEFINE P == {RoomOf[c] : c \in Shed(S, R, failed)}
  <2>3. place' = Listing(P) /\ (calm' => calm /\ NewTo(P))
    BY CourseEffects
  <2> HIDE DEF P
  <2>4. ASSUME calm', NEW r \in Room, rest["onTask"][r] > 0, place'[r] > 0
        PROVE  place[r] > 0
    <3>1. place[r] = 0 => r \in P
      BY <2>3, <2>4 DEF Listing
    <3>2. r \in P /\ place[r] = 0 => rest["onTask"][r] = 0
      BY <2>1, <2>3, <2>4 DEF NewTo
    <3> QED
      BY <2>1, <2>4, <3>1, <3>2
  <2> QED
    BY <2>2, <2>3, <2>4, <2>5
<1>4. /\ {"onTask", "offTask"} \subseteq Cast
      /\ stage' # "failed" => stage # "failed"
      /\ \A c \in Client : q[c] \in Seq(Cast) /\ \A f : f \in Elems(q[c]) <=> f \in Waiting(c) /\ f # e
      /\ \A c \in Client : AheadIn(queue[c]) => e # "offTask" /\ (e = "onTask" \/ AheadIn(q[c]))
  BY DEF Course, Casting, Without, Cast
<1> SUFFICES ASSUME calm', stage' # "failed", "onTask" \in Suspended', "offTask" \in Suspended'
             PROVE  /\ \A c \in Client : "onTask" \in Waiting(c)' => AheadIn(queue'[c]) \/ Due("offTask", c)'
                    /\ \A c \in todo'["onTask"] \cap reg' : Due("offTask", c)'
                    /\ \A r \in Room :
                         rest'["onTask"][r] > 0 /\ place'[r] > 0 => rest'["offTask"][r] > 0
  BY DEF Order, Good, Due
<1>5. /\ calm /\ stage # "failed"
      /\ \A r \in Room : rest["onTask"][r] > 0 /\ place'[r] > 0 => place[r] > 0
  BY <1>3, <1>4
<1>s. "onTask" \in Suspended /\ "offTask" \in Suspended =>
        /\ \A c \in Client : "onTask" \in Waiting(c) => AheadIn(queue[c]) \/ Due("offTask", c)
        /\ \A c \in todo["onTask"] \cap reg : Due("offTask", c)
        /\ \A r \in Room : rest["onTask"][r] > 0 /\ place[r] > 0 => rest["offTask"][r] > 0
  BY <1>5 DEF CastInv, Order, Good
<1>n. /\ \A c \in Client : RoomOf[c] \in Room
      /\ place \in [Room -> Nat] /\ R \in [Room -> Nat]
      /\ rest["onTask"] \in [Room -> Nat] /\ rest["offTask"] \in [Room -> Nat]
      /\ \A c \in reg : c \in Client /\ place[RoomOf[c]] > 0
  BY <1>4 DEF CastInv, CastOK, Places, Room, Course, Casting
<1>6. CASE e \notin {"onTask", "offTask"}
  <2>1. "onTask" \in Suspended /\ "offTask" \in Suspended
    BY <1>2, <1>4, <1>6
  <2>2. /\ todo'["onTask"] = todo["onTask"] /\ rest'["onTask"] = rest["onTask"]
        /\ \A c : Due("offTask", c)' <=> Due("offTask", c)
    BY <1>1, <1>4, <1>6 DEF Due
  <2>3. ASSUME NEW c \in Client, AheadIn(queue[c]) PROVE AheadIn(queue'[c])
    BY <1>1, <1>3, <1>4, <1>6, <2>3, AppendAhead
  <2>4. \A c \in Client : "onTask" \in Waiting(c)' => "onTask" \in Waiting(c)
    BY <1>2, <1>4, <1>6
  <2>5. rest'["offTask"] = rest["offTask"]
    BY <1>1, <1>4, <1>6
  <2> QED
    BY <1>3, <1>5, <1>s, <2>1, <2>2, <2>3, <2>4, <2>5
<1>7. CASE e = "onTask"
  <2>1. "offTask" \in Suspended /\ rest'["offTask"] = rest["offTask"]
        /\ \A c : Due("offTask", c)' <=> Due("offTask", c)
    BY <1>1, <1>2, <1>4, <1>7 DEF Due
  <2>2. "onTask" \in Suspended /\ S = todo["onTask"] /\ R = rest["onTask"]
    BY <1>7, <2>1 DEF Course, CastInv, Phases
  <2>3. ASSUME NEW c \in T, c \in reg PROVE Due("offTask", c)
    <3>1. CASE c \in todo["onTask"]
      BY <1>s, <2>1, <2>2, <2>3, <3>1
    <3>2. CASE rest["onTask"][RoomOf[c]] > 0
      BY <1>n, <1>s, <2>1, <2>2, <2>3, <3>2 DEF Due
    <3> QED
      BY <2>2, <2>3, <3>1, <3>2 DEF Targets
  <2>4. \A c \in W : c \in reg
    <3>1. \A c \in W : sock[c] # "closed" /\ c \in T
      BY <1>1 DEF Closed
    <3>2. \A c \in todo["onTask"] : c \in reg \/ sock[c] = "closed"
      BY <1>4, <1>5 DEF CastInv, Snap
    <3> QED
      BY <2>2, <3>1, <3>2 DEF Targets
  <2>5. \A c \in Client : "onTask" \in Waiting(c)' => Due("offTask", c)'
    BY <1>1, <1>2, <1>4, <1>7, <2>1, <2>3, <2>4
  <2>6. \A c \in todo'["onTask"] \cap reg' : Due("offTask", c)'
    BY <1>1, <1>3, <1>7, <2>1, <2>3
  <2>7. ASSUME NEW r \in Room, rest'["onTask"][r] > 0, place'[r] > 0
        PROVE  rest'["offTask"][r] > 0
    <3>1. rest["onTask"][r] > 0
      BY <1>1, <1>7, <2>2, <2>7
    <3> QED
      BY <1>5, <1>s, <2>1, <2>2, <2>7, <3>1
  <2> QED
    BY <2>5, <2>6, <2>7
<1>8. CASE e = "offTask"
  <2>1. "onTask" \in Suspended /\ todo'["onTask"] = todo["onTask"]
        /\ rest'["onTask"] = rest["onTask"]
    BY <1>1, <1>2, <1>4, <1>8
  <2>2. PICK s \in Client : "onTask" \in Waiting(s)
    BY <2>1 DEF Suspended
  <2>3. PICK d \in W : d = s \/ Before(R, d, s)
    BY <1>5, <1>8, <2>2, StopsBehind
  <2>4. /\ todo["onTask"] \subseteq {c \in Client : s < c /\ RoomOf[c] = RoomOf[s]}
        /\ \A c \in Client : "onTask" \in Waiting(c) => c = s
    BY <1>4, <2>2 DEF CastInv, Spots, Apart
  <2>5. \A c \in Reach(S, R) : ~Before(R, d, c)
    BY <1>1, <2>3 DEF Reach, Halt, Busy
  <2>6. /\ d \in Client
        /\ \A c, x, y \in Client : Before(R, c, x) /\ Before(R, x, y) => Before(R, c, y)
    <3>1. reg \subseteq Client /\ S \in SUBSET Client /\ R \in Places /\ InLine(S, R, {})
      BY DEF CastInv, CastOK, Course, Casting, InLine
    <3> QED
      BY <1>1, <3>1, BeforeOrders
  <2>r. s \in reg
    <3>1. queue[s] # <<>>
      BY <2>2 DEF Waiting
    <3> QED
      BY <1>5, <3>1 DEF CastInv, Snap
  <2>7. ASSUME NEW c \in todo["onTask"], c \in reg PROVE Due("offTask", c)'
    <3>1. c \in T
      <4>1. "offTask" \in Suspended => Due("offTask", c)
        BY <1>s, <2>1, <2>7
      <4> QED
        BY <1>8, <2>7, <4>1, Covered
    <3>2. Before(R, d, c)
      <4>1. Before(R, s, c)
        BY <2>4 DEF Before
      <4> QED
        BY <2>3, <2>4, <2>6, <4>1
    <3> QED
      BY <1>1, <1>8, <2>5, <3>1, <3>2
  <2>8. ASSUME NEW r \in Room, rest["onTask"][r] > 0, place'[r] > 0
        PROVE  rest'["offTask"][r] > 0
    <3>1. place[r] > 0
      BY <1>5, <2>8
    \* Both have the places that are in force.
    <3>2. /\ rest["onTask"][r] = place[r] /\ place[RoomOf[s]] < place[r]
          /\ R[r] = place[r] /\ R[RoomOf[s]] \in {0, place[RoomOf[s]]}
      <4>1. \A f \in Cast, p \in Room : rest[f][p] > 0 =>
              /\ place[p] > 0 => rest[f][p] = place[p]
              /\ \A c \in Client : f \in Waiting(c) => place[RoomOf[c]] < rest[f][p]
        BY <1>5 DEF CastInv, Kept
      <4>2. rest["onTask"][r] = place[r] /\ place[RoomOf[s]] < place[r]
        BY <1>4, <2>2, <2>8, <3>1, <4>1
      <4>3. CASE "offTask" \in Suspended
        <5>1. R = rest["offTask"] /\ rest["offTask"][r] > 0
          BY <1>8, <1>s, <2>1, <2>8, <3>1, <4>3, Covered
        <5>2. rest["offTask"][r] = place[r]
          BY <1>4, <3>1, <4>1, <5>1
        <5>3. rest["offTask"][RoomOf[s]] \in {0, place[RoomOf[s]]}
          BY <1>4, <1>n, <2>r, <4>1
        <5> QED
          BY <4>2, <5>1, <5>2, <5>3
      <4>4. CASE "offTask" \notin Suspended
        BY <1>8, <4>2, <4>4, Covered
      <4> QED
        BY <4>3, <4>4
    <3>3. R[RoomOf[d]] < R[r]
      <4>1. R[RoomOf[s]] < R[r]
        BY <1>n, <3>1, <3>2
      <4>2. R[RoomOf[d]] <= R[RoomOf[s]]
        BY <1>n, <2>3, <2>6 DEF Before
      <4> QED
        BY <1>n, <2>6, <4>1, <4>2
    <3>4. rest'["offTask"][r] = R[r]
      BY <1>1, <1>8, <3>3
    <3> QED
      BY <3>1, <3>2, <3>4
  <2>9. AheadIn(queue'[s]) \/ Due("offTask", s)'
    <3>1. CASE s \in W
      <4>1. queue'[s] = Append(q[s], "offTask") /\ q[s] \in Seq(Cast) /\ "onTask" \in Elems(q[s])
        BY <1>3, <1>4, <1>8, <2>2, <3>1
      <4> QED
        BY <1>1, <4>1, AppendAhead
    <3>2. CASE s \notin W
      <4>1. s # d /\ Before(R, d, s)
        BY <2>3, <3>2
      <4>2. s \notin Reach(S, R)
        BY <2>5, <4>1
      <4>3. s \in T
        <5>1. CASE "offTask" \in Suspended
          <6>1. Due("offTask", s)
            BY <1>4, <1>8, <1>s, <2>1, <2>2, <5>1
          <6> QED
            BY <1>8, <2>r, <5>1, <6>1, Covered
        <5>2. CASE "offTask" \notin Suspended
          BY <1>8, <2>r, <5>2, Covered
        <5> QED
          BY <5>1, <5>2
      <4> QED
        BY <1>1, <1>8, <4>2, <4>3
    <3> QED
      BY <3>1, <3>2
  <2>10. \A c \in Client : "onTask" \in Waiting(c)' => c = s
    BY <1>2, <1>4, <1>8, <2>4
  <2> QED
    BY <1>3, <2>1, <2>7, <2>8, <2>9, <2>10
<1> QED
  BY <1>6, <1>7, <1>8
LEMMA CourseTold ==
  ASSUME CastInv, NEW e, NEW S, NEW R, NEW failed, NEW q, Course(e, S, R, failed, q)
  PROVE  Told'
<1> DEFINE T == Targets(S, R)
           X == Shed(S, R, failed)
<1>1. /\ e \in Cast /\ Reach(S, R) \subseteq T /\ T \subseteq Client
      /\ \A c \in T \ Reach(S, R) : Due(e, c)'
      /\ failed \cup Closed(Reach(S, R)) \subseteq X \cup stale'[e]
      /\ \A f \in Cast \ {e} : todo'[f] = todo[f] /\ rest'[f] = rest[f] /\ stale'[f] = stale[f]
  BY CourseFacts
<1>2. /\ \A c \in Client :
           last'[c] = IF c \in Reach(S, R) \ Closed(Reach(S, R)) THEN StatusOf(e) ELSE last[c]
      /\ reg' = reg \ X
      /\ calm' => calm
  BY CourseEffects
<1>3. /\ Cast = {"onTask", "onOwn", "offTask", "offOwn"} /\ up' = up
      /\ stage \in Early => stage' \in Early
      /\ stage' # "failed" => stage # "failed"
      /\ wire' \subseteq wire /\ wire \subseteq wire' \cup {e}
      /\ stale[e] \subseteq failed
      /\ stage = "part" => stage' = "part" \/ e = "offOwn"
      /\ e = "onOwn" => stage' = "greeting"
      /\ e \in {"onTask", "offTask"} => UNCHANGED stage
  BY DEF Course, Early, CastInv, StatesOK, Cast, Spots, Phases
<1>4. \A c : Due("offTask", c)' <=> c \in todo'["offTask"] \/ rest'["offTask"][RoomOf[c]] > 0
  BY DEF Due
<1> SUFFICES ASSUME calm', stage' # "failed", NEW c \in reg', last'[c] = "online"
             PROVE  \/ stage' \in Early /\ up'
                    \/ "offTask" \in wire'
                    \/ Due("offTask", c)'
                    \/ RoomOf[c] = RoomOf[Actor] /\ (stage' \in Early \cup {"part"} \/ c \in todo'["offOwn"])
                    \/ c \in stale'["offTask"] \cup stale'["offOwn"]
  BY DEF Told, Good
<1>5. c \in reg /\ c \in Client /\ c \notin X /\ calm /\ stage # "failed"
  BY <1>2, <1>3 DEF CastInv, CastOK
<1>r. \A d \in T : RoomOf[d] \in Room
  BY <1>1 DEF Room
<1>p. e \in {"onOwn", "offOwn"} =>
        /\ \A d \in T : RoomOf[d] = RoomOf[Actor]
        /\ rest'[e] = Nowhere
  <2>1. SUFFICES ASSUME e \in {"onOwn", "offOwn"}
                 PROVE  (\A d \in T : RoomOf[d] = RoomOf[Actor]) /\ rest'[e] = Nowhere
    OBVIOUS
  <2>2. Phases'  /\ Spots'
    BY CoursePhases, CourseFacts
  <2>3. rest'[e] = Nowhere
    <3>1. e \in Suspended' => \E d \in Client : e \in Waiting(d)'
      BY DEF Suspended
    <3> QED
      BY <1>1, <2>1, <2>2, <3>1 DEF Phases, Spots
  <2>4. CASE e \in Suspended
    <3>1. PICK d \in Client : e \in Waiting(d)
      BY <2>4 DEF Suspended
    <3>2. /\ RoomOf[d] = RoomOf[Actor] /\ rest[e] = Nowhere
          /\ \A x \in todo[e] : RoomOf[x] = RoomOf[d]
      BY <1>1, <2>1, <3>1 DEF CastInv, Phases, Spots
    <3>3. S = todo[e] /\ R = rest[e]
      BY <2>4 DEF Course
    <3> QED
      BY <1>r, <2>3, <3>2, <3>3 DEF Targets, Nowhere
  <2>5. CASE e \notin Suspended
    <3>1. S = {} /\ R = OwnRoom
      BY <2>1, <2>5 DEF Course, CastInv, StatesOK
    <3> QED
      BY <1>r, <2>3, <3>1 DEF Targets, OwnRoom
  <2> QED
    BY <2>4, <2>5
\* c is told now.
<1>6. CASE c \in Reach(S, R) \ Closed(Reach(S, R))
  <2>1. e = "onTask" \/ e = "onOwn"
    BY <1>1, <1>2, <1>3, <1>5, <1>6 DEF StatusOf
  <2>2. CASE e = "onOwn"
    BY <1>1, <1>3, <1>6, <1>p, <2>2 DEF Early
  <2>3. CASE e = "onTask"
    <3>1. "onTask" \in wire \cup Suspended
      BY <2>3 DEF Course
    <3>2. (stage \in Early /\ up) \/ "offTask" \in wire \cup Suspended
      BY <1>5, <3>1 DEF CastInv, Behind, Good
    <3>3. CASE "offTask" \in Suspended
      <4>1. "onTask" \in Suspended
        BY <3>1, <3>3 DEF CastInv, Phases
      <4>2. S = todo["onTask"] /\ R = rest["onTask"]
        BY <2>3, <4>1 DEF Course
      <4>3. /\ c \in todo["onTask"] \/ rest["onTask"][RoomOf[c]] > 0
            /\ place[RoomOf[c]] > 0 /\ RoomOf[c] \in Room
        BY <1>1, <1>5, <1>6, <4>2 DEF Targets, CastInv, CastOK, Room
      <4>4. Due("offTask", c)
        BY <1>5, <3>3, <4>1, <4>3 DEF CastInv, Order, Good, Due
      <4> QED
        BY <1>1, <1>3, <1>4, <2>3, <4>4 DEF Due
    <3> QED
      BY <1>3, <2>3, <3>2, <3>3
  <2> QED
    BY <2>1, <2>2, <2>3
\* c has been told before.
<1>7. CASE c \notin Reach(S, R) \ Closed(Reach(S, R))
  <2>1. last[c] = "online"
    BY <1>2, <1>5, <1>7
  \* What the broadcast is to do for c, it still has to do, or c has failed.
  <2>2. c \in T => Due(e, c)' \/ c \in stale'[e]
    BY <1>1, <1>5, <1>7
  <2>3. c \in stale[e] => c \in stale'[e]
    BY <1>1, <1>3, <1>5
  <2>4. \/ stage \in Early /\ up
        \/ "offTask" \in wire
        \/ Due("offTask", c)
        \/ RoomOf[c] = RoomOf[Actor] /\ (stage \in Early \cup {"part"} \/ c \in todo["offOwn"])
        \/ c \in stale["offTask"] \cup stale["offOwn"]
    BY <1>5, <2>1 DEF CastInv, Told, Good
  <2>5. CASE stage \in Early /\ up
    BY <1>3, <2>5
  <2>6. CASE "offTask" \in wire \/ Due("offTask", c)
    <3>1. CASE e = "offTask"
      <4>1. c \in T
        BY <1>5, <2>6, <3>1, Covered DEF CastInv, Phases
      <4> QED
        BY <2>2, <3>1, <4>1
    <3>2. CASE e # "offTask"
      BY <1>1, <1>3, <1>4, <2>6, <3>2 DEF Due
    <3> QED
      BY <3>1, <3>2
  <2>7. CASE RoomOf[c] = RoomOf[Actor] /\ (stage \in Early \cup {"part"} \/ c \in todo["offOwn"])
    <3>1. CASE e = "offOwn"
      <4>1. CASE c \in todo["offOwn"] \/ stage = "part"
        <5>1. c \in T
          <6>1. stage = "part" => e \notin Suspended
            BY <3>1 DEF CastInv, Phases
          <6>2. e \notin Suspended => todo[e] = {}
            BY <1>1 DEF CastInv, Spots
          <6> QED
            BY <1>5, <2>7, <3>1, <4>1, <6>1, <6>2, Covered
        <5>2. Due("offOwn", c)' => c \in todo'["offOwn"]
          BY <1>p, <1>r, <3>1, <5>1 DEF Due, Nowhere
        <5> QED
          BY <2>2, <2>7, <3>1, <5>1, <5>2
      <4>2. CASE stage \in Early
        BY <1>3, <2>7, <4>2
      <4> QED
        BY <2>7, <4>1, <4>2
    <3>2. CASE e # "offOwn"
      BY <1>1, <1>3, <2>7, <3>2
    <3> QED
      BY <3>1, <3>2
  <2>8. CASE c \in stale["offTask"] \cup stale["offOwn"]
    BY <1>1, <1>3, <2>3, <2>8
  <2> QED
    BY <2>4, <2>5, <2>6, <2>7, <2>8
<1> QED
  BY <1>6, <1>7

LEMMA CourseStep ==
  ASSUME CastInv, NEW e, NEW S, NEW R, NEW failed, NEW q, Course(e, S, R, failed, q)
  PROVE  CastInv'
<1>1. StatesOK' /\ Fresh'
  BY CourseFresh
<1>2. CastOK' /\ Apart' /\ Spots'
  BY CourseFacts
<1>3. Phases' /\ Snap' /\ Kept'
  BY CoursePhases, CourseSnap, CourseKept
<1>4. Behind' /\ Order' /\ Told'
  BY CourseBehind, CourseOrder, CourseTold
<1> QED
  BY <1>1, <1>2, <1>3, <1>4 DEF CastInv
-----------------------------------------------------------------------------
(* The other steps send nothing. *)

Still == UNCHANGED <<queue, todo, rest, stale, last>>

LEMMA StillFacts ==
  ASSUME Still
  PROVE  /\ \A c : Waiting(c)' = Waiting(c)
         /\ Suspended' = Suspended
         /\ \A e, c : Due(e, c)' <=> Due(e, c)
         /\ Apart => Apart'
         /\ Spots => Spots'
         /\ Kept /\ UNCHANGED place /\ (calm' => calm) => Kept'
BY DEF Still, Waiting, Suspended, Due, Apart, Spots, Kept

LEMMA CastInitInv == CastInit => CastInv
<1> SUFFICES ASSUME CastInit PROVE CastInv
  OBVIOUS
<1> USE FeedAssumption DEF CastInit
<1>1. \A c \in Client : queue[c] = <<>> /\ Waiting(c) = {} /\ Single(queue[c])
  <2>1. \A c \in Client : queue[c] = <<>>
    OBVIOUS
  <2>2. Len(<<>>) = 0 /\ 1 .. 0 = {}
    OBVIOUS
  <2>3. \A c \in Client : 1 .. Len(queue[c]) = {}
    BY <2>1, <2>2, Zenon
  <2> QED
    BY <2>1, <2>3 DEF Waiting, Single
<1>2. Suspended = {}
  BY <1>1 DEF Suspended
<1>n. Nowhere \in Places /\ \A r \in Room : Nowhere[r] = 0
  BY DEF Nowhere, Places
<1>3. StatesOK /\ CastOK
  <2>1. queue \in [Client -> Seq(Cast)] /\ NoCast \in [Cast -> SUBSET Client]
    BY DEF NoCast
  <2>2. StatesOK
    BY DEF StatesOK, Stage
  <2>3. Bounded
    BY <1>n DEF Bounded
  <2>4. rest \in [Cast -> Places]
    BY <1>n
  <2> QED
    BY <1>n, <2>1, <2>2, <2>3, <2>4 DEF CastOK
<1>4. Apart /\ Spots
  BY <1>1, <1>2 DEF Apart, Spots, NoCast
<1>5. Fresh /\ Phases
  BY <1>1, <1>2 DEF Fresh, Phases, NoCast, Closed
<1>6. Snap /\ Kept /\ Behind /\ Order /\ Told
  BY <1>n, <1>1, <1>2 DEF Snap, Kept, Behind, Order, Told, NoCast
<1> QED
  BY <1>3, <1>4, <1>5, <1>6 DEF CastInv

LEMMA RedisStep ==
  ASSUME CastInv, Subscribe \/ LoseRedis
  PROVE  CastInv'
<1> USE DEF CastInv
<1>1. /\ Still /\ UNCHANGED <<stage, sock, reg, place>> /\ wire' \subseteq wire
      /\ up' \in BOOLEAN /\ calm' \in BOOLEAN
      /\ calm' => calm /\ wire' = wire /\ (up => up')
  <2>1. CASE Subscribe
    BY <2>1 DEF Subscribe, castVars, Still, CastOK
  <2>2. CASE LoseRedis
    BY <2>2 DEF LoseRedis, castVars, Still, CastOK
  <2> QED
    BY <2>1, <2>2
<1>2. /\ \A c : Waiting(c)' = Waiting(c)
      /\ Suspended' = Suspended
      /\ \A e, c : Due(e, c)' <=> Due(e, c)
      /\ Apart' /\ Spots' /\ Kept'
  BY <1>1, StillFacts
<1>3. StatesOK' /\ CastOK'
  BY <1>1 DEF StatesOK, CastOK, Still, Bounded
<1>4. Fresh' /\ Phases' /\ Snap'
  BY <1>1, <1>2 DEF Fresh, Phases, Snap, Closed, Still
<1>5. Behind'
  BY <1>1, <1>2 DEF Behind, Good
<1>6. Order'
  BY <1>1, <1>2 DEF Order, Good, Still
<1>7. Told'
  BY <1>1, <1>2 DEF Told, Good, Still
<1> QED
  BY <1>2, <1>3, <1>4, <1>5, <1>6, <1>7

LEMMA HandlerStep ==
  ASSUME CastInv, SetOnline \/ Greeted \/ SetOffline \/ Parted \/ PresenceFails
  PROVE  CastInv'
<1> USE FeedAssumption DEF CastInv
<1>1. /\ Still /\ UNCHANGED <<reg, place, up, calm>>
      /\ stage' \in Stage /\ stage # "off" /\ stage' \notin {"off", "online"}
      /\ sock' = sock \/ sock' = [sock EXCEPT ![Actor] = "closed"]
      /\ wire \subseteq wire' /\ wire' \subseteq {"onTask", "offTask"}
      /\ \A e \in wire' \ wire : \/ e = "onTask" /\ stage = "online"
                                 \/ e = "offTask" /\ stage = "offline" /\ stage' \in {"part", "failed"}
  BY DEF SetOnline, Greeted, SetOffline, Parted, PresenceFails, Advance, Publish, castVars,
         Still, StatesOK, Stage
<1>2. /\ \A c : Waiting(c)' = Waiting(c)
      /\ Suspended' = Suspended
      /\ \A e, c : Due(e, c)' <=> Due(e, c)
      /\ Apart' /\ Spots' /\ Kept'
  BY <1>1, StillFacts
<1>3. /\ sock' \in [Client -> {"off", "open", "slow", "closed"}] /\ sock[Actor] # "off"
      /\ \A c \in Client : sock'[c] = sock[c] \/ (c = Actor /\ sock'[c] = "closed")
  BY <1>1 DEF StatesOK, Fresh
<1>4. StatesOK' /\ CastOK'
  BY <1>1, <1>3 DEF StatesOK, CastOK, Still, Bounded
<1>5. Fresh'
  <2>1. Closed(Client) \subseteq Closed(Client)'
    BY <1>3 DEF Closed
  <2>2. \A c \in Client : sock'[c] = "off" => sock[c] = "off"
    BY <1>3
  <2>3. sock'[Actor] # "off"
    BY <1>3
  <2> QED
    BY <1>1, <2>1, <2>2, <2>3 DEF Fresh, Still
<1>6. Phases'
  <2>1. /\ "onOwn" \in Suspended => stage' = "greeting"
        /\ "offOwn" \in Suspended => stage' = "parting"
    BY <1>1 DEF Phases, SetOnline, Greeted, SetOffline, Parted, PresenceFails, Advance
  <2>2. "onTask" \in wire' => "offTask" \notin Suspended
    BY <1>1 DEF Phases
  <2>3. wire' \cap Suspended = {}
    BY <1>1 DEF Phases
  <2>4. "offTask" \in wire' \cup Suspended => stage' \in {"part", "parting", "ended", "failed"}
    BY <1>1 DEF Phases, SetOnline, Greeted, SetOffline, Parted, PresenceFails, Advance
  <2> QED
    BY <1>1, <1>2, <2>1, <2>2, <2>3, <2>4 DEF Phases, Still
<1>7. Snap'
  BY <1>1, <1>3 DEF Snap, Still, CastOK
<1>8. /\ Good' => Good
      /\ Good' /\ stage \in Early /\ up => (stage' \in Early /\ up') \/ "offTask" \in wire'
      /\ Good' /\ stage \in Early => stage' \in Early \cup {"part"}
      /\ Good' => stage # "part"
      /\ Good' /\ "onTask" \in wire' \ wire => stage' \in Early /\ up'
  BY <1>1 DEF Good, Early, SetOnline, Greeted, SetOffline, Parted, PresenceFails, Advance, Publish
<1>9. Behind'
  BY <1>1, <1>2, <1>8 DEF Behind
<1>10. Order'
  BY <1>1, <1>2, <1>8 DEF Order, Still
<1>11. Told'
  <2>1. SUFFICES ASSUME Good', NEW c \in reg', last'[c] = "online"
                 PROVE  \/ stage' \in Early /\ up'
                        \/ "offTask" \in wire'
                        \/ Due("offTask", c)'
                        \/ RoomOf[c] = RoomOf[Actor]
                           /\ (stage' \in Early \cup {"part"} \/ c \in todo'["offOwn"])
                        \/ c \in stale'["offTask"] \cup stale'["offOwn"]
    BY DEF Told
  <2>2. \/ stage \in Early /\ up
        \/ "offTask" \in wire
        \/ Due("offTask", c)
        \/ RoomOf[c] = RoomOf[Actor] /\ (stage \in Early \cup {"part"} \/ c \in todo["offOwn"])
        \/ c \in stale["offTask"] \cup stale["offOwn"]
    BY <1>1, <1>8, <2>1 DEF Told, Still
  <2>3. todo' = todo /\ stale' = stale
    BY <1>1 DEF Still
  <2> QED
    BY <1>1, <1>2, <1>8, <2>1, <2>2, <2>3
<1> QED
  BY <1>2, <1>4, <1>5, <1>6, <1>7, <1>9, <1>10, <1>11

LEMMA UnregisterStep ==
  ASSUME CastInv, NEW c \in Client, Unregister(c),
         UNCHANGED stage \/ (stage = "loop" /\ stage' = "offline")
  PROVE  CastInv'
<1> USE DEF CastInv
<1>1. /\ Still /\ UNCHANGED <<sock, up, wire>> /\ reg' = reg \ {c}
      /\ calm' \in BOOLEAN
      /\ calm' => /\ calm /\ queue[c] = <<>>
                  /\ \A e \in Cast : c \in todo[e] => sock[c] = "closed"
  BY DEF Unregister, castVars, Still, CastOK
<1>p. /\ place' \in Places /\ \A d \in reg' : place'[RoomOf[d]] > 0
      /\ \A r \in Room : place'[r] \in {0, place[r]}
      /\ Bounded'
  <2>1. /\ place \in [Room -> Nat] /\ \A r, s \in Room : place[r] = place[s] /\ place[r] > 0 => r = s
        /\ \A d \in reg : d \in Client /\ place[RoomOf[d]] > 0
        /\ \A d \in Client : RoomOf[d] \in Room
    BY DEF CastOK, Places, Room
  <2>2. place' = [place EXCEPT ![RoomOf[c]] =
                    IF \E d \in reg \ {c} : RoomOf[d] = RoomOf[c] THEN @ ELSE 0]
    BY DEF Unregister
  <2>3. place' \in [Room -> Nat] /\ \A r \in Room : place'[r] \in {0, place[r]}
    BY <2>1, <2>2
  <2>4. \A d \in reg' : place'[RoomOf[d]] > 0
    BY <1>1, <2>1, <2>2
  <2>5. place' \in Places
    BY <2>1, <2>3 DEF Places
  <2>6. PICK n \in Nat : \A r \in Room : place[r] <= n
    BY DEF CastOK, Bounded
  <2>7. \A r \in Room : place'[r] <= n
    BY <2>1, <2>3, <2>6
  <2> QED
    BY <2>3, <2>4, <2>5, <2>7 DEF Bounded
<1>2. /\ \A d : Waiting(d)' = Waiting(d)
      /\ Suspended' = Suspended
      /\ \A e, d : Due(e, d)' <=> Due(e, d)
      /\ Apart' /\ Spots'
  BY <1>1, StillFacts
<1>3. /\ stage' \in Stage /\ (stage' = "off" <=> stage = "off")
      /\ Good' => Good
      /\ stage \in Early <=> stage' \in Early
      /\ stage = "part" <=> stage' = "part"
  BY <1>1 DEF StatesOK, Stage, Good, Early
<1>4. StatesOK' /\ CastOK'
  BY <1>1, <1>3, <1>p DEF StatesOK, CastOK, Still
<1>5. Fresh'
  BY <1>1, <1>3 DEF Fresh, Closed, Still
<1>6. Phases'
  BY <1>1, <1>2 DEF Phases, Still
<1>7. Snap'
  BY <1>1 DEF Snap, Still
<1>k. Kept'
  <2>1. /\ \A d \in Client : RoomOf[d] \in Room
        /\ place \in [Room -> Nat] /\ \A e \in Cast : rest[e] \in [Room -> Nat]
    BY DEF CastOK, Places, Room
  <2> QED
    BY <1>1, <1>2, <1>p, <2>1 DEF Kept, Still
<1>8. Behind' /\ Order'
  <2>1. \A r \in Room : place'[r] > 0 => place[r] > 0
    BY <1>p
  <2> QED
    BY <1>1, <1>2, <1>3, <2>1 DEF Behind, Order, Still
<1>9. Told'
  BY <1>1, <1>2, <1>3 DEF Told, Still
<1> QED
  BY <1>2, <1>4, <1>5, <1>6, <1>7, <1>8, <1>9, <1>k

LEMMA ArriveStep ==
  ASSUME CastInv, NEW c \in Client, Arrive(c)
  PROVE  CastInv'
<1> USE FeedAssumption DEF CastInv
<1>1. /\ Still /\ UNCHANGED <<up, wire>> /\ reg' = reg \cup {c}
      /\ place' = Listing({RoomOf[c]}) /\ sock[c] = "off"
      /\ sock' = [sock EXCEPT ![c] = "open"]
      /\ stage' = IF c = Actor THEN "online" ELSE stage
      /\ calm' \in BOOLEAN /\ (calm' => calm /\ NewTo({RoomOf[c]}))
  BY DEF Arrive, castVars, Still, CastOK
<1>p. /\ place' \in Places /\ place'[RoomOf[c]] > 0 /\ Bounded'
      /\ \A r \in Room : place[r] > 0 => place'[r] = place[r]
      /\ calm' => \A e \in Cast, r \in Room : rest[e][r] > 0 /\ place'[r] > 0 => place[r] > 0
      /\ \A d \in Client : RoomOf[d] \in Room
  <2>1. \A d \in Client : RoomOf[d] \in Room
    BY DEF Room
  <2>2. place \in [Room -> Nat]
    BY DEF CastOK, Places
  <2>3. /\ place' \in Places /\ place'[RoomOf[c]] > 0
        /\ \A r \in Room : place[r] > 0 \/ r # RoomOf[c] => place'[r] = place[r]
        /\ \E n \in Nat : \A r \in Room : place'[r] <= n
    BY <1>1, <2>1, ListingFacts DEF CastOK
  <2>4. calm' => \A e \in Cast : place[RoomOf[c]] = 0 => rest[e][RoomOf[c]] = 0
    BY <1>1 DEF NewTo
  <2>5. \A e \in Cast, r \in Room : rest[e][r] \in Nat
    BY DEF CastOK, Places
  <2>6. ASSUME calm', NEW e \in Cast, NEW r \in Room, rest[e][r] > 0, place'[r] > 0
        PROVE  place[r] > 0
    BY <2>2, <2>3, <2>4, <2>5, <2>6
  <2> QED
    BY <2>1, <2>3, <2>6 DEF Bounded
<1>2. /\ \A d : Waiting(d)' = Waiting(d)
      /\ Suspended' = Suspended
      /\ \A e, d : Due(e, d)' <=> Due(e, d)
      /\ Apart' /\ Spots'
  BY <1>1, StillFacts
<1>3. /\ sock' \in [Client -> {"off", "open", "slow", "closed"}] /\ sock'[c] = "open"
      /\ \A d \in Client \ {c} : sock'[d] = sock[d]
  BY <1>1 DEF StatesOK
<1>4. c = Actor => stage = "off"
  BY <1>1 DEF Fresh
<1>5. StatesOK' /\ CastOK'
  <2>1. \A d \in reg' : place'[RoomOf[d]] > 0
    BY <1>1, <1>p DEF CastOK
  <2> QED
    BY <1>1, <1>3, <1>p, <2>1 DEF StatesOK, CastOK, Still, Stage
<1>6. Fresh'
  <2>1. Closed(Client)' = Closed(Client)
    BY <1>1, <1>3 DEF Closed
  <2>2. \A d \in Client : sock'[d] = "off" => d # c /\ sock[d] = "off"
    BY <1>3
  <2>3. stage' = "off" <=> sock'[Actor] = "off"
    BY <1>1, <1>3 DEF Fresh
  <2> QED
    BY <1>1, <2>1, <2>2, <2>3 DEF Fresh, Still
<1>7. Phases'
  BY <1>1, <1>2, <1>4 DEF Phases, Still
<1>8. Snap'
  BY <1>1, <1>3 DEF Snap, Still, Fresh, Cast
<1>k. Kept'
  <2>1. SUFFICES ASSUME calm', NEW e \in Cast, NEW r \in Room, rest[e][r] > 0
                 PROVE  /\ place'[r] > 0 => rest[e][r] = place'[r]
                        /\ \A d \in Client : e \in Waiting(d) => place'[RoomOf[d]] < rest[e][r]
    BY <1>1, <1>2 DEF Kept, Still
  <2>2. /\ place[r] > 0 => rest[e][r] = place[r]
        /\ \A d \in Client : e \in Waiting(d) => place[RoomOf[d]] < rest[e][r]
    BY <1>1, <2>1 DEF Kept
  <2>3. \A d \in Client : e \in Waiting(d) => d \in reg
    BY <1>1, <2>1 DEF Snap, Waiting
  <2> QED
    BY <1>p, <2>1, <2>2, <2>3 DEF CastOK
<1>9. Good' => Good
  BY <1>1, <1>4 DEF Good
<1>10. Behind'
  BY <1>1, <1>2, <1>4, <1>9 DEF Behind, Phases
<1>11. Order'
  <2>1. SUFFICES ASSUME Good', "onTask" \in Suspended, "offTask" \in Suspended
                 PROVE  /\ \A d \in Client : "onTask" \in Waiting(d) =>
                             AheadIn(queue[d]) \/ Due("offTask", d)
                        /\ \A d \in todo["onTask"] \cap reg' : Due("offTask", d)
                        /\ \A r \in Room :
                             rest["onTask"][r] > 0 /\ place'[r] > 0 => rest["offTask"][r] > 0
    BY <1>1, <1>2 DEF Order, Still
  <2>2. c \notin todo["onTask"] /\ "onTask" \in Cast
    BY <1>1 DEF Fresh, Cast
  <2>3. \A r \in Room : rest["onTask"][r] > 0 /\ place'[r] > 0 => place[r] > 0
    BY <1>p, <2>1, <2>2 DEF Good
  <2> QED
    BY <1>1, <1>9, <2>1, <2>2, <2>3 DEF Order
<1>12. Told'
  <2>1. last'[c] = "nothing"
    BY <1>1 DEF Fresh, Still
  <2>2. stage \in Early \cup {"part"} => c # Actor /\ stage' = stage
    BY <1>1, <1>4 DEF Early
  <2> QED
    BY <1>1, <1>2, <1>9, <2>1, <2>2 DEF Told, Still
<1> QED
  BY <1>2, <1>5, <1>6, <1>7, <1>8, <1>10, <1>11, <1>12, <1>k

LEMMA MoveStep ==
  ASSUME CastInv, NEW c \in Client, SlowDown(c) \/ Drain(c) \/ Close(c)
  PROVE  CastInv'
<1> USE FeedAssumption DEF CastInv
<1>1. /\ Still /\ UNCHANGED <<stage, up, wire, reg, place, calm>>
      /\ \E to \in {"open", "slow", "closed"} : sock' = [sock EXCEPT ![c] = to]
      /\ sock[c] \in {"open", "slow"}
  BY DEF SlowDown, Drain, Close, Move, castVars, Still
<1>2. /\ \A d : Waiting(d)' = Waiting(d)
      /\ Suspended' = Suspended
      /\ \A e, d : Due(e, d)' <=> Due(e, d)
      /\ Apart' /\ Spots' /\ Kept'
  BY <1>1, StillFacts
<1>3. /\ sock' \in [Client -> {"off", "open", "slow", "closed"}]
      /\ \A d \in Client : sock'[d] = "off" <=> sock[d] = "off"
      /\ \A d \in Client : sock[d] = "closed" => sock'[d] = "closed"
  BY <1>1 DEF StatesOK
<1>4. StatesOK' /\ CastOK'
  BY <1>1, <1>3 DEF StatesOK, CastOK, Still, Bounded
<1>5. Fresh'
  <2>1. Closed(Client) \subseteq Closed(Client)'
    BY <1>3 DEF Closed
  <2> QED
    BY <1>1, <1>3, <2>1 DEF Fresh, Still
<1>6. Snap'
  BY <1>1, <1>3 DEF Snap, Still, CastOK
<1>7. Phases' /\ Behind' /\ Order'
  BY <1>1, <1>2 DEF Phases, Behind, Order, Good, Still
<1>8. Told'
  BY <1>1, <1>2 DEF Told, Good, Still
<1> QED
  BY <1>2, <1>4, <1>5, <1>6, <1>7, <1>8

LEMMA CastInvStep == CastInv /\ [CastNext]_feedVars => CastInv'
<1> SUFFICES ASSUME CastInv, [CastNext]_feedVars PROVE CastInv'
  OBVIOUS
<1>r. place \in Places /\ OwnRoom \in Places
  <2>1. OwnRoom \in [Room -> Nat]
    BY DEF OwnRoom
  <2>2. \A r, s \in Room : OwnRoom[r] = OwnRoom[s] /\ OwnRoom[r] > 0 => r = s
    BY DEF OwnRoom
  <2> QED
    BY <2>1, <2>2 DEF CastInv, CastOK, Places
<1>1. CASE Subscribe \/ LoseRedis
  BY <1>1, RedisStep
<1>2. CASE SetOnline \/ Greeted \/ SetOffline \/ Parted \/ PresenceFails
  BY <1>2, HandlerStep
<1>3. CASE Greet
  <2>1. Course("onOwn", {}, OwnRoom, {}, queue)
    <3>1. "onOwn" \in Cast /\ "onOwn" \notin Suspended
      BY <1>3 DEF Cast, CastInv, Phases, Greet, Advance
    <3> QED
      BY <1>3, <1>r, <3>1, StartCourse DEF Greet, Advance, SendOwn, CastInv, CastOK, Send
  <2> QED
    BY <2>1, CourseStep
<1>4. CASE Part
  <2>1. Course("offOwn", {}, OwnRoom, {}, queue)
    <3>1. "offOwn" \in Cast /\ "offOwn" \notin Suspended
      BY <1>4 DEF Cast, CastInv, Phases, Part, Advance
    <3> QED
      BY <1>4, <1>r, <3>1, StartCourse DEF Part, Advance, SendOwn
  <2> QED
    BY <2>1, CourseStep
<1>5. ASSUME NEW e \in {"onTask", "offTask"}, Start(e)
      PROVE  CastInv'
  <2>1. e \in Cast /\ e \notin Suspended
    BY <1>5 DEF Cast, CastInv, Phases, Start
  <2>2. Course(e, {}, place, {}, queue)
    BY <1>5, <1>r, <2>1, StartCourse DEF Start
  <2> QED
    BY <2>2, CourseStep
<1>6. ASSUME NEW c \in Client, Resume(c)
      PROVE  CastInv'
  BY <1>6, ResumeCourse, CourseStep
<1>7. ASSUME NEW c \in Client, Arrive(c)
      PROVE  CastInv'
  BY <1>7, ArriveStep
<1>8. ASSUME NEW c \in Client, SlowDown(c) \/ Drain(c) \/ Close(c)
      PROVE  CastInv'
  BY <1>8, MoveStep
<1>9. CASE Quit \/ \E c \in Client : Depart(c)
  BY <1>9, FeedAssumption, UnregisterStep DEF Quit, Depart, Advance
<1>10. CASE UNCHANGED feedVars
  <2>1. Still /\ UNCHANGED <<stage, sock, reg, place, up, wire, calm>>
    BY <1>10 DEF feedVars, castVars, Still
  <2>2. /\ \A c : Waiting(c)' = Waiting(c)
        /\ Suspended' = Suspended
        /\ \A e, c : Due(e, c)' <=> Due(e, c)
        /\ Apart => Apart'
        /\ Spots => Spots'
        /\ Kept => Kept'
    BY <2>1, StillFacts
  <2>3. StatesOK' /\ CastOK' /\ Fresh' /\ Phases' /\ Snap'
    BY <2>1, <2>2 DEF CastInv, StatesOK, CastOK, Bounded, Fresh, Phases, Snap, Closed, Still
  <2>4. Behind' /\ Order' /\ Told'
    BY <2>1, <2>2 DEF CastInv, Behind, Order, Told, Good, Still
  <2> QED
    BY <2>2, <2>3, <2>4 DEF CastInv
<1> QED
  BY <1>1, <1>2, <1>3, <1>4, <1>5, <1>6, <1>7, <1>8, <1>9, <1>10 DEF CastNext, Handler

(* The types: a broadcast stands in one queue only, and what it has still   *)
(* to do lies behind that socket, in its room and in others.                *)
THEOREM CastTyped == CastSpec => []CastTypeOK
<1>1. CastInv => CastTypeOK
  BY TypeParts DEF CastInv
<1> QED
  BY <1>1, CastInitInv, CastInvStep, PTL DEF CastSpec

(* Once the actor's handler has ended and no broadcast is under way, nobody *)
(* in the registry was told last that the actor is online, unless an event  *)
(* was lost, somebody left or failed while waited for, or a room was listed *)
(* anew in front of a broadcast: connection_manager.py's sends, the events  *)
(* of presence_service.py and the handler's own broadcasts in router.py.    *)
THEOREM LastWordIsOffline == CastSpec => []LastWord
<1>1. CastInv => LastWord
  <2> SUFFICES ASSUME CastInv, stage = "ended", wire = {}, Suspended = {}, calm
               PROVE  \A c \in reg : last[c] # "online"
    BY DEF LastWord
  <2>1. \A e \in Cast : todo[e] = {} /\ rest[e] = Nowhere /\ stale[e] = {}
    BY DEF CastInv, Spots
  <2>2. "offTask" \in Cast /\ "offOwn" \in Cast
    BY DEF Cast
  <2>3. \A c \in reg : RoomOf[c] \in Room
    BY DEF CastInv, CastOK, Room
  <2> QED
    BY <2>1, <2>2, <2>3 DEF CastInv, Told, Good, Early, Due, Nowhere
<1> QED
  BY <1>1, CastInitInv, CastInvStep, PTL DEF CastSpec
=============================================================================
