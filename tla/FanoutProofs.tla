---------------------------- MODULE FanoutProofs ----------------------------
(* Theorems about the fan-out, for any processes, connections and number of *)
(* events.                                                                  *)
EXTENDS Fanout, WellFoundedInduction, TLAPS

LEMMA LeastOf ==
  ASSUME NEW T \in SUBSET Nat, T # {}
  PROVE  \E m \in T : \A n \in T : m <= n
<1>1. \E m \in T : \A n \in T : ~(<<n, m>> \in OpToRel(<, Nat))
  BY WFMin, NatLessThanWellFounded
<1>2. PICK m \in T : \A n \in T : ~(<<n, m>> \in OpToRel(<, Nat))
  BY <1>1
<1>3. ASSUME NEW n \in T PROVE m <= n
  <2>1. m \in Nat /\ n \in Nat
    OBVIOUS
  <2>2. <<n, m>> \in OpToRel(<, Nat) <=> n < m
    BY <2>1 DEF OpToRel
  <2>3. ~(n < m)
    BY <1>2, <2>2, Zenon
  <2> QED
    BY <2>1, <2>3
<1> QED
  BY <1>3

\* The sockets a task gets to, up to the first that is busy.
Reached(S) == {c \in S : \A d \in Busy(S) : c <= d}

LEMMA ReachedFacts ==
  ASSUME NEW S \in SUBSET Conn
  PROVE  /\ Reached(S) \subseteq S /\ Busy(Reached(S)) \subseteq Busy(S)
         /\ \A c \in S \ Reached(S) : \E d \in Busy(Reached(S)) : d < c
         /\ \A c, d \in Busy(Reached(S)) : c = d
<1> USE FanoutAssumption
<1>1. Reached(S) \subseteq S /\ Busy(Reached(S)) \subseteq Busy(S)
  BY DEF Reached, Busy
<1>2. ASSUME NEW c \in S \ Reached(S)
      PROVE  \E d \in Busy(Reached(S)) : d < c
  <2>1. Busy(S) # {} /\ Busy(S) \in SUBSET Nat
    BY DEF Reached, Busy
  <2>2. PICK d \in Busy(S) : \A n \in Busy(S) : d <= n
    BY <2>1, LeastOf
  <2>3. d \in Busy(Reached(S))
    BY <2>2 DEF Reached, Busy
  <2>4. d < c
    BY <2>2 DEF Reached, Busy
  <2> QED
    BY <2>3, <2>4
<1>3. ASSUME NEW c \in Busy(Reached(S)), NEW d \in Busy(Reached(S))
      PROVE  c = d
  <2>1. c <= d /\ d <= c
    BY <1>1, <1>3 DEF Reached, Busy
  <2> QED
    BY <2>1 DEF Reached, Busy
<1> QED
  BY <1>1, <1>2, <1>3

-----------------------------------------------------------------------------
(* Types. *)

Holds(s, e) == \E i \in 1 .. Len(s) : s[i] = e
Single(s) == \A i, j \in 1 .. Len(s) : s[i] = s[j] => i = j

\* The types of what the tasks write, and of what they do not.
TasksOK ==
  /\ got \in [Conn -> [Event -> Nat]]
  /\ reg \subseteq Conn
  /\ queue \in [Conn -> Seq(Event)]
  /\ {todo, stale} \subseteq [Process -> [Event -> SUBSET Conn]]
  /\ \A p \in Process, e \in Event : todo[p][e] \cup stale[p][e] \subseteq Local(p)

NetOK ==
  /\ published \in 0 .. MaxEvents
  /\ up \in [Process -> BOOLEAN]
  /\ wire \in [Process -> SUBSET (1 .. published)]
  /\ sock \in [Conn -> {"off", "open", "slow", "closed"}]

LEMMA TypeParts == TypeOK <=> NetOK /\ TasksOK /\ \A c \in Conn : Single(queue[c])
BY DEF TypeOK, NetOK, TasksOK, Single

LEMMA SendType ==
  ASSUME TasksOK, NEW p \in Process, NEW e \in Event,
         NEW S \in SUBSET Local(p), NEW failed \in SUBSET Local(p),
         NEW q \in [Conn -> Seq(Event)], Send(p, e, S, failed, q)
  PROVE  TasksOK'
<1> DEFINE reached == Reached(S)
           bad == IF Busy(S) = {} THEN {} ELSE failed \cup Closed(reached)
<1>0. S \in SUBSET Conn
  BY DEF Local
<1>1. S \ reached \in SUBSET Local(p) /\ bad \in SUBSET Local(p)
  BY DEF Closed, Reached
<1>2. /\ todo' = [todo EXCEPT ![p][e] = S \ reached]
      /\ stale' = [stale EXCEPT ![p][e] = bad]
  BY DEF Send, Reached
<1>3. got' \in [Conn -> [Event -> Nat]] /\ reg' \subseteq Conn
  BY DEF TasksOK, Send, Hand
<1>4. queue' \in [Conn -> Seq(Event)]
  BY DEF Send
<1> HIDE DEF reached, bad
<1>5. {todo, stale}' \subseteq [Process -> [Event -> SUBSET Conn]]
  BY <1>1, <1>2 DEF TasksOK, Local
<1>6. \A x \in Process, f \in Event : todo'[x][f] \cup stale'[x][f] \subseteq Local(x)
  BY <1>1, <1>2 DEF TasksOK
<1> QED
  BY <1>3, <1>4, <1>5, <1>6 DEF TasksOK, Local

-----------------------------------------------------------------------------
(* Queues. *)

LEMMA HoldsAppend ==
  ASSUME NEW s \in Seq(Event), NEW e \in Event, NEW f
  PROVE  Holds(Append(s, e), f) <=> Holds(s, f) \/ f = e
<1>1. /\ Len(Append(s, e)) = Len(s) + 1 /\ Len(s) \in Nat
      /\ \A i \in 1 .. Len(s) : Append(s, e)[i] = s[i]
      /\ Append(s, e)[Len(s) + 1] = e
  OBVIOUS
<1> QED
  BY <1>1 DEF Holds

LEMMA SingleAppend ==
  ASSUME NEW s \in Seq(Event), NEW e \in Event, Single(s), ~Holds(s, e)
  PROVE  Single(Append(s, e))
<1>1. /\ Len(Append(s, e)) = Len(s) + 1 /\ Len(s) \in Nat
      /\ \A i \in 1 .. Len(s) : Append(s, e)[i] = s[i]
      /\ Append(s, e)[Len(s) + 1] = e
  OBVIOUS
<1> QED
  BY <1>1 DEF Holds, Single

LEMMA HoldsTail ==
  ASSUME NEW s \in Seq(Event), s # <<>>, Single(s)
  PROVE  /\ Tail(s) \in Seq(Event) /\ Head(s) \in Event /\ Single(Tail(s)) /\ Holds(s, Head(s))
         /\ \A f : Holds(Tail(s), f) <=> Holds(s, f) /\ f # Head(s)
<1>1. /\ Tail(s) \in Seq(Event) /\ Head(s) \in Event /\ Head(s) = s[1]
      /\ Len(s) \in Nat \ {0} /\ Len(Tail(s)) = Len(s) - 1
      /\ \A i \in 1 .. Len(s) - 1 : Tail(s)[i] = s[i + 1]
  OBVIOUS
<1>2. Single(Tail(s)) /\ Holds(s, Head(s))
  BY <1>1 DEF Single, Holds
<1>3. ASSUME NEW f, Holds(Tail(s), f)
      PROVE  Holds(s, f) /\ f # Head(s)
  BY <1>1, <1>3 DEF Single, Holds
<1>4. ASSUME NEW f, Holds(s, f), f # Head(s)
      PROVE  Holds(Tail(s), f)
  <2>1. PICK i \in 1 .. Len(s) : s[i] = f
    BY <1>4 DEF Holds
  <2>2. i - 1 \in 1 .. Len(s) - 1 /\ Tail(s)[i - 1] = f
    BY <1>1, <1>4, <2>1
  <2> QED
    BY <1>1, <2>2 DEF Holds
<1> QED
  BY <1>1, <1>2, <1>3, <1>4

-----------------------------------------------------------------------------
(* At most once. *)

\* An event is in one place at a time: before it, on the wire, or with the
\* connections that have it and the task that is to serve the others.
OnePlace ==
  \A p \in Process, e \in Event :
    /\ e \in wire[p] => todo[p][e] = {} /\ \A c \in Local(p) : got[c][e] = 0
    /\ todo[p][e] # {} => e <= published
    /\ \A c \in Local(p) : got[c][e] > 0 => e <= published /\ c \notin todo[p][e]

\* A task stands in one queue, of a socket it has sent to, and the sockets it
\* has still to send to come after that one.
Standing ==
  /\ \A c \in reg : sock[c] # "off"
  /\ \A p \in Process, e \in Event :
       /\ \A c \in Local(p) : Holds(queue[c], e) => got[c][e] > 0
       /\ \A c, d \in Local(p) : Holds(queue[c], e) /\ Holds(queue[d], e) => c = d
       /\ \A c \in todo[p][e] : \E d \in Local(p) : Holds(queue[d], e) /\ d < c

Singles == \A c \in Conn : Single(queue[c])

Inv == NetOK /\ TasksOK /\ Singles /\ OnePlace /\ Standing

LEMMA InvInit == Init => Inv
<1> SUFFICES ASSUME Init PROVE Inv
  OBVIOUS
<1>1. NetOK /\ TasksOK
  BY FeedAssumption DEF Init, FeedInit, NetOK, TasksOK, NoSocket, Event, Local
<1>2. Len(<<>>) = 0 /\ \A c \in Conn : queue[c] = <<>>
  BY DEF Init
<1>3. Singles /\ \A c \in Conn : \A e : ~Holds(queue[c], e)
  BY <1>2 DEF Singles, Single, Holds
<1> QED
  BY <1>1, <1>3 DEF Init, FeedInit, Inv, OnePlace, Standing, NoSocket, Local

\* q are the queues, without the task of event e in process p.
Without(q, p, e) ==
  /\ q \in [Conn -> Seq(Event)]
  /\ \A c \in Conn : Single(q[c]) /\ \A f \in Event : Holds(q[c], f) => Holds(queue[c], f)
  /\ \A c \in Conn, f \in Event :
       Holds(queue[c], f) /\ (f # e \/ c \notin Local(p)) => Holds(q[c], f)
  /\ \A c \in Local(p) : ~Holds(q[c], e)

\* The sends of a task, seen from the room.
LEMMA SendOnce ==
  ASSUME Inv, NetOK', NEW p \in Process, NEW e \in Event, e <= published,
         NEW S \in SUBSET Local(p), NEW failed \in SUBSET Local(p),
         \A c \in S : got[c][e] = 0,
         NEW q, Without(q, p, e),
         Send(p, e, S, failed, q), S = todo[p][e] \/ todo[p][e] = {},
         UNCHANGED <<published, sock>>,
         \A x \in Process : wire'[x] \subseteq wire[x],
         e \notin wire'[p]
  PROVE  Inv' /\ FeedNext
<1> DEFINE R == Reached(S)
           W == Busy(R)
           H == R \ Closed(R)
<1> USE FanoutAssumption
<1>0. S \in SUBSET Conn /\ Local(p) \subseteq Conn
  BY DEF Local
<1>1. /\ R \in SUBSET S /\ W \in SUBSET R /\ H \in SUBSET R /\ W \subseteq H
      /\ \A c \in S \ R : \E d \in W : d < c
      /\ \A c, d \in W : c = d
  BY <1>0, ReachedFacts DEF Busy, Closed
<1>2. /\ got' = [c \in Conn |-> IF c \in H THEN [got[c] EXCEPT ![e] = @ + 1] ELSE got[c]]
      /\ queue' = [c \in Conn |-> IF c \in W THEN Append(q[c], e) ELSE q[c]]
      /\ todo' = [todo EXCEPT ![p][e] = S \ R]
      /\ reg' \subseteq reg
  BY DEF Send, Hand, Reached
<1>3. HandOnce(e, H)
  BY <1>1, <1>2 DEF HandOnce, Hand
<1>4. FeedNext
  BY <1>0, <1>1, <1>3 DEF FeedNext
<1>5. TasksOK'
  BY SendType DEF Inv, Without
<1> HIDE DEF R, W, H
<1>6. Singles'
  BY <1>0, <1>1, <1>2, SingleAppend DEF Singles, Without
<1>7. \A c \in Conn, f \in Event :
        Holds(queue'[c], f) <=> Holds(q[c], f) \/ (c \in W /\ f = e)
  BY <1>2, HoldsAppend DEF Without
<1>8. ASSUME NEW x \in Process, NEW f \in Event
      PROVE  /\ f \in wire'[x] => todo'[x][f] = {} /\ \A c \in Local(x) : got'[c][f] = 0
             /\ todo'[x][f] # {} => f <= published'
             /\ \A c \in Local(x) : got'[c][f] > 0 => f <= published' /\ c \notin todo'[x][f]
  <2>1. CASE x = p /\ f = e
    <3>1. todo'[p][e] = S \ R
      BY <1>2 DEF Inv, TasksOK
    <3>2. \A c \in Local(p) : got'[c][e] > 0 => got[c][e] > 0 \/ c \in H
      BY <1>0, <1>2 DEF Inv, TasksOK
    <3> QED
      BY <1>1, <2>1, <3>1, <3>2 DEF Inv, OnePlace
  <2>2. CASE x # p \/ f # e
    <3>1. todo'[x][f] = todo[x][f]
      BY <1>2, <2>2 DEF Inv, TasksOK
    <3>2. \A c \in Local(x) : got'[c][f] = got[c][f]
      BY <1>1, <1>2, <2>2 DEF Local, Inv, TasksOK
    <3> QED
      BY <3>1, <3>2 DEF Inv, OnePlace
  <2> QED
    BY <2>1, <2>2
<1>9. ASSUME NEW x \in Process, NEW f \in Event
      PROVE  /\ \A c \in Local(x) : Holds(queue'[c], f) => got'[c][f] > 0
             /\ \A c, d \in Local(x) : Holds(queue'[c], f) /\ Holds(queue'[d], f) => c = d
             /\ \A c \in todo'[x][f] : \E d \in Local(x) : Holds(queue'[d], f) /\ d < c
  <2>0. Local(x) \subseteq Conn /\ \A c \in Conn : got[c][f] \in Nat /\ got[c][e] \in Nat
    BY DEF Local, Inv, TasksOK
  <2>1. CASE x = p /\ f = e
    <3>1. \A c \in Local(p) : Holds(queue'[c], e) <=> c \in W
      BY <2>0, <2>1, <1>7 DEF Without
    <3>2. \A c \in W : got'[c][e] > 0
      BY <1>0, <1>1, <1>2, <2>0 DEF Inv, TasksOK
    <3>3. todo'[p][e] = S \ R
      BY <1>2 DEF Inv, TasksOK
    <3> QED
      BY <1>1, <2>1, <3>1, <3>2, <3>3
  <2>2. CASE x # p \/ f # e
    <3>1. todo'[x][f] = todo[x][f]
      BY <1>2, <2>2 DEF Inv, TasksOK
    <3>2. \A c \in Local(x) : got'[c][f] = got[c][f]
      BY <1>1, <1>2, <2>2 DEF Local, Inv, TasksOK
    <3>3. \A c \in Local(x) : Holds(queue'[c], f) <=> Holds(queue[c], f)
      BY <1>1, <1>7, <2>0, <2>2 DEF Local, Without
    <3> QED
      BY <3>1, <3>2, <3>3 DEF Inv, Standing
  <2> QED
    BY <2>1, <2>2
<1>10. \A c \in reg' : sock'[c] # "off"
  BY <1>2 DEF Inv, Standing
<1> QED
  BY <1>4, <1>5, <1>6, <1>8, <1>9, <1>10 DEF Inv, OnePlace, Standing, Local

\* The other actions send nothing, move no task, and put no event back on the
\* wire.
LEMMA QuietOnce ==
  ASSUME Inv, NetOK', UNCHANGED <<published, got, todo, queue, stale>>, reg' \subseteq Conn,
         \A c \in reg' : sock'[c] # "off",
         \A p \in Process : wire'[p] \subseteq wire[p]
  PROVE  Inv'
<1>1. TasksOK' /\ Singles'
  BY DEF Inv, TasksOK, Singles, Local
<1>2. OnePlace'
  BY DEF Inv, OnePlace, Local
<1>3. Standing'
  BY DEF Inv, Standing, Local
<1> QED
  BY <1>1, <1>2, <1>3 DEF Inv

LEMMA PublishOnce ==
  ASSUME Inv, Publish
  PROVE  Inv'
<1> USE FeedAssumption DEF Inv
<1>1. /\ published \in Nat /\ published' = published + 1 /\ published' \in 0 .. MaxEvents
      /\ 1 .. published \subseteq 1 .. published' /\ published' \in 1 .. published'
      /\ UNCHANGED <<got, todo, queue, stale, up, reg, sock>>
  BY DEF Publish, Announce, taskVars, NetOK
<1>2. /\ wire' \in [Process -> SUBSET (1 .. published')]
      /\ \A p \in Process, e \in Event : e \in wire'[p] => e \in wire[p] \/ e = published + 1
  BY <1>1 DEF Publish, NetOK
<1>3. NetOK' /\ TasksOK' /\ Singles' /\ Standing'
  BY <1>1, <1>2 DEF NetOK, TasksOK, Singles, Standing, Local
<1>4. ASSUME NEW p \in Process, NEW e \in Event
      PROVE  /\ e \in wire'[p] => todo'[p][e] = {} /\ \A c \in Local(p) : got'[c][e] = 0
             /\ todo'[p][e] # {} => e <= published'
             /\ \A c \in Local(p) : got'[c][e] > 0 => e <= published' /\ c \notin todo'[p][e]
  <2>1. e = published + 1 => todo[p][e] = {} /\ \A c \in Local(p) : got[c][e] = 0
    <3>1. ASSUME e = published + 1 PROVE ~(e <= published)
      BY <1>1, <3>1
    <3>2. \A c \in Local(p) : got[c][e] \in Nat
      BY DEF TasksOK, Local
    <3> QED
      BY <3>1, <3>2 DEF OnePlace
  <2>2. e \in Nat
    BY DEF Event
  <2> QED
    BY <1>1, <1>2, <2>1, <2>2 DEF OnePlace
<1> QED
  BY <1>3, <1>4 DEF OnePlace, Local

\* The task that goes on, out of the queue of c.
LEMMA Resumed ==
  ASSUME Inv, NEW c \in Conn, queue[c] # <<>>
  PROVE  LET p == ProcOf[c]
             e == Head(queue[c])
             q == [queue EXCEPT ![c] = Tail(@)]
         IN  /\ p \in Process /\ c \in Local(p) /\ e \in Event /\ Holds(queue[c], e)
             /\ Without(q, p, e)
             /\ e <= published /\ e \notin wire[p] /\ todo[p][e] \in SUBSET Local(p)
             /\ \A d \in todo[p][e] : got[d][e] = 0
<1> DEFINE p == ProcOf[c]
           e == Head(queue[c])
           q == [queue EXCEPT ![c] = Tail(@)]
<1> USE FanoutAssumption DEF Inv
<1>1. p \in Process /\ c \in Local(p)
  BY DEF Local
<1>2. queue \in [Conn -> Seq(Event)] /\ queue[c] \in Seq(Event) /\ Single(queue[c])
  BY DEF TasksOK, Singles
<1>3. /\ Tail(queue[c]) \in Seq(Event) /\ e \in Event /\ Single(Tail(queue[c]))
      /\ Holds(queue[c], e)
      /\ \A f : Holds(Tail(queue[c]), f) <=> Holds(queue[c], f) /\ f # e
  BY <1>2, HoldsTail
<1>4. q \in [Conn -> Seq(Event)] /\ q[c] = Tail(queue[c]) /\ \A d \in Conn \ {c} : q[d] = queue[d]
  BY <1>2, <1>3
<1> HIDE DEF p, e, q
<1>5. \A d \in Local(p) : ~Holds(q[d], e)
  <2>1. \A d \in Local(p) : Holds(queue[d], e) => d = c
    BY <1>1, <1>3 DEF Standing
  <2> QED
    BY <1>3, <1>4, <2>1 DEF Local
<1>6. Without(q, p, e)
  BY <1>1, <1>3, <1>4, <1>5 DEF Without, Singles
<1>7. got[c][e] > 0
  BY <1>1, <1>3 DEF Standing
<1>8. e <= published /\ e \notin wire[p]
  BY <1>1, <1>3, <1>7 DEF OnePlace
<1>9. todo[p][e] \in SUBSET Local(p) /\ \A d \in todo[p][e] : got[d][e] = 0
  <2>1. todo[p][e] \in SUBSET Local(p) /\ Local(p) \subseteq Conn
    BY <1>1, <1>3 DEF TasksOK, Local
  <2>2. \A d \in todo[p][e] : got[d][e] \in Nat /\ ~(got[d][e] > 0)
    BY <1>1, <1>3, <2>1 DEF OnePlace, TasksOK
  <2> QED
    BY <2>1, <2>2
<1> QED
  BY <1>1, <1>3, <1>6, <1>8, <1>9 DEF p, e, q

\* The task that starts, in no queue yet.
LEMMA Started ==
  ASSUME Inv, NEW p \in Process, NEW e \in wire[p]
  PROVE  /\ e \in Event /\ e <= published /\ todo[p][e] = {}
         /\ \A c \in Local(p) : got[c][e] = 0 /\ ~Holds(queue[c], e)
         /\ Without(queue, p, e)
<1> USE FeedAssumption DEF Inv
<1>1. e \in Event /\ e <= published
  BY DEF NetOK, Event
<1>2. todo[p][e] = {} /\ \A c \in Local(p) : got[c][e] = 0
  BY <1>1 DEF OnePlace
<1>3. \A c \in Local(p) : ~Holds(queue[c], e)
  BY <1>1, <1>2 DEF Standing
<1> QED
  BY <1>1, <1>2, <1>3 DEF Without, TasksOK, Singles

LEMMA CrashOnce ==
  ASSUME Inv, NEW p \in Process, Crash(p)
  PROVE  Inv'
<1> USE DEF Inv
<1>1. NetOK'
  BY DEF Crash, NetOK
<1>2. /\ UNCHANGED <<published, got>> /\ reg' = reg \ Local(p)
      /\ queue' \in [Conn -> Seq(Event)]
      /\ \A c \in Conn : queue'[c] = IF ProcOf[c] = p THEN <<>> ELSE queue[c]
      /\ {todo, stale}' \subseteq [Process -> [Event -> SUBSET Conn]]
      /\ \A x \in Process, e \in Event :
           /\ todo'[x][e] = IF x = p THEN {} ELSE todo[x][e]
           /\ stale'[x][e] = IF x = p THEN {} ELSE stale[x][e]
           /\ wire'[x] = IF x = p THEN {} ELSE wire[x]
      /\ \A c \in reg' : sock'[c] # "off"
  <2>1. NoSocket[p] = [e \in Event |-> {}]
    BY DEF NoSocket
  <2>2. /\ UNCHANGED <<published, got>> /\ reg' = reg \ Local(p)
        /\ queue' \in [Conn -> Seq(Event)]
        /\ \A c \in Conn : queue'[c] = IF ProcOf[c] = p THEN <<>> ELSE queue[c]
    BY DEF Crash, TasksOK
  <2>3. {todo, stale}' \subseteq [Process -> [Event -> SUBSET Conn]]
    BY <2>1 DEF Crash, TasksOK
  <2>4. ASSUME NEW x \in Process, NEW e \in Event
        PROVE  /\ todo'[x][e] = IF x = p THEN {} ELSE todo[x][e]
               /\ stale'[x][e] = IF x = p THEN {} ELSE stale[x][e]
               /\ wire'[x] = IF x = p THEN {} ELSE wire[x]
    BY <2>1 DEF Crash, TasksOK, NetOK
  <2>5. \A c \in reg' : sock'[c] # "off"
    BY DEF Crash, Standing, TasksOK
  <2> QED
    BY <2>2, <2>3, <2>4, <2>5
<1>3. TasksOK'
  BY <1>2 DEF TasksOK, Local
<1>4. \A c \in Conn : ProcOf[c] = p => Len(queue'[c]) = 0 /\ \A e : ~Holds(queue'[c], e)
  BY <1>2 DEF Holds
<1>5. Singles'
  BY <1>2, <1>4 DEF Singles, Single
<1>6. OnePlace'
  BY <1>2 DEF OnePlace, Local
<1>7. Standing'
  <2>1. ASSUME NEW x \in Process, NEW e \in Event
        PROVE  /\ \A c \in Local(x) : Holds(queue'[c], e) => got'[c][e] > 0
               /\ \A c, d \in Local(x) : Holds(queue'[c], e) /\ Holds(queue'[d], e) => c = d
               /\ \A c \in todo'[x][e] : \E d \in Local(x) : Holds(queue'[d], e) /\ d < c
    <3>1. CASE x = p
      BY <1>2, <1>4, <3>1 DEF Local
    <3>2. CASE x # p
      <4>1. todo'[x][e] = todo[x][e] /\ \A c \in Local(x) : queue'[c] = queue[c]
        BY <1>2, <3>2 DEF Local
      <4> QED
        BY <1>2, <4>1 DEF Standing
    <3> QED
      BY <3>1, <3>2
  <2> QED
    BY <1>2, <2>1 DEF Standing, Local
<1> QED
  BY <1>1, <1>3, <1>5, <1>6, <1>7

LEMMA InvStep == Inv /\ [Next]_vars => Inv' /\ [FeedNext]_feedVars
<1> SUFFICES ASSUME Inv, [Next]_vars
             PROVE  Inv' /\ [FeedNext]_feedVars
  OBVIOUS
<1>t. NetOK /\ TasksOK /\ Standing
  BY DEF Inv
<1>1. CASE UNCHANGED vars
  <2>1. NetOK'
    BY <1>1, <1>t DEF vars, NetOK
  <2> QED
    BY <1>1, <2>1, <1>t, QuietOnce DEF vars, taskVars, feedVars, TasksOK, Standing
<1>2. CASE Publish
  BY <1>2, PublishOnce DEF Publish, FeedNext
<1>3. ASSUME NEW p \in Process, Start(p)
      PROVE  Inv' /\ FeedNext
  <2>1. PICK e \in wire[p] :
          /\ wire' = [wire EXCEPT ![p] = @ \ {e}]
          /\ Send(p, e, reg \cap Local(p), {}, queue)
          /\ UNCHANGED <<published, up, sock>>
    BY <1>3 DEF Start
  <2>2. NetOK' /\ e \notin wire'[p] /\ \A x \in Process : wire'[x] \subseteq wire[x]
    BY <1>t, <2>1 DEF NetOK
  <2>3. reg \cap Local(p) \in SUBSET Local(p) /\ {} \in SUBSET Local(p)
    OBVIOUS
  <2> QED
    BY <2>1, <2>2, <2>3, Started, SendOnce
<1>4. ASSUME NEW c \in Conn, Resume(c)
      PROVE  Inv' /\ FeedNext
  <2> DEFINE p == ProcOf[c]
             e == Head(queue[c])
             q == [queue EXCEPT ![c] = Tail(@)]
             failed == stale[p][e] \cup Closed({c})
  <2>1. /\ queue[c] # <<>> /\ Send(p, e, todo[p][e], failed, q)
        /\ UNCHANGED <<published, up, wire, sock>>
    BY <1>4 DEF Resume
  <2>2. /\ p \in Process /\ c \in Local(p) /\ e \in Event
        /\ Without(q, p, e)
        /\ e <= published /\ e \notin wire[p] /\ todo[p][e] \in SUBSET Local(p)
        /\ \A d \in todo[p][e] : got[d][e] = 0
    BY <2>1, Resumed
  <2>3. failed \in SUBSET Local(p)
    BY <1>t, <2>2 DEF TasksOK, Closed
  <2>4. NetOK'
    BY <1>t, <2>1 DEF NetOK
  <2> HIDE DEF p, e, q, failed
  <2> QED
    BY <2>1, <2>2, <2>3, <2>4, SendOnce
<1>5. ASSUME NEW p \in Process, Subscribe(p) \/ LoseRedis(p)
      PROVE  Inv' /\ UNCHANGED feedVars
  <2>1. UNCHANGED <<published, got, reg, sock, todo, queue, stale>> /\ up' \in [Process -> BOOLEAN]
    BY <1>5, <1>t DEF Subscribe, LoseRedis, taskVars, NetOK
  <2>2. PICK n \in 0 .. published : wire' = wire \/ wire' = [wire EXCEPT ![p] = {e \in @ : e <= n}]
    BY <1>5, <1>t DEF Subscribe, LoseRedis, NetOK
  <2>3. /\ wire' \in [Process -> SUBSET (1 .. published)]
        /\ \A x \in Process : wire'[x] \subseteq wire[x]
    BY <1>t, <2>2 DEF NetOK
  <2>4. NetOK'
    BY <1>t, <2>1, <2>3 DEF NetOK
  <2> QED
    BY <1>t, <2>1, <2>3, <2>4, QuietOnce DEF feedVars, TasksOK, Standing
<1>6. ASSUME NEW c \in Conn, Connect(c) \/ SlowDown(c) \/ Drain(c) \/ Close(c) \/ Unregister(c)
      PROVE  Inv' /\ UNCHANGED feedVars
  <2>1. UNCHANGED <<published, got, wire, todo, queue, stale, up>>
    BY <1>6 DEF Connect, SlowDown, Drain, Close, Move, Unregister, taskVars
  <2>2. sock' \in [Conn -> {"off", "open", "slow", "closed"}]
    BY <1>6, <1>t DEF Connect, SlowDown, Drain, Close, Move, Unregister, NetOK
  <2>3. reg' \subseteq Conn /\ \A d \in reg' : sock'[d] # "off"
    BY <1>6, <1>t
    DEF Connect, SlowDown, Drain, Close, Move, Unregister, NetOK, TasksOK, Standing
  <2>4. NetOK'
    BY <1>t, <2>1, <2>2 DEF NetOK
  <2> QED
    BY <2>1, <2>3, <2>4, QuietOnce DEF feedVars
<1> QED
  BY <1>1, <1>2, <1>3, <1>4, <1>5, <1>6, CrashOnce DEF Next, Crash, feedVars

(* Every variable keeps its type, no task of a process ever sends to a      *)
(* connection of another one, and none queues twice at a socket.            *)
THEOREM FanoutTyped == Spec => []TypeOK
<1>1. Inv => TypeOK
  BY TypeParts DEF Inv, Singles
<1> QED
  BY <1>1, InvInit, InvStep, PTL DEF Spec

(* Whatever processes die, sockets fail and subscriptions break, a          *)
(* connection is sent an event at most once, and only after its PUBLISH:    *)
(* the fan-out implements the feed of a room.                               *)
THEOREM FanoutImplementsFeed == Spec => FeedSpec
<1>1. Init => FeedInit
  BY DEF Init
<1> QED
  BY <1>1, InvInit, InvStep, PTL DEF Spec, FeedSpec

-----------------------------------------------------------------------------
(* Order. *)

\* No connection of p is closed or has left.
Intact(p) == \A d \in Local(p) : ~Gone(d)

Sorted(s) == \A i, j \in 1 .. Len(s) : i < j => s[i] < s[j]

\* In p, an event e is ahead of a later event f that has been sent to some
\* connection: it is on the wire no more, it has been sent to each connection
\* that has f, and f is still to be sent to each one that e is still to be
\* sent to or waits for, unless they wait for the same.
Ahead(p, e, f) ==
  /\ \A c \in Local(p) : got[c][f] > 0 => e \notin wire[p] /\ c \notin todo[p][e]
  /\ \A c, d \in Local(p) :
       Holds(queue[d], f) /\ (c \in todo[p][e] \/ (Holds(queue[c], e) /\ c # d))
         => c \in todo[p][f]

Row(p) ==
  /\ \A c \in Local(p), e \in Event : Holds(queue[c], e) \/ c \in todo[p][e] => c \in reg
  /\ \A c \in Local(p) : Sorted(queue[c])
  /\ \A e, f \in Event : e < f => Ahead(p, e, f)

InOrder == \A p \in Process : Intact(p) => Row(p)

LEMMA SortedAppend ==
  ASSUME NEW s \in Seq(Event), NEW e \in Event, Sorted(s),
         \A f \in Event : Holds(s, f) => f < e
  PROVE  Sorted(Append(s, e))
<1>1. /\ Len(Append(s, e)) = Len(s) + 1 /\ Len(s) \in Nat
      /\ \A i \in 1 .. Len(s) : Append(s, e)[i] = s[i] /\ s[i] \in Event
      /\ Append(s, e)[Len(s) + 1] = e
  OBVIOUS
<1>2. \A i \in 1 .. Len(s) : s[i] < e
  BY <1>1 DEF Holds
<1> QED
  BY <1>1, <1>2 DEF Sorted

LEMMA SortedTail ==
  ASSUME NEW s \in Seq(Event), s # <<>>, Sorted(s)
  PROVE  /\ Sorted(Tail(s))
         /\ \A f \in Event : Holds(s, f) /\ f # Head(s) => Head(s) < f
<1>1. /\ Head(s) = s[1] /\ Len(s) \in Nat \ {0} /\ Len(Tail(s)) = Len(s) - 1
      /\ \A i \in 1 .. Len(s) - 1 : Tail(s)[i] = s[i + 1]
  OBVIOUS
<1>2. Sorted(Tail(s))
  BY <1>1 DEF Sorted
<1>3. ASSUME NEW f \in Event, Holds(s, f), f # Head(s)
      PROVE  Head(s) < f
  BY <1>1, <1>3 DEF Holds, Sorted
<1> QED
  BY <1>2, <1>3

\* What happens elsewhere, or to the wire and the registry only, leaves a row
\* as it is.
LEMMA QuietRow ==
  ASSUME NEW p \in Process, Row(p), reg \cap Local(p) \subseteq reg',
         \A c \in Local(p) : queue'[c] = queue[c] /\ got'[c] = got[c],
         \A e \in Event : todo'[p][e] = todo[p][e],
         \A e \in wire'[p] : e \in wire[p] \/ \A f \in Event, c \in Local(p) : e < f => ~(got[c][f] > 0)
  PROVE  Row(p)'
<1>1. \A c \in Local(p), e \in Event : Holds(queue'[c], e) \/ c \in todo'[p][e] => c \in reg'
  BY DEF Row
<1>2. \A c \in Local(p) : Sorted(queue'[c])
  BY DEF Row
<1>3. ASSUME NEW e \in Event, NEW f \in Event, e < f
      PROVE  Ahead(p, e, f)'
  <2>1. Ahead(p, e, f)
    BY <1>3 DEF Row
  <2>2. \A c \in Local(p) : got[c][f] > 0 => e \notin wire'[p] /\ c \notin todo[p][e]
    BY <1>3, <2>1 DEF Ahead
  <2> QED
    BY <2>1, <2>2 DEF Ahead, Local
<1> QED
  BY <1>1, <1>2, <1>3 DEF Row, Local

\* A task of p sends, to sockets among which are all that earlier events have
\* not passed, and that no later event has.
LEMMA SendRow ==
  ASSUME Inv, Inv', NEW p \in Process, Intact(p), Intact(p)', Row(p),
         NEW e \in Event, NEW S \in SUBSET Local(p), S \subseteq reg, NEW failed,
         NEW q, Without(q, p, e), \A c \in Local(p) : Sorted(q[c]),
         Send(p, e, S, failed, q),
         UNCHANGED sock, wire'[p] \subseteq wire[p],
         S = todo[p][e] \/ e \in wire[p],
         \A f \in Event : f < e => f \notin wire'[p],
         \A f \in Event, c \in Local(p) :
           f < e /\ (c \in todo[p][f] \/ Holds(q[c], f)) => c \in S,
         \A g \in Event, c \in Local(p) : e < g /\ Holds(q[c], g) => S \subseteq todo[p][g],
         \A g \in Event, c \in Local(p) : e < g /\ got[c][g] > 0 => c \notin S
  PROVE  Row(p)'
<1> DEFINE R == Reached(S)
           W == Busy(R)
           H == R \ Closed(R)
<1> USE FanoutAssumption
<1>0. S \in SUBSET Conn /\ Local(p) \subseteq Conn
  BY DEF Local
<1>1. /\ R \in SUBSET S /\ W \in SUBSET R /\ H \in SUBSET R /\ W \subseteq Busy(S)
      /\ \A c \in S \ R : \E d \in W : d < c
      /\ \A c, d \in W : c = d
      /\ \A c \in R, d \in Busy(S) : c <= d
  BY <1>0, ReachedFacts DEF Busy, Reached
<1>2. /\ got' = [c \in Conn |-> IF c \in H THEN [got[c] EXCEPT ![e] = @ + 1] ELSE got[c]]
      /\ queue' = [c \in Conn |-> IF c \in W THEN Append(q[c], e) ELSE q[c]]
      /\ todo' = [todo EXCEPT ![p][e] = S \ R]
  BY DEF Send, Hand, Reached
<1> HIDE DEF R, W, H
<1>3. \A c \in Conn, f \in Event :
        Holds(queue'[c], f) <=> Holds(q[c], f) \/ (c \in W /\ f = e)
  BY <1>2, HoldsAppend DEF Without
<1>4. \A f \in Event : todo'[p][f] = IF f = e THEN S \ R ELSE todo[p][f]
  BY <1>2 DEF Inv, TasksOK
<1>5. \A c \in Local(p), f \in Event : f # e => got'[c][f] = got[c][f]
  BY <1>0, <1>2 DEF Inv, TasksOK
<1>6. \A c \in Local(p) : got'[c][e] > 0 => got[c][e] > 0 \/ c \in R
  BY <1>0, <1>1, <1>2 DEF Inv, TasksOK

\* A registered socket of p with a queue is busy.
<1>7. \A c \in S, f \in Event : Holds(queue[c], f) => c \in Busy(S)
  <2>1. ASSUME NEW c \in S, NEW f \in Event, Holds(queue[c], f) PROVE c \in Busy(S)
    <3>1. sock[c] \in {"off", "open", "slow", "closed"} /\ sock[c] # "off" /\ sock[c] # "closed"
      BY <1>0 DEF Inv, NetOK, Standing, Intact, Gone
    <3>2. queue[c] # <<>>
      <4>1. Len(<<>>) = 0
        OBVIOUS
      <4> QED
        BY <2>1, <4>1 DEF Holds
    <3> QED
      BY <3>1, <3>2 DEF Busy
  <2> QED
    BY <2>1

\* What e reaches, the earlier events have passed or wait for.
<1>8. ASSUME NEW f \in Event, f < e, NEW c \in Local(p), c \in todo[p][f]
      PROVE  c \in S \ R
  <2>1. PICK d \in Local(p) : Holds(queue[d], f) /\ d < c
    BY <1>8 DEF Inv, Standing
  <2>2. f # e
    BY <1>8 DEF Event
  <2>3. d \in S
    BY <1>0, <1>8, <2>1, <2>2 DEF Without
  <2>4. d \in Busy(S)
    BY <1>7, <2>1, <2>3
  <2> QED
    BY <1>0, <1>1, <1>8, <2>1, <2>4
<1>9. \A c \in Local(p), f \in Event : Holds(queue'[c], f) \/ c \in todo'[p][f] => c \in reg'
  <2>1. ASSUME NEW c \in Local(p), c \in reg PROVE c \in reg'
    BY <2>1 DEF Inv, Standing, Intact, Gone, Local
  <2>2. ASSUME NEW c \in Local(p), NEW f \in Event, Holds(queue'[c], f) \/ c \in todo'[p][f]
        PROVE  c \in reg
    BY <1>0, <1>1, <1>3, <1>4, <2>2 DEF Row, Without
  <2> QED
    BY <2>1, <2>2
<1>10. \A c \in Local(p) : Sorted(queue'[c])
  <2>1. ASSUME NEW c \in Local(p), c \in W PROVE Sorted(Append(q[c], e))
    <3>1. ASSUME NEW f \in Event, Holds(q[c], f) PROVE f < e
      <4>1. f # e /\ f \in Nat /\ e \in Nat
        BY <3>1 DEF Without, Event
      <4>2. CASE e < f
        <5>1. c \in todo[p][f]
          BY <1>1, <2>1, <3>1, <4>2
        <5>2. Holds(queue[c], f)
          BY <1>0, <3>1 DEF Without
        <5>3. got[c][f] > 0
          BY <5>2 DEF Inv, Standing
        <5> QED
          BY <5>1, <5>3 DEF Inv, OnePlace
      <4> QED
        BY <4>1, <4>2
    <3> QED
      BY <1>0, <3>1, SortedAppend DEF Without
  <2> QED
    BY <1>0, <1>2, <2>1
<1>11. ASSUME NEW a \in Event, NEW b \in Event, a < b
       PROVE  Ahead(p, a, b)'
  <2>0. a # b /\ a \in Nat /\ b \in Nat
    BY <1>11 DEF Event
  <2>1. Ahead(p, a, b)
    BY <1>11 DEF Row
  <2>2. ASSUME NEW c \in Local(p), got'[c][b] > 0
        PROVE  a \notin wire'[p] /\ c \notin todo'[p][a]
    <3>1. CASE b = e
      <4>1. a \notin wire'[p] /\ todo'[p][a] = todo[p][a]
        BY <1>4, <1>11, <2>0, <3>1
      <4>2. CASE got[c][e] > 0
        BY <2>1, <3>1, <4>1, <4>2 DEF Ahead
      <4>3. CASE c \in R
        BY <1>8, <1>11, <3>1, <4>1, <4>3
      <4> QED
        BY <1>6, <2>2, <3>1, <4>2, <4>3
    <3>2. CASE b # e
      <4>1. got[c][b] > 0
        BY <1>5, <2>2, <3>2
      <4>2. a \notin wire'[p]
        BY <2>1, <4>1 DEF Ahead
      <4>3. CASE a = e
        <5>1. todo'[p][a] = S \ R
          BY <1>4, <4>3
        <5>2. c \notin S
          BY <1>11, <4>1, <4>3
        <5> QED
          BY <4>2, <5>1, <5>2
      <4>4. CASE a # e
        BY <1>4, <2>1, <4>1, <4>4 DEF Ahead
      <4> QED
        BY <4>2, <4>3, <4>4
    <3> QED
      BY <3>1, <3>2
  <2>3. ASSUME NEW c \in Local(p), NEW d \in Local(p), Holds(queue'[d], b),
               c \in todo'[p][a] \/ (Holds(queue'[c], a) /\ c # d)
        PROVE  c \in todo'[p][b]
    <3>1. CASE b = e
      <4>1. d \in W /\ a # e
        BY <1>0, <1>3, <2>0, <2>3, <3>1 DEF Without
      <4>2. CASE c \in todo'[p][a]
        BY <1>4, <1>8, <1>11, <3>1, <4>1, <4>2
      <4>3. CASE Holds(queue'[c], a) /\ c # d
        <5>1. Holds(q[c], a) /\ Holds(queue[c], a)
          BY <1>0, <1>3, <4>1, <4>3 DEF Without
        <5>2. c \in S
          BY <1>11, <3>1, <5>1
        <5>3. c \in Busy(S) /\ d \in Busy(S) /\ d \in R
          BY <1>1, <1>7, <4>1, <5>1, <5>2
        <5>4. c \notin R
          <6>1. d <= c
            BY <1>1, <5>3
          <6>2. c \in R => c <= d
            BY <1>1, <5>3
          <6> QED
            BY <1>0, <4>3, <6>1, <6>2
        <5> QED
          BY <1>4, <3>1, <5>2, <5>4
      <4> QED
        BY <2>3, <4>2, <4>3
    <3>2. CASE b # e
      <4>1. Holds(q[d], b) /\ Holds(queue[d], b) /\ todo'[p][b] = todo[p][b]
        BY <1>0, <1>3, <1>4, <2>3, <3>2 DEF Without
      <4>2. CASE a = e
        <5>1. S \subseteq todo[p][b]
          BY <1>11, <4>1, <4>2
        <5>2. c \in S
          BY <1>0, <1>1, <1>3, <1>4, <2>3, <4>2 DEF Without
        <5> QED
          BY <4>1, <5>1, <5>2
      <4>3. CASE a # e
        <5>1. c \in todo[p][a] \/ (Holds(queue[c], a) /\ c # d)
          BY <1>0, <1>3, <1>4, <2>3, <4>3 DEF Without
        <5> QED
          BY <2>1, <4>1, <5>1 DEF Ahead
      <4> QED
        BY <4>2, <4>3
    <3> QED
      BY <3>1, <3>2
  <2> QED
    BY <2>2, <2>3 DEF Ahead, Local
<1> QED
  BY <1>9, <1>10, <1>11 DEF Row, Local

\* Connections come once, and who has gone stays gone.
LEMMA StaysGone ==
  ASSUME Inv, [Next]_vars
  PROVE  /\ \A c \in Conn : /\ sock[c] # "off" => sock'[c] # "off"
                            /\ sock[c] = "closed" => sock'[c] = "closed"
         /\ \A c \in reg' \ reg : sock[c] = "off"
         /\ \A p \in Process : Intact(p)' => Intact(p) /\ reg \cap Local(p) \subseteq reg'
<1>t. sock \in [Conn -> {"off", "open", "slow", "closed"}] /\ reg \subseteq Conn
  BY DEF Inv, NetOK, TasksOK
<1> DEFINE Lasting == \A c \in Conn : (sock[c] # "off" => sock'[c] # "off")
                                   /\ (sock[c] = "closed" => sock'[c] = "closed")
           New == \A c \in reg' \ reg : sock[c] = "off"
<1>1. Lasting /\ New
  <2>1. CASE UNCHANGED vars \/ Publish
    BY <2>1 DEF vars, Publish
  <2>2. ASSUME NEW p \in Process, Subscribe(p) \/ LoseRedis(p) \/ Start(p) \/ Crash(p)
        PROVE  Lasting /\ New
    BY <2>2, <1>t DEF Subscribe, LoseRedis, Start, Send, Crash
  <2>3. ASSUME NEW c \in Conn, Resume(c) \/ Unregister(c)
        PROVE  Lasting /\ New
    BY <2>3 DEF Resume, Send, Unregister
  <2>4. ASSUME NEW c \in Conn, Connect(c) \/ SlowDown(c) \/ Drain(c) \/ Close(c)
        PROVE  Lasting /\ New
    BY <2>4, <1>t DEF Connect, SlowDown, Drain, Close, Move
  <2> HIDE DEF Lasting, New
  <2> QED
    BY <2>1, <2>2, <2>3, <2>4 DEF Next
<1>2. ASSUME NEW p \in Process, Intact(p)'
      PROVE  Intact(p) /\ reg \cap Local(p) \subseteq reg'
  <2>1. ASSUME NEW d \in Local(p) PROVE ~Gone(d) /\ (d \in reg => d \in reg')
    <3>1. d \in Conn /\ sock'[d] # "closed" /\ (sock'[d] = "off" \/ d \in reg')
      BY <1>2 DEF Intact, Local, Gone
    <3>2. d \in reg => sock[d] # "off"
      BY DEF Inv, Standing
    <3> QED
      BY <1>1, <3>1, <3>2 DEF Gone
  <2> QED
    BY <2>1 DEF Intact
<1> HIDE DEF Lasting, New
<1>3. \A p \in Process : Intact(p)' => Intact(p) /\ reg \cap Local(p) \subseteq reg'
  BY <1>2
<1> QED
  BY <1>1, <1>3 DEF Lasting, New

\* A task of another process leaves p alone.
LEMMA SendElsewhere ==
  ASSUME Inv, NEW p \in Process, NEW x \in Process, p # x, Row(p), reg \cap Local(p) \subseteq reg',
         NEW e \in Event, NEW S \in SUBSET Local(x), NEW failed, NEW q,
         \A c \in Local(p) : q[c] = queue[c],
         Send(x, e, S, failed, q), wire'[p] \subseteq wire[p]
  PROVE  Row(p)'
<1>1. \A c \in Local(p) : c \in Conn /\ c \notin S
  BY DEF Local
<1>2. \A c \in Local(p) : queue'[c] = queue[c] /\ got'[c] = got[c]
  BY <1>1 DEF Send, Hand, Busy
<1>3. \A f \in Event : todo'[p][f] = todo[p][f]
  BY DEF Send, Inv, TasksOK
<1> QED
  BY <1>2, <1>3, QuietRow

LEMMA StartRow ==
  ASSUME Inv, Inv', NEW p \in Process, NEW x \in Process, Start(x),
         Intact(p), Intact(p)', Row(p), reg \cap Local(p) \subseteq reg'
  PROVE  Row(p)'
<1> USE FanoutAssumption
<1>1. PICK e \in wire[x] :
        /\ \A f \in wire[x] : e <= f
        /\ wire' = [wire EXCEPT ![x] = @ \ {e}]
        /\ Send(x, e, reg \cap Local(x), {}, queue)
        /\ UNCHANGED <<published, up, sock>>
  BY DEF Start
<1>2. /\ e \in Event /\ todo[x][e] = {}
      /\ \A c \in Local(x) : got[c][e] = 0 /\ ~Holds(queue[c], e)
      /\ Without(queue, x, e)
  BY Started
<1>3. \A y \in Process : wire'[y] \subseteq wire[y]
  BY <1>1 DEF Inv, NetOK
<1>4. reg \cap Local(x) \in SUBSET Local(x)
  OBVIOUS
<1>5. CASE p # x
  BY <1>1, <1>2, <1>3, <1>4, <1>5, SendElsewhere
<1>6. CASE p = x
  <2>1. \A f \in Event : f < e => f \notin wire'[p]
    <3>1. ASSUME NEW f \in Event, f < e PROVE f \notin wire[p]
      BY <1>1, <1>2, <1>6, <3>1 DEF Event
    <3> QED
      BY <1>3, <3>1
  <2>2. \A c \in Local(p) : Sorted(queue[c])
    BY DEF Row
  <2>3. \A f \in Event, c \in Local(p) :
          f < e /\ (c \in todo[p][f] \/ Holds(queue[c], f)) => c \in reg \cap Local(p)
    BY DEF Row
  <2>4. \A g \in Event, c \in Local(p) : e < g => ~(got[c][g] > 0) /\ ~Holds(queue[c], g)
    <3>1. ASSUME NEW g \in Event, NEW c \in Local(p), e < g PROVE ~(got[c][g] > 0)
      BY <1>1, <1>2, <1>6, <3>1 DEF Row, Ahead
    <3> QED
      BY <3>1 DEF Inv, Standing
  <2> QED
    BY <1>1, <1>2, <1>3, <1>4, <1>6, <2>1, <2>2, <2>3, <2>4, SendRow
<1> QED
  BY <1>5, <1>6

LEMMA ResumeRow ==
  ASSUME Inv, Inv', NEW p \in Process, NEW c \in Conn, Resume(c),
         Intact(p), Intact(p)', Row(p), reg \cap Local(p) \subseteq reg'
  PROVE  Row(p)'
<1> USE FanoutAssumption
<1> DEFINE x == ProcOf[c]
           e == Head(queue[c])
           q == [queue EXCEPT ![c] = Tail(@)]
           S == todo[x][e]
           failed == stale[x][e] \cup Closed({c})
<1>1. /\ queue[c] # <<>> /\ Send(x, e, S, failed, q)
      /\ UNCHANGED <<published, up, wire, sock>>
  BY DEF Resume
<1>2. /\ x \in Process /\ c \in Local(x) /\ e \in Event /\ Holds(queue[c], e)
      /\ Without(q, x, e) /\ e \notin wire[x] /\ S \in SUBSET Local(x)
  BY <1>1, Resumed
<1>3. queue \in [Conn -> Seq(Event)] /\ queue[c] \in Seq(Event)
  BY DEF Inv, TasksOK
<1>4. q[c] = Tail(queue[c]) /\ \A d \in Conn \ {c} : q[d] = queue[d]
  BY <1>3
<1>5. CASE p # x
  <2>1. \A d \in Local(p) : q[d] = queue[d]
    BY <1>4, <1>5 DEF Local
  <2> HIDE DEF x, e, q, S, failed
  <2> QED
    BY <1>1, <1>2, <1>5, <2>1, SendElsewhere
<1>6. CASE p = x
  <2>1. \A d \in Local(p) : Sorted(q[d])
    BY <1>1, <1>3, <1>4, SortedTail DEF Row, Local
  <2>2. \A f \in Event : Holds(queue[c], f) /\ f # e => e < f
    BY <1>1, <1>2, <1>3, <1>6, SortedTail DEF Row
  <2> HIDE DEF x, e, q, S
  <2>3. got[c][e] > 0
    BY <1>2 DEF Inv, Standing
  <2>4. S = todo[p][e] /\ \A d \in Local(p), f \in Event : Holds(q[d], f) => Holds(queue[d], f)
    BY <1>2, <1>6 DEF S, Local, Without
  <2>5. \A f \in Event : f < e => f \notin wire'[p]
    BY <1>1, <1>2, <1>6, <2>3 DEF Row, Ahead
  <2>6. ASSUME NEW f \in Event, NEW d \in Local(p), f < e, d \in todo[p][f] \/ Holds(q[d], f)
        PROVE  d \in S
    <3>1. d \in todo[p][f] \/ (Holds(queue[d], f) /\ d # c)
      <4>1. ASSUME d = c, Holds(queue[c], f) PROVE FALSE
        BY <1>2, <2>2, <2>6, <4>1 DEF Event
      <4> QED
        BY <2>4, <2>6, <4>1
    <3> QED
      BY <1>2, <1>6, <2>4, <2>6, <3>1 DEF Row, Ahead
  <2>7. ASSUME NEW g \in Event, NEW d \in Local(p), e < g, Holds(q[d], g)
        PROVE  S \subseteq todo[p][g]
    BY <1>2, <1>6, <2>4, <2>7 DEF Row, Ahead
  <2>8. \A g \in Event, d \in Local(p) : e < g /\ got[d][g] > 0 => d \notin S
    BY <1>2, <2>4 DEF Row, Ahead
  <2>9. S \subseteq reg
    BY <1>2, <1>6, <2>4 DEF Row
  <2> HIDE DEF failed
  <2> QED
    BY <1>1, <1>2, <1>6, <2>1, <2>4, <2>5, <2>6, <2>7, <2>8, <2>9, SendRow
<1> QED
  BY <1>5, <1>6

LEMMA OrderInit == Init => InOrder
<1> SUFFICES ASSUME Init PROVE InOrder
  OBVIOUS
<1>1. \A c \in Conn : Len(queue[c]) = 0
  BY DEF Init
<1>2. \A c \in Conn : \A e : ~Holds(queue[c], e)
  BY <1>1 DEF Holds
<1>3. \A c \in Conn : Sorted(queue[c])
  BY <1>1 DEF Sorted
<1> QED
  BY <1>2, <1>3 DEF Init, FeedInit, NoSocket, InOrder, Row, Ahead, Local

LEMMA OrderStep == Inv /\ Inv' /\ InOrder /\ [Next]_vars => InOrder'
<1> SUFFICES ASSUME Inv, Inv', InOrder, [Next]_vars,
                    NEW p \in Process, Intact(p)'
             PROVE  Row(p)'
  BY DEF InOrder
<1>r. Intact(p) /\ Row(p) /\ reg \cap Local(p) \subseteq reg'
  BY StaysGone DEF InOrder
<1>t. NetOK /\ TasksOK
  BY DEF Inv
<1>q. ASSUME UNCHANGED <<got, queue, todo>>, wire'[p] \subseteq wire[p] PROVE Row(p)'
  BY <1>q, <1>r, QuietRow
<1>1. CASE UNCHANGED vars
  BY <1>1, <1>q DEF vars, taskVars
<1>2. CASE Publish
  <2>1. UNCHANGED <<got, queue, todo>> /\ \A e \in wire'[p] : e \in wire[p] \/ e = published + 1
    BY <1>2, <1>t DEF Publish, Announce, taskVars, NetOK
  <2>2. \A f \in Event, c \in Local(p) : published + 1 < f => ~(got[c][f] > 0)
    <3>1. ASSUME NEW f \in Event, published + 1 < f PROVE ~(f <= published)
      BY <1>t, <3>1, FeedAssumption DEF NetOK, Event
    <3> QED
      BY <3>1 DEF Inv, OnePlace
  <2> QED
    BY <1>r, <2>1, <2>2, QuietRow
<1>3. ASSUME NEW x \in Process, Start(x) PROVE Row(p)'
  BY <1>3, <1>r, StartRow
<1>4. ASSUME NEW c \in Conn, Resume(c) PROVE Row(p)'
  BY <1>4, <1>r, ResumeRow
<1>5. ASSUME NEW x \in Process, Subscribe(x) \/ LoseRedis(x) PROVE Row(p)'
  <2>1. UNCHANGED <<got, queue, todo>>
    BY <1>5 DEF Subscribe, LoseRedis, taskVars
  <2>2. PICK n \in 0 .. published : wire' = wire \/ wire' = [wire EXCEPT ![x] = {e \in @ : e <= n}]
    BY <1>5, <1>t DEF Subscribe, LoseRedis, NetOK
  <2>3. wire'[p] \subseteq wire[p]
    BY <1>t, <2>2 DEF NetOK
  <2> QED
    BY <2>1, <2>3, <1>q
<1>6. ASSUME NEW x \in Process, Crash(x) PROVE Row(p)'
  <2>1. CASE p = x
    <3>1. Local(p) = {}
      BY <1>6, <2>1 DEF Crash, Intact, Gone, Local
    <3> QED
      BY <3>1 DEF Row, Ahead, Local
  <2>2. CASE p # x
    <3>1. \A c \in Local(p) : queue'[c] = queue[c] /\ got'[c] = got[c]
      BY <1>6, <2>2 DEF Crash, Local
    <3>2. wire'[p] = wire[p] /\ todo'[p] = todo[p]
      BY <1>6, <1>t, <2>2 DEF Crash, NetOK, TasksOK
    <3> QED
      BY <1>r, <3>1, <3>2, QuietRow
  <2> QED
    BY <2>1, <2>2
<1>7. ASSUME NEW c \in Conn, Connect(c) \/ SlowDown(c) \/ Drain(c) \/ Close(c) \/ Unregister(c)
      PROVE  Row(p)'
  BY <1>7, <1>q DEF Connect, SlowDown, Drain, Close, Move, Unregister, taskVars
<1> QED
  BY <1>1, <1>2, <1>3, <1>4, <1>5, <1>6, <1>7 DEF Next

\* Nothing is sent but to the sockets of a task that starts or goes on.
LEMMA SentBy ==
  ASSUME Inv, [Next]_vars, NEW c \in Conn, NEW e \in Event, got'[c][e] # got[c][e]
  PROVE  LET p == ProcOf[c] IN p \in Process /\ (e \in wire[p] \/ c \in todo[p][e])
<1> USE FanoutAssumption
<1>t. NetOK /\ TasksOK
  BY DEF Inv
<1>1. ASSUME NEW x \in Process, NEW f \in Event, NEW S \in SUBSET Local(x), NEW failed, NEW q,
             Send(x, f, S, failed, q)
      PROVE  x = ProcOf[c] /\ f = e /\ c \in S
  BY <1>1, <1>t DEF Send, Hand, Local, TasksOK
<1>2. ASSUME NEW x \in Process, Start(x) PROVE x = ProcOf[c] /\ e \in wire[x]
  <2>1. PICK f \in wire[x] : Send(x, f, reg \cap Local(x), {}, queue)
    BY <1>2 DEF Start
  <2>2. reg \cap Local(x) \in SUBSET Local(x) /\ f \in Event
    BY <2>1, Started
  <2> QED
    BY <1>1, <2>1, <2>2
<1>3. ASSUME NEW d \in Conn, Resume(d) PROVE c \in todo[ProcOf[c]][e]
  <2> DEFINE x == ProcOf[d]
             f == Head(queue[d])
             q == [queue EXCEPT ![d] = Tail(@)]
             failed == stale[x][f] \cup Closed({d})
  <2>1. queue[d] # <<>> /\ Send(x, f, todo[x][f], failed, q)
    BY <1>3 DEF Resume
  <2>2. x \in Process /\ f \in Event /\ todo[x][f] \in SUBSET Local(x)
    BY <2>1, Resumed
  <2> HIDE DEF x, f, q, failed
  <2> QED
    BY <1>1, <2>1, <2>2
<1>4. \/ \E x \in Process : Start(x)
      \/ \E d \in Conn : Resume(d)
  BY DEF Next, vars, taskVars, Publish, Announce, Subscribe, LoseRedis, Crash, Connect, SlowDown,
         Drain, Close, Move, Unregister
<1> QED
  BY <1>2, <1>3, <1>4

(* A connection is sent events in the order of their PUBLISH, unless a      *)
(* connection of its process has been closed or has left the registry.      *)
THEOREM TasksInOrder == Spec => InOrderUnlessOneGone
<1>1. ASSUME Inv, InOrder, [Next]_vars, NEW c \in Conn, NEW e \in Event, NEW f \in Event,
             e < f, got'[c][e] # got[c][e], got[c][f] > 0
      PROVE  \E d \in Local(ProcOf[c]) : Gone(d)
  <2>1. /\ ProcOf[c] \in Process /\ c \in Local(ProcOf[c])
        /\ e \in wire[ProcOf[c]] \/ c \in todo[ProcOf[c]][e]
    BY <1>1, SentBy DEF Local
  <2>2. ASSUME Intact(ProcOf[c]) PROVE FALSE
    BY <1>1, <2>1, <2>2 DEF InOrder, Row, Ahead
  <2> QED
    BY <2>2 DEF Intact
<1>2. Inv /\ InOrder /\ [Next]_vars
        => [\A c \in Conn : \A e, f \in Event :
              e < f /\ got'[c][e] # got[c][e] /\ got[c][f] > 0
                => \E d \in Local(ProcOf[c]) : Gone(d)]_vars
  BY <1>1
<1> QED
  BY <1>2, InvInit, InvStep, OrderInit, OrderStep, PTL DEF Spec, InOrderUnlessOneGone
=============================================================================
