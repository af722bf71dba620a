----------------------------- MODULE PoolsProofs -----------------------------
(* Theorems about the connection pools, for any handlers and pool sizes.    *)
EXTENDS Pools, FiniteSetTheorems, TLAPS

\* The two kinds of handlers keep apart: what each of them may wait for, and
\* where an HTTP request can stand.
Kinds ==
  /\ \A s \in Socket : want[s] # "work" /\ pc[s] \notin {"work", "keys"}
  /\ \A q \in Request : want[q] = "work" /\ pc[q] \in {"idle", "wait", "work", "keys", "ended"}

\* Who waits for a database connection has none.
WaitersHoldNothing == \A h \in Handler : pc[h] = "wait" => h \notin holds

\* Until it gets to its loop a WebSocket has no heartbeat and has dispatched
\* no frame.
Fresh ==
  \A s \in Socket :
    \/ pc[s] \in {"idle", "auth", "connect", "online", "greet"}
    \/ pc[s] = "wait" /\ want[s] = "auth"
    => frames[s] = "none" /\ heart[s] = "none"

\* A WebSocket in its loop, and only such a one, has a heartbeat that is not
\* cancelled.
Beating ==
  \A s \in Socket :
    heart[s] \in {"sleep", "write", "dead"} <=>
      \/ pc[s] \in {"loop", "frame", "publish"}
      \/ pc[s] = "wait" /\ want[s] = "frame"

\* The Redis connections in use are those of the commands under way.
Calls == {h \in Handler : pc[h] \in InRedis}
Beats == {s \in Socket : heart[s] \in {"write", "cancelled"}}
Counted == used = Cardinality(Calls) + Cardinality(Beats)

Inv == TypeOK /\ Kinds /\ WaitersHoldNothing /\ Fresh /\ Beating /\ IdleHoldsNothing /\ Counted

LEMMA FiniteSets ==
  ASSUME TypeOK
  PROVE  /\ IsFiniteSet(Socket) /\ IsFiniteSet(Request)
         /\ IsFiniteSet(holds) /\ Cardinality(holds) \in Nat
         /\ IsFiniteSet(Calls) /\ Cardinality(Calls) \in Nat
         /\ IsFiniteSet(Beats) /\ Cardinality(Beats) \in Nat
<1>1. \A S \in SUBSET Handler : IsFiniteSet(S)
  BY PoolAssumption, FS_Subset
<1>2. /\ holds \in SUBSET Handler /\ Calls \in SUBSET Handler /\ Beats \in SUBSET Handler
      /\ Socket \in SUBSET Handler /\ Request \in SUBSET Handler
  BY DEF TypeOK, Calls, Beats, Handler
<1> QED
  BY <1>1, <1>2, FS_CardinalityType

LEMMA InvInit == Init => Inv
<1> SUFFICES ASSUME Init PROVE Inv
  OBVIOUS
<1>1. Calls = {} /\ Beats = {} /\ Cardinality({}) = 0
  BY FS_EmptySet DEF Init, Calls, Beats, InRedis
<1> QED
  BY <1>1, PoolAssumption
  DEF Init, Inv, TypeOK, PC, InRedis, Handler, Kinds, WaitersHoldNothing, Fresh, Beating,
      IdleHoldsNothing, Counted

-----------------------------------------------------------------------------
(* What a step does to the two sets that are counted. *)

LEMMA ReleaseFits ==
  ASSUME TypeOK, NEW h \in Handler
  PROVE  holds \ {h} \subseteq Handler /\ Cardinality(holds \ {h}) <= DbLimit
<1>1. Cardinality(holds \ {h}) <= Cardinality(holds)
  BY FiniteSets, FS_RemoveElement
<1>2. IsFiniteSet(holds \ {h}) /\ Cardinality(holds \ {h}) \in Nat
  BY FiniteSets, FS_RemoveElement, FS_CardinalityType
<1> QED
  BY <1>1, <1>2, FiniteSets, PoolAssumption DEF TypeOK

One(b) == IF b THEN 1 ELSE 0

\* A handler goes to stage p.
LEMMA CallsChange ==
  ASSUME TypeOK, NEW h \in Handler, NEW p, pc' = [pc EXCEPT ![h] = p]
  PROVE  Cardinality(Calls') = Cardinality(Calls) + One(p \in InRedis) - One(pc[h] \in InRedis)
<1>1. /\ IsFiniteSet(Calls) /\ Cardinality(Calls) \in Nat
      /\ h \in Calls <=> pc[h] \in InRedis
  BY FiniteSets DEF Calls
<1>2. CASE p \in InRedis
  <2>1. Calls' = Calls \cup {h}
    BY <1>2 DEF Calls, TypeOK
  <2>2. Cardinality(Calls') = IF h \in Calls THEN Cardinality(Calls) ELSE Cardinality(Calls) + 1
    BY <1>1, <2>1, FS_AddElement
  <2> QED
    BY <1>1, <1>2, <2>2 DEF One
<1>3. CASE p \notin InRedis
  <2>1. Calls' = Calls \ {h}
    BY <1>3 DEF Calls, TypeOK
  <2>2. Cardinality(Calls') = IF h \in Calls THEN Cardinality(Calls) - 1 ELSE Cardinality(Calls)
    BY <1>1, <2>1, FS_RemoveElement
  <2> QED
    BY <1>1, <1>3, <2>2 DEF One
<1> QED
  BY <1>2, <1>3

\* A heartbeat gets to b.
LEMMA BeatsChange ==
  ASSUME TypeOK, NEW s \in Socket, NEW b, heart' = [heart EXCEPT ![s] = b]
  PROVE  Cardinality(Beats') = Cardinality(Beats) + One(b \in {"write", "cancelled"})
                                 - One(heart[s] \in {"write", "cancelled"})
<1> DEFINE Writing == {"write", "cancelled"}
<1>1. /\ IsFiniteSet(Beats) /\ Cardinality(Beats) \in Nat
      /\ s \in Beats <=> heart[s] \in Writing
  BY FiniteSets DEF Beats
<1>2. CASE b \in Writing
  <2>1. Beats' = Beats \cup {s}
    BY <1>2 DEF Beats, TypeOK
  <2>2. Cardinality(Beats') = IF s \in Beats THEN Cardinality(Beats) ELSE Cardinality(Beats) + 1
    BY <1>1, <2>1, FS_AddElement
  <2> QED
    BY <1>1, <1>2, <2>2 DEF One
<1>3. CASE b \notin Writing
  <2>1. Beats' = Beats \ {s}
    BY <1>3 DEF Beats, TypeOK
  <2>2. Cardinality(Beats') = IF s \in Beats THEN Cardinality(Beats) - 1 ELSE Cardinality(Beats)
    BY <1>1, <2>1, FS_RemoveElement
  <2> QED
    BY <1>1, <1>3, <2>2 DEF One
<1> QED
  BY <1>2, <1>3

\* A handler moves, its heartbeat at most starts or is cancelled, and used
\* follows the handler.
LEMMA CountedMove ==
  ASSUME Inv, NEW h \in Handler, NEW p, pc' = [pc EXCEPT ![h] = p], Beats' = Beats,
         used' = used + One(p \in InRedis) - One(pc[h] \in InRedis)
  PROVE  Counted' /\ used' \in Nat
<1>1. /\ Cardinality(Beats) \in Nat /\ Cardinality(Calls) \in Nat
      /\ used = Cardinality(Calls) + Cardinality(Beats)
  BY FiniteSets DEF Inv, Counted
<1>2. Cardinality(Calls') = Cardinality(Calls) + One(p \in InRedis) - One(pc[h] \in InRedis)
  BY CallsChange DEF Inv
<1>3. Cardinality(Beats') = Cardinality(Beats)
  OBVIOUS
<1>4. used' = Cardinality(Calls') + Cardinality(Beats')
  BY <1>1, <1>2, <1>3 DEF One
<1>5. Cardinality(Calls') \in Nat
  <2>1. pc[h] \in InRedis => Calls # {}
    BY DEF Calls
  <2>2. pc[h] \in InRedis => Cardinality(Calls) # 0
    BY <2>1, FiniteSets, FS_EmptySet DEF Inv
  <2> QED
    BY <1>1, <1>2, <2>2 DEF One
<1> QED
  BY <1>1, <1>3, <1>4, <1>5 DEF Counted

\* What is left to show of a step once TypeOK and Counted are.
Shape == Kinds /\ WaitersHoldNothing /\ Fresh /\ Beating /\ IdleHoldsNothing

LEMMA Grants ==
  ASSUME Inv, NEW h \in Handler, Grant(h)
  PROVE  Inv'
<1>1. /\ pc[h] = "wait" /\ pc' = [pc EXCEPT ![h] = want[h]]
      /\ want[h] \in {"auth", "frame", "seen", "work"}
      /\ holds' = holds \cup {h} /\ h \notin holds /\ Cardinality(holds) < DbLimit
      /\ UNCHANGED <<want, frames, heart, used>>
  BY DEF Grant, Go, Inv, TypeOK, WaitersHoldNothing
<1>2. TypeOK'
  <2>1. Cardinality(holds') = Cardinality(holds) + 1
    BY <1>1, FiniteSets, FS_AddElement DEF Inv
  <2>2. Cardinality(holds') <= DbLimit
    BY <1>1, <2>1, FiniteSets, PoolAssumption DEF Inv
  <2> QED
    BY <1>1, <2>2 DEF Inv, TypeOK, PC
<1>3. Shape'
  BY <1>1 DEF Inv, TypeOK, Shape, Kinds, WaitersHoldNothing, Fresh, Beating, IdleHoldsNothing, Handler
<1>4. Counted'
  <2>1. want[h] \notin InRedis /\ pc[h] \notin InRedis
    BY <1>1 DEF InRedis
  <2>2. used' = used + One(want[h] \in InRedis) - One(pc[h] \in InRedis)
    BY <1>1, <2>1 DEF One, Inv, TypeOK
  <2>3. Beats' = Beats
    BY <1>1 DEF Beats
  <2> QED
    BY <1>1, <2>2, <2>3, CountedMove
<1> QED
  BY <1>2, <1>3, <1>4 DEF Inv, Shape

\* A handler ends or is thrown back to its loop, and gives its connection back.
LEMMA TimesOut ==
  ASSUME Inv, NEW h \in Handler, TimeOut(h)
  PROVE  Inv'
<1> DEFINE p == IF want[h] = "frame" THEN "loop" ELSE "ended"
<1>1. /\ pc[h] = "wait" /\ pc' = [pc EXCEPT ![h] = p] /\ p \in {"loop", "ended"}
      /\ want[h] \in {"auth", "frame", "seen", "work"}
      /\ holds' = holds \ {h}
      /\ p = "ended" => frames' = frames
      /\ \A s \in Socket : s # h => frames'[s] = frames[s]
      /\ frames' \in [Socket -> {"none", "kept", "undone"}]
      /\ UNCHANGED <<want, heart, used>>
  BY DEF TimeOut, Undo, Quit, Release, Inv, TypeOK
<1>2. p = "loop" <=> want[h] = "frame"
  OBVIOUS
<1> HIDE DEF p
<1>3. TypeOK'
  BY <1>1, ReleaseFits DEF Inv, TypeOK, PC
<1>4. Shape'
  BY <1>1, <1>2 DEF Inv, TypeOK, Shape, Kinds, WaitersHoldNothing, Fresh, Beating, IdleHoldsNothing, Handler
<1>5. Counted'
  <2>1. p \notin InRedis /\ pc[h] \notin InRedis
    BY <1>1 DEF InRedis
  <2>2. used' = used + One(p \in InRedis) - One(pc[h] \in InRedis)
    BY <1>1, <2>1 DEF One, Inv, TypeOK
  <2>3. Beats' = Beats
    BY <1>1 DEF Beats
  <2> QED
    BY <1>1, <2>2, <2>3, CountedMove
<1> QED
  BY <1>3, <1>4, <1>5 DEF Inv, Shape

\* A handler goes to stage p, with or without giving its connection back; its
\* heartbeat neither starts nor ends a command.
Effect(h, p) ==
  /\ p \in PC /\ pc' = [pc EXCEPT ![h] = p]
  /\ holds' = holds \/ holds' = holds \ {h}
  /\ want' \in [Handler -> {"auth", "frame", "seen", "work"}]
  /\ frames' \in [Socket -> {"none", "kept", "undone"}]
  /\ heart' \in [Socket -> {"none", "sleep", "write", "cancelled", "dead"}]
  /\ Beats' = Beats
  /\ used' = used + One(p \in InRedis) - One(pc[h] \in InRedis)
  /\ used' <= RedisLimit

LEMMA EffectKeeps ==
  ASSUME Inv, NEW h \in Handler, NEW p, Effect(h, p), Shape'
  PROVE  Inv'
<1>1. Counted' /\ used' \in Nat
  BY CountedMove DEF Effect
<1>2. TypeOK'
  BY <1>1, ReleaseFits, PoolAssumption DEF Effect, Inv, TypeOK
<1> QED
  BY <1>1, <1>2 DEF Inv, Shape

LEMMA Queries ==
  ASSUME Inv, NEW s \in Socket, Open(s) \/ Frame(s) \/ Parted(s)
  PROVE  Inv'
<1>1. PICK stage \in {"auth", "frame", "seen"} :
        /\ pc' = [pc EXCEPT ![s] = IF s \in holds THEN stage ELSE "wait"]
        /\ want' = [want EXCEPT ![s] = stage]
        /\ pc[s] = IF stage = "auth" THEN "idle" ELSE IF stage = "frame" THEN "loop" ELSE "part"
        /\ UNCHANGED <<holds, frames, heart, used>>
  BY DEF Open, Frame, Parted, Query, Go, Ready
<1> DEFINE p == IF s \in holds THEN stage ELSE "wait"
<1>2. p \in {"auth", "frame", "seen", "wait"} /\ p \in PC /\ p \notin InRedis /\ pc[s] \notin InRedis
  BY <1>1 DEF InRedis, PC
<1>3. Effect(s, p)
  BY <1>1, <1>2, PoolAssumption DEF Effect, One, Beats, Inv, TypeOK, Handler
<1>4. Shape'
  BY <1>1, PoolAssumption
  DEF Inv, TypeOK, Shape, Kinds, WaitersHoldNothing, Fresh, Beating, IdleHoldsNothing, Handler
<1> QED
  BY <1>3, <1>4, EffectKeeps DEF Handler

LEMMA Opens ==
  ASSUME Inv, NEW s \in Socket, Reject(s) \/ Admit(s) \/ SetOnline(s) \/ Greet(s) \/ Greeted(s)
  PROVE  Inv'
<1> DEFINE Step(p) ==
        /\ pc' = [pc EXCEPT ![s] = p]
        /\ holds' = IF p = "ended" THEN holds \ {s} ELSE holds
        /\ \/ p = "ended" /\ pc[s] \in {"auth", "connect"}
           \/ p = "connect" /\ pc[s] = "auth"
           \/ p = "online" /\ pc[s] = "connect"
           \/ p = "greet" /\ pc[s] = "online"
           \/ p = "loop" /\ pc[s] = "greet"
        /\ heart' = IF p = "loop" THEN [heart EXCEPT ![s] = "sleep"] ELSE heart
        /\ used' = used + (IF p = "online" THEN 1 ELSE 0) - (IF p = "greet" THEN 1 ELSE 0)
        /\ used' <= RedisLimit
        /\ UNCHANGED <<want, frames>>
<1>1. PICK p \in {"ended", "connect", "online", "greet", "loop"} : Step(p)
  <2>1. used \in Nat /\ RedisLimit \in Nat /\ used <= RedisLimit
    BY PoolAssumption DEF Inv, TypeOK
  <2>2. Reject(s) => Step("ended")
    BY <2>1 DEF Reject, Quit, Release
  <2>3. Admit(s) => Step("connect")
    BY <2>1 DEF Admit, Go
  <2>4. SetOnline(s) => Step("online") \/ Step("ended")
    BY <2>1 DEF SetOnline, Quit, Release, Command, NoCommand
  <2>5. Greet(s) => Step("greet")
    BY <2>1 DEF Greet, Go, Give
  <2>6. Greeted(s) => Step("loop")
    BY <2>1 DEF Greeted, Go
  <2> QED
    BY <2>2, <2>3, <2>4, <2>5, <2>6
<1>2. Effect(s, p)
  <2>1. p = "loop" => heart[s] = "none"
    BY <1>1 DEF Inv, Fresh
  <2>2. Beats' = Beats
    BY <1>1, <2>1 DEF Beats, Inv, TypeOK
  <2> QED
    BY <1>1, <2>2 DEF Effect, One, InRedis, PC, Beats, Inv, TypeOK
<1>3. Shape'
  BY <1>1, PoolAssumption
  DEF Inv, TypeOK, Shape, Kinds, WaitersHoldNothing, Fresh, Beating, IdleHoldsNothing, Handler
<1> QED
  BY <1>2, <1>3, EffectKeeps DEF Handler

LEMMA Frames ==
  ASSUME Inv, NEW s \in Socket,
         \/ Written(s) \/ Typing(s) \/ FrameFails(s)
         \/ Commit(s) \/ LightFrame(s) \/ PublishFails(s)
  PROVE  Inv'
<1> DEFINE Begun ==
      /\ pc' = [pc EXCEPT ![s] = "publish"]
      /\ pc[s] \in {"loop", "frame"}
      /\ used' = used + 1 /\ used' <= RedisLimit
      /\ UNCHANGED <<want, holds, frames, heart>>
<1> DEFINE Done ==
      /\ pc' = [pc EXCEPT ![s] = "loop"]
      /\ pc[s] \in {"loop", "frame", "publish"}
      /\ \E f \in {"kept", "undone"} : frames' = [frames EXCEPT ![s] = f]
      /\ holds' = holds \ {s}
      /\ used' = used - (IF pc[s] = "publish" THEN 1 ELSE 0) /\ used' <= RedisLimit
      /\ UNCHANGED <<want, heart>>
<1>1. Begun \/ Done
  <2>1. used \in Nat /\ RedisLimit \in Nat /\ used <= RedisLimit
    BY PoolAssumption DEF Inv, TypeOK
  <2>2. Undo(s) => /\ pc' = [pc EXCEPT ![s] = "loop"] /\ holds' = holds \ {s}
                   /\ \E f \in {"kept", "undone"} : frames' = [frames EXCEPT ![s] = f]
    BY DEF Undo, Release
  <2>3. Publish(s) /\ pc[s] \in {"loop", "frame"} => Begun \/ Done
    BY <2>1, <2>2 DEF Publish, Command, NoCommand
  <2>4. Written(s) \/ Typing(s) => Begun \/ Done
    BY <2>3 DEF Written, Typing, Ready
  <2>5. FrameFails(s) \/ PublishFails(s) => Done
    BY <2>1, <2>2 DEF FrameFails, PublishFails, Give
  <2>6. Commit(s) => Done
    BY <2>1 DEF Commit, Go, Release, Give
  <2>7. LightFrame(s) => Done
    BY <2>1 DEF LightFrame, Ready, Release, Inv, TypeOK
  <2> QED
    BY <2>4, <2>5, <2>6, <2>7
<1>2. CASE Begun
  <2>1. Effect(s, "publish")
    BY <1>2 DEF Effect, One, InRedis, PC, Beats, Inv, TypeOK
  <2>2. Shape'
    BY <1>2, PoolAssumption
    DEF Inv, TypeOK, Shape, Kinds, WaitersHoldNothing, Fresh, Beating, IdleHoldsNothing, Handler
  <2> QED
    BY <2>1, <2>2, EffectKeeps DEF Handler
<1>3. CASE Done
  <2>1. Effect(s, "loop")
    BY <1>3 DEF Effect, One, InRedis, PC, Beats, Inv, TypeOK
  <2>2. Shape'
    BY <1>3, PoolAssumption
    DEF Inv, TypeOK, Shape, Kinds, WaitersHoldNothing, Fresh, Beating, IdleHoldsNothing, Handler
  <2> QED
    BY <2>1, <2>2, EffectKeeps DEF Handler
<1> QED
  BY <1>1, <1>2, <1>3

LEMMA Ends ==
  ASSUME Inv, NEW s \in Socket, Leave(s) \/ Part(s) \/ Seen(s) \/ PresenceFails(s)
  PROVE  Inv'
<1> DEFINE Step(p) ==
      /\ pc' = [pc EXCEPT ![s] = p]
      /\ holds' = IF p = "ended" THEN holds \ {s} ELSE holds
      /\ \/ pc[s] = "loop" /\ p \in {"offline", "ended"} /\ StopHeart(s)
         \/ pc[s] = "offline" /\ p = "part" /\ UNCHANGED heart
         \/ pc[s] \in {"seen", "online", "offline"} /\ p = "ended" /\ UNCHANGED heart
      /\ used' = used + (IF p = "offline" THEN 1 ELSE 0)
                      - (IF pc[s] \in {"online", "offline"} THEN 1 ELSE 0)
      /\ used' <= RedisLimit
      /\ UNCHANGED <<want, frames>>
<1>1. PICK p \in {"offline", "part", "ended"} : Step(p)
  <2>1. used \in Nat /\ RedisLimit \in Nat /\ used <= RedisLimit
    BY PoolAssumption DEF Inv, TypeOK
  <2>2. Leave(s) => Step("offline") \/ Step("ended")
    BY <2>1 DEF Leave, Quit, Release, Command, NoCommand
  <2>3. Part(s) => Step("part")
    BY <2>1 DEF Part, Go, Give
  <2>4. Seen(s) \/ PresenceFails(s) => Step("ended")
    BY <2>1 DEF Seen, PresenceFails, Quit, Release, Give
  <2> QED
    BY <2>2, <2>3, <2>4
<1>2. /\ heart' \in [Socket -> {"none", "sleep", "write", "cancelled", "dead"}]
      /\ Beats' = Beats
      /\ pc[s] = "loop" => heart'[s] \in {"none", "cancelled"}
      /\ \A t \in Socket \ {s} : heart'[t] = heart[t]
      /\ pc[s] # "loop" => heart' = heart
  <2>1. CASE StopHeart(s) /\ pc[s] = "loop"
    <3>1. heart'[s] = IF heart[s] = "write" THEN "cancelled" ELSE "none"
      BY <2>1 DEF StopHeart, Inv, TypeOK
    <3>2. heart[s] # "cancelled"
      BY <2>1 DEF Inv, Beating
    <3> QED
      BY <2>1, <3>1, <3>2 DEF StopHeart, Beats, Inv, TypeOK
  <2>2. CASE UNCHANGED heart /\ pc[s] # "loop"
    BY <2>2 DEF Beats, Inv, TypeOK
  <2> QED
    BY <1>1, <2>1, <2>2
<1>3. Effect(s, p)
  BY <1>1, <1>2 DEF Effect, One, InRedis, PC, Inv, TypeOK
<1>4. Shape'
  BY <1>1, <1>2, PoolAssumption
  DEF Inv, TypeOK, Shape, Kinds, WaitersHoldNothing, Fresh, Beating, IdleHoldsNothing, Handler
<1> QED
  BY <1>3, <1>4, EffectKeeps DEF Handler

LEMMA Requests ==
  ASSUME Inv, NEW q \in Request,
         Receive(q) \/ CommitAndRead(q) \/ GetOnline(q) \/ Answer(q)
  PROVE  Inv'
<1> DEFINE Step(p) ==
      /\ pc' = [pc EXCEPT ![q] = p]
      /\ \/ p \in {"work", "wait"} /\ pc[q] = "idle" /\ holds' = holds /\ (p = "wait" => q \notin holds)
         \/ p = "wait" /\ pc[q] = "work" /\ holds' = holds \ {q}
         \/ p = "keys" /\ pc[q] = "work" /\ holds' = holds
         \/ p = "ended" /\ pc[q] \in {"work", "keys"} /\ holds' = holds \ {q}
      /\ used' = used + (IF p = "keys" THEN 1 ELSE 0) - (IF pc[q] = "keys" THEN 1 ELSE 0)
      /\ used' <= RedisLimit
      /\ want' = want \/ want' = [want EXCEPT ![q] = "work"]
      /\ UNCHANGED <<frames, heart>>
<1>1. PICK p \in {"work", "wait", "keys", "ended"} : Step(p)
  <2>1. used \in Nat /\ RedisLimit \in Nat /\ used <= RedisLimit
    BY PoolAssumption DEF Inv, TypeOK
  <2>2. Receive(q) => IF q \in holds THEN Step("work") ELSE Step("wait")
    BY <2>1 DEF Receive, Query, Go
  <2>3. CommitAndRead(q) => Step("wait")
    BY <2>1 DEF CommitAndRead, Go, Release
  <2>4. GetOnline(q) => Step("keys") \/ Step("ended")
    BY <2>1 DEF GetOnline, Quit, Release, Command, NoCommand
  <2>5. Answer(q) => Step("ended")
    BY <2>1 DEF Answer, Quit, Release, Give
  <2> QED
    BY <2>2, <2>3, <2>4, <2>5
<1>2. Effect(q, p)
  BY <1>1 DEF Effect, One, InRedis, PC, Beats, Inv, TypeOK
<1>3. Shape'
  BY <1>1, PoolAssumption
  DEF Inv, TypeOK, Shape, Kinds, WaitersHoldNothing, Fresh, Beating, IdleHoldsNothing, Handler
<1> QED
  BY <1>2, <1>3, EffectKeeps DEF Handler

LEMMA Pulses ==
  ASSUME Inv, NEW s \in Socket, Wake(s) \/ Beat(s) \/ Cancelled(s)
  PROVE  Inv'
<1> DEFINE Step(b, d) ==
      /\ heart' = [heart EXCEPT ![s] = b]
      /\ \/ heart[s] = "sleep" /\ b \in {"write", "dead"} /\ d = One(b = "write")
         \/ heart[s] = "write" /\ b \in {"sleep", "dead"} /\ d = -1
         \/ heart[s] = "cancelled" /\ b = "none" /\ d = -1
      /\ used' = used + d /\ used' <= RedisLimit
      /\ UNCHANGED <<pc, want, holds, frames>>
<1>1. PICK b \in {"none", "sleep", "write", "dead"}, d \in {-1, 0, 1} : Step(b, d)
  <2>1. used \in Nat /\ RedisLimit \in Nat /\ used <= RedisLimit
    BY PoolAssumption DEF Inv, TypeOK
  <2>2. Wake(s) => Step("write", 1) \/ Step("dead", 0)
    BY <2>1 DEF Wake, NoCommand, One
  <2>3. Beat(s) => Step("sleep", -1) \/ Step("dead", -1)
    BY <2>1 DEF Beat, Give
  <2>4. Cancelled(s) => Step("none", -1)
    BY <2>1 DEF Cancelled, Give
  <2> QED
    BY <2>2, <2>3, <2>4
<1>2. Counted' /\ used' \in Nat
  <2>1. /\ Cardinality(Beats) \in Nat /\ Cardinality(Calls) \in Nat
        /\ used = Cardinality(Calls) + Cardinality(Beats)
    BY FiniteSets DEF Inv, Counted
  <2>2. Cardinality(Beats') = Cardinality(Beats) + d
    <3>1. Cardinality(Beats') = Cardinality(Beats) + One(b \in {"write", "cancelled"})
                                  - One(heart[s] \in {"write", "cancelled"})
      BY <1>1, BeatsChange DEF Inv
    <3> QED
      BY <1>1, <2>1, <3>1 DEF One
  <2>3. Calls' = Calls
    BY <1>1 DEF Calls
  <2>4. Counted'
    BY <1>1, <2>1, <2>2, <2>3 DEF Counted
  <2>5. d = -1 => Beats # {}
    BY <1>1 DEF Beats, One
  <2>6. d = -1 => Cardinality(Beats) # 0
    BY <2>5, FiniteSets, FS_EmptySet DEF Inv
  <2>7. used' \in Nat
    BY <1>1, <2>1, <2>6
  <2> QED
    BY <2>4, <2>7
<1>3. TypeOK'
  BY <1>1, <1>2, PoolAssumption DEF Inv, TypeOK
<1>4. Shape'
  BY <1>1 DEF Inv, TypeOK, Shape, Kinds, WaitersHoldNothing, Fresh, Beating, IdleHoldsNothing, Handler
<1> QED
  BY <1>2, <1>3, <1>4 DEF Inv, Shape

LEMMA InvStep == Inv /\ [Next]_vars => Inv'
<1> SUFFICES ASSUME Inv, [Next]_vars PROVE Inv'
  OBVIOUS
<1>1. CASE UNCHANGED vars
  BY <1>1 DEF vars, Inv, TypeOK, Kinds, WaitersHoldNothing, Fresh, Beating, IdleHoldsNothing,
              Counted, Calls, Beats
<1>2. ASSUME NEW h \in Handler, Grant(h) \/ TimeOut(h) PROVE Inv'
  BY <1>2, Grants, TimesOut
<1>3. ASSUME NEW s \in Socket,
             \/ Open(s) \/ SetOnline(s) \/ Greeted(s)
             \/ Frame(s) \/ Typing(s) \/ LightFrame(s) \/ Leave(s) \/ Parted(s)
             \/ Serve(s) \/ Pulse(s)
      PROVE  Inv'
  BY <1>3, Queries, Opens, Frames, Ends, Pulses DEF Serve, Pulse
<1>4. ASSUME NEW q \in Request, Receive(q) \/ Process(q) PROVE Inv'
  BY <1>4, Requests DEF Process
<1> QED
  BY <1>1, <1>2, <1>3, <1>4 DEF Next

LEMMA InvAlways == Spec => []Inv
BY InvInit, InvStep, PTL DEF Spec

-----------------------------------------------------------------------------
(* Types, and that neither pool is ever larger than its limit.              *)
THEOREM PoolsTyped == Spec => []TypeOK
<1>1. Inv => TypeOK
  BY DEF Inv
<1> QED
  BY <1>1, InvAlways, PTL

(* Nobody holds one database connection while waiting for another: a        *)
(* circular wait for the pool is impossible.                                *)
THEOREM NoHoldAndWait == Spec => []WaitersHoldNothing
<1>1. Inv => WaitersHoldNothing
  BY DEF Inv
<1> QED
  BY <1>1, InvAlways, PTL

(* A WebSocket in its loop keeps no database connection between frames,     *)
(* however its first frame and the later ones ended.                        *)
THEOREM IdleSocketsHoldNothing == Spec => []IdleHoldsNothing
<1>1. Inv => IdleHoldsNothing
  BY DEF Inv
<1> QED
  BY <1>1, InvAlways, PTL

(* Redis connections are not lost: when a command is refused, as many       *)
(* handlers run as it takes to use all of them.                             *)
THEOREM RedisRefusesUnderLoad == Spec => []RefusedUnderLoadOnly
<1>1. ASSUME Inv
      PROVE  used <= 2 * Cardinality(Busy) + Cardinality(Asking)
  <2>1. \A S \in SUBSET Handler : IsFiniteSet(S) /\ Cardinality(S) \in Nat
    BY PoolAssumption, FS_Subset, FS_CardinalityType
  <2>2. Beats \in SUBSET Busy /\ Calls \in SUBSET (Busy \cup Asking)
    BY <1>1 DEF Inv, TypeOK, Kinds, Beating, Fresh, Beats, Calls, Busy, Asking, Handler, InRedis, PC
  <2>3. /\ Busy \in SUBSET Handler /\ Asking \in SUBSET Handler
        /\ Busy \cup Asking \in SUBSET Handler /\ Busy \cap Asking \in SUBSET Handler
    BY DEF Busy, Asking, Handler
  <2>4. Cardinality(Beats) <= Cardinality(Busy)
    BY <2>1, <2>2, <2>3, FS_Subset
  <2>5. Cardinality(Calls) <= Cardinality(Busy \cup Asking)
    BY <2>1, <2>2, <2>3, FS_Subset
  <2>6. Cardinality(Busy \cup Asking) <= Cardinality(Busy) + Cardinality(Asking)
    <3>1. Cardinality(Busy \cup Asking)
            = Cardinality(Busy) + Cardinality(Asking) - Cardinality(Busy \cap Asking)
      BY <2>1, <2>3, FS_Union
    <3> QED
      BY <2>1, <2>3, <3>1
  <2>7. used = Cardinality(Calls) + Cardinality(Beats)
    BY <1>1 DEF Inv, Counted
  <2>8. Cardinality(Calls) \in Nat /\ Cardinality(Beats) \in Nat
    BY <1>1, FiniteSets DEF Inv
  <2> QED
    BY <2>1, <2>3, <2>4, <2>5, <2>6, <2>7, <2>8
<1>2. Inv => RefusedUnderLoadOnly
  BY <1>1 DEF RefusedUnderLoadOnly
<1> QED
  BY <1>2, InvAlways, PTL
=============================================================================
