-------------------------- MODULE ChatSessionProofs --------------------------
(* Theorems about the message history, for any sessions, users, messages    *)
(* and failures.                                                            *)
EXTENDS ChatSession, TLAPS

Sending == {"send", "inserted", "sent"}

\* A draft or pending row belongs to a session in the middle of
\* chat_message, which has no other; once flushed it has the date of the
\* session's transaction, and it is on the channel before the commit.
RowOpen(m) ==
  /\ author[m] \in Session
  /\ pc[author[m]] \in Sending
  /\ tx[author[m]] # 0
  /\ row[m] = "pending" => at[m] = tx[author[m]]
  /\ pc[author[m]] = "sent" => m \in published
  /\ pc[author[m]] = "send" <=> row[m] = "draft"
  /\ \A n \in Msg : Mine(n, author[m]) => n = m

OpenRows == \A m \in Msg : row[m] \in {"draft", "pending"} => RowOpen(m)

\* What is on the channel was sent; what a session saw was on the channel.
Channel ==
  /\ \A m \in published : row[m] \notin {"none", "draft"}
  /\ \A m \in Msg : seen[m] \subseteq published

\* A transaction that is open between frames dates from before the
\* session's first message.
FirstOnly ==
  \A s \in Session :
    /\ pc[s] = "off" \/ (pc[s] = "loop" /\ tx[s] # 0) => \A m \in Msg : author[m] # s
    /\ tx[s] <= clock

\* A session's earlier messages are settled, and a later one is dated after
\* all it could see.
OwnSettled ==
  \A m \in Msg : \A k \in seen[m] :
    author[k] = author[m] => row[k] \in {"committed", "gone"}

DateOf(m) == IF row[m] = "draft" THEN tx[author[m]] ELSE at[m]

FollowUp(m) == \E k \in seen[m] : author[k] = author[m] /\ row[k] = "committed"

Dated ==
  \A m \in Msg :
    /\ at[m] <= clock
    /\ row[m] \in {"draft", "pending", "committed"} /\ FollowUp(m)
         => \A k \in seen[m] : at[k] < DateOf(m)

HistoryInv == OpenRows /\ Channel /\ FirstOnly /\ OwnSettled /\ Dated /\ CommittedPublished

LEMMA InitInv == Init => TypeOK /\ HistoryInv
BY ChatAssumption
DEF Init, HistoryInv, TypeOK, PC, NoIds, OpenRows, RowOpen, Channel, FirstOnly, OwnSettled, Dated,
    CommittedPublished

\* A statement that opens a transaction dates it after everything so far.
LEMMA QueryEffect ==
  ASSUME TypeOK, NEW s \in Session, Query(s)
  PROVE  /\ tx' \in [Session -> 0 .. MaxTime] /\ clock' \in 0 .. MaxTime
         /\ clock <= clock'
         /\ tx[s] = 0 => tx' = [tx EXCEPT ![s] = clock + 1] /\ clock' = clock + 1
         /\ tx[s] # 0 => UNCHANGED <<tx, clock>>
<1>1. CASE tx[s] # 0
  BY <1>1, ChatAssumption DEF TypeOK, Query
<1>2. CASE tx[s] = 0
  <2>1. clock < MaxTime /\ clock' = clock + 1 /\ tx' = [tx EXCEPT ![s] = clock + 1]
    BY <1>2 DEF Query
  <2>2. clock \in Nat /\ MaxTime \in Nat
    BY ChatAssumption DEF TypeOK
  <2>3. clock + 1 \in 0 .. MaxTime /\ clock <= clock + 1
    BY <2>1, <2>2
  <2>4. tx' \in [Session -> 0 .. MaxTime]
    BY <2>1, <2>3 DEF TypeOK
  <2> QED
    BY <1>2, <2>1, <2>3, <2>4
<1> QED
  BY <1>1, <1>2

LEMMA TypeStep == TypeOK /\ [Next]_vars => TypeOK'
<1> SUFFICES ASSUME TypeOK, [Next]_vars PROVE TypeOK'
  OBVIOUS
<1>0. NoIds \in [Msg -> Nat] /\ 0 \in 0 .. MaxTime
  BY ChatAssumption DEF NoIds
<1> USE ChatAssumption, <1>0 DEF TypeOK, PC, msgVars, Go
<1>1. CASE UNCHANGED vars
  BY <1>1 DEF vars, sessVars
<1>2. ASSUME NEW s \in Session, Fail(s)
      PROVE  TypeOK'
  BY <1>2 DEF Fail, Discard
<1>3. ASSUME NEW s \in Session, Connect(s)
      PROVE  TypeOK'
  BY <1>3, QueryEffect DEF Connect
<1>4. ASSUME NEW s \in Session, NEW m \in Msg, ChatFrame(s, m)
      PROVE  TypeOK'
  BY <1>4, QueryEffect DEF ChatFrame
<1>5. ASSUME NEW s \in Session, NEW b \in Batch, MarkFrame(s, b)
      PROVE  TypeOK'
  <2>1. b \in [Msg -> Nat]
    OBVIOUS
  <2> QED
    BY <1>5, <2>1, QueryEffect DEF MarkFrame
<1>6. ASSUME NEW s \in Session, Refused(s)
      PROVE  TypeOK'
  <2>1. clock' \in 0 .. MaxTime
    BY <1>6 DEF Refused
  <2> QED
    BY <1>6, <2>1 DEF Refused
<1>7. ASSUME NEW s \in Session, LightFrame(s) \/ Disconnect(s) \/ PublishRead(s)
      PROVE  TypeOK'
  <2>1. CASE LightFrame(s)
    BY <2>1 DEF LightFrame
  <2>2. CASE Disconnect(s)
    BY <2>2 DEF Disconnect
  <2>3. CASE PublishRead(s)
    BY <2>3 DEF PublishRead
  <2> QED
    BY <1>7, <2>1, <2>2, <2>3
<1>8. ASSUME NEW s \in Session, Insert(s) \/ Publish(s) \/ Commit(s)
      PROVE  TypeOK'
  <2>1. CASE Insert(s)
    BY <2>1 DEF Insert
  <2>2. CASE Publish(s)
    BY <2>2 DEF Publish
  <2>3. CASE Commit(s)
    BY <2>3 DEF Commit
  <2> QED
    BY <1>8, <2>1, <2>2, <2>3
<1>9. ASSUME NEW s \in Session, Lookup(s)
      PROVE  TypeOK'
  <2>1. [m \in Msg |-> IF receipts[m][UserOf[s]] = 0 THEN ids[s][m] ELSE 0] \in [Msg -> Nat]
    OBVIOUS
  <2> QED
    BY <1>9, <2>1 DEF Lookup
<1>10. ASSUME NEW s \in Session, InsertReceipts(s)
      PROVE  TypeOK'
  BY <1>2, <1>10 DEF InsertReceipts
<1>11. ASSUME NEW s \in Session, CommitRead(s)
       PROVE  TypeOK'
  <2>1. receipts' \in [Msg -> [User -> Nat]]
    BY <1>11 DEF CommitRead
  <2> QED
    BY <1>11, <2>1 DEF CommitRead
<1>12. ASSUME NEW s \in Session, TypingFails(s) \/ CallFails(s)
       PROVE  TypeOK'
  BY <1>2, <1>12 DEF TypingFails, CallFails
<1>13. ASSUME NEW s \in Session, Crash(s)
       PROVE  TypeOK'
  BY <1>13 DEF Crash, Discard
<1>14. ASSUME NEW u \in User, JoinRoom(u) \/ LeaveRoom(u)
       PROVE  TypeOK'
  BY <1>14 DEF JoinRoom, LeaveRoom, sessVars
<1> QED
  BY <1>1, <1>3, <1>4, <1>5, <1>6, <1>7, <1>8, <1>9, <1>10, <1>11, <1>12, <1>13, <1>14
  DEF Next, SessionStep

-----------------------------------------------------------------------------
(* One lemma per kind of step.                                              *)

\* Only session s moves, and not within chat_message.
Aside(s) ==
  /\ pc[s] \notin Sending /\ pc'[s] \notin Sending
  /\ \A t \in Session \ {s} : pc'[t] = pc[t] /\ tx'[t] = tx[t]
  /\ UNCHANGED <<msgVars, published>>
  /\ clock <= clock' /\ tx'[s] <= clock'
  /\ pc'[s] = "off" \/ (pc'[s] = "loop" /\ tx'[s] # 0) => \A m \in Msg : author[m] # s

LEMMA AsideKeeps ==
  ASSUME TypeOK, TypeOK', HistoryInv, NEW s \in Session, Aside(s)
  PROVE  HistoryInv'
<1> USE DEF HistoryInv, Aside, msgVars
<1>1. OpenRows'
  BY DEF OpenRows, RowOpen, Mine
<1>2. Channel' /\ OwnSettled' /\ CommittedPublished'
  BY DEF Channel, OwnSettled, CommittedPublished
<1>3. FirstOnly'
  <2>1. ASSUME NEW t \in Session PROVE tx'[t] <= clock'
    <3>1. tx[t] <= clock /\ (t # s => tx'[t] = tx[t])
      BY DEF FirstOnly
    <3>2. tx[t] \in Nat /\ clock \in Nat /\ clock' \in Nat
      BY ChatAssumption DEF TypeOK
    <3> QED
      BY <3>1, <3>2
  <2>2. \A t \in Session : pc'[t] = "off" \/ (pc'[t] = "loop" /\ tx'[t] # 0)
                             => \A m \in Msg : author'[m] # t
    BY DEF FirstOnly
  <2> QED
    BY <2>1, <2>2 DEF FirstOnly
<1>4. Dated'
  <2>1. \A m \in Msg : at[m] <= clock'
    BY DEF Dated, TypeOK
  <2>2. \A m \in Msg : row[m] = "draft" => DateOf(m)' = DateOf(m)
    BY DEF DateOf, OpenRows, RowOpen
  <2>3. \A m \in Msg : row[m] # "draft" => DateOf(m)' = DateOf(m)
    BY DEF DateOf
  <2> QED
    BY <2>1, <2>2, <2>3 DEF Dated, FollowUp
<1> QED
  BY <1>1, <1>2, <1>3, <1>4

LEMMA AsideSteps ==
  ASSUME TypeOK, HistoryInv, NEW s \in Session,
         \/ Connect(s) \/ Refused(s) \/ Lookup(s) \/ PublishRead(s) \/ CommitRead(s)
         \/ LightFrame(s) \/ Disconnect(s)
         \/ \E b \in Batch : MarkFrame(s, b)
  PROVE  Aside(s)
<1> USE ChatAssumption DEF Aside, TypeOK, HistoryInv, FirstOnly, Sending, Go, msgVars
<1>1. CASE Connect(s) \/ \E b \in Batch : MarkFrame(s, b)
  <2>1. PICK b \in Batch \cup {NoIds} : Connect(s) \/ MarkFrame(s, b)
    BY <1>1
  <2>2. Query(s)
    BY <2>1 DEF Connect, MarkFrame
  <2>3. clock <= clock' /\ tx'[s] <= clock'
    <3>1. /\ tx[s] \in Nat /\ clock \in Nat /\ clock' \in Nat /\ tx[s] <= clock
          /\ tx[s] = 0 => tx'[s] = clock + 1 /\ clock' = clock + 1
          /\ tx[s] # 0 => tx'[s] = tx[s] /\ clock' = clock
      BY <2>2, QueryEffect
    <3> HIDE DEF TypeOK, HistoryInv
    <3> QED
      BY <3>1
  <2>4. \A t \in Session \ {s} : tx'[t] = tx[t]
    <3>1. tx' = tx \/ tx' = [tx EXCEPT ![s] = clock + 1]
      BY <2>2 DEF Query
    <3> QED
      BY <3>1
  <2>5. UNCHANGED <<msgVars, published>> /\ \A t \in Session \ {s} : pc'[t] = pc[t]
    BY <2>1 DEF Connect, MarkFrame
  <2>6. /\ pc[s] \notin Sending /\ pc'[s] \notin Sending
        /\ pc'[s] = "off" \/ pc'[s] = "loop" => pc[s] = "off"
    BY <2>1 DEF Connect, MarkFrame, Ready
  <2> QED
    BY <2>3, <2>4, <2>5, <2>6
<1>2. CASE Refused(s)
  BY <1>2 DEF Refused, Ready
<1>3. CASE Lookup(s) \/ PublishRead(s) \/ CommitRead(s)
  BY <1>3 DEF Lookup, PublishRead, CommitRead
<1>4. CASE LightFrame(s) \/ Disconnect(s)
  BY <1>4 DEF LightFrame, Disconnect, Ready
<1> QED
  BY <1>1, <1>2, <1>3, <1>4

\* A rollback, by the loop or by PostgreSQL when the process died.
LEMMA DiscardKeeps ==
  ASSUME TypeOK, HistoryInv, NEW s \in Session, Discard(s),
         UNCHANGED <<author, at, seen, published, clock>>,
         tx' = [tx EXCEPT ![s] = 0],
         pc[s] # "off", NEW p \in {"loop", "ended"}, pc' = [pc EXCEPT ![s] = p]
  PROVE  HistoryInv'
<1> USE DEF HistoryInv, TypeOK, Discard
<1>1. \A m \in Msg : \/ row'[m] = row[m] /\ (row[m] \in {"draft", "pending"} => author[m] # s)
                     \/ row'[m] = "gone" /\ row[m] \in {"draft", "pending"}
  OBVIOUS
<1>2. OpenRows'
  BY <1>1 DEF OpenRows, RowOpen, Mine
<1>3. Channel' /\ OwnSettled' /\ CommittedPublished'
  BY <1>1 DEF Channel, OwnSettled, CommittedPublished
<1>4. FirstOnly'
  BY ChatAssumption DEF FirstOnly
<1>5. Dated'
  <2>1. ASSUME NEW m \in Msg, row'[m] \in {"draft", "pending", "committed"}
        PROVE  row'[m] = row[m] /\ DateOf(m)' = DateOf(m)
    BY <1>1, <2>1 DEF DateOf, OpenRows, RowOpen
  <2>2. \A m \in Msg : FollowUp(m)' => FollowUp(m)
    BY <1>1 DEF FollowUp
  <2> QED
    BY <2>1, <2>2 DEF Dated
<1> QED
  BY <1>2, <1>3, <1>4, <1>5

LEMMA ChatFrameKeeps ==
  ASSUME TypeOK, TypeOK', HistoryInv, NEW s \in Session, NEW m \in Msg, ChatFrame(s, m)
  PROVE  HistoryInv'
<1> USE ChatAssumption DEF HistoryInv
<1>1. /\ pc[s] = "loop" /\ pc' = [pc EXCEPT ![s] = "send"]
      /\ row[m] = "none" /\ row' = [row EXCEPT ![m] = "draft"]
      /\ author' = [author EXCEPT ![m] = s] /\ seen' = [seen EXCEPT ![m] = published]
      /\ UNCHANGED <<at, published>>
  BY DEF ChatFrame, Ready, Go
<1>2. /\ clock \in Nat /\ clock' \in Nat /\ clock <= clock'
      /\ \A t \in Session \ {s} : tx'[t] = tx[t]
      /\ tx'[s] # 0 /\ tx'[s] <= clock'
      /\ tx[s] = 0 => tx'[s] = clock + 1
      /\ tx[s] # 0 => tx'[s] = tx[s]
  BY QueryEffect DEF ChatFrame, TypeOK, FirstOnly
\* Neither is m on the channel, nor is s sending anything yet.
<1>3. m \notin published /\ \A k \in Msg : m \notin seen[k]
  BY <1>1 DEF Channel
<1>4. \A n \in Msg : ~Mine(n, s)
  BY <1>1 DEF OpenRows, RowOpen, Mine, Sending
<1>5. OpenRows'
  <2> SUFFICES ASSUME NEW n \in Msg, row'[n] \in {"draft", "pending"}
               PROVE  RowOpen(n)'
    BY DEF OpenRows, RowOpen
  <2>1. CASE n = m
    BY <1>1, <1>2, <1>4, <2>1 DEF TypeOK, Mine, Sending, RowOpen
  <2>2. CASE n # m
    BY <1>1, <1>2, <1>4, <2>2 DEF TypeOK, Mine, OpenRows, RowOpen
  <2> QED
    BY <2>1, <2>2
<1>6. Channel' /\ OwnSettled' /\ CommittedPublished'
  <2>1. \A k \in published : author[k] = s => row[k] \in {"committed", "gone"}
    BY <1>4, <1>1 DEF Channel, Mine, TypeOK
  <2> QED
    BY <1>1, <1>3, <2>1 DEF Channel, OwnSettled, CommittedPublished, TypeOK
<1>7. FirstOnly'
  BY <1>1, <1>2 DEF FirstOnly, TypeOK
<1>8. Dated'
  <2>1. \A n \in Msg : at[n] <= clock'
    BY <1>2 DEF Dated, TypeOK
  <2>2. ASSUME NEW n \in Msg, n # m
        PROVE  /\ FollowUp(n)' => FollowUp(n)
               /\ row[n] \in {"draft", "pending", "committed"} => DateOf(n)' = DateOf(n)
    <3>1. FollowUp(n)' => FollowUp(n)
      BY <1>1, <1>3, <2>2 DEF FollowUp, TypeOK
    <3>2. ASSUME row[n] = "draft" PROVE tx'[author'[n]] = tx[author[n]]
      BY <1>1, <1>2, <1>4, <2>2, <3>2 DEF OpenRows, RowOpen, Mine, TypeOK
    <3> QED
      BY <1>1, <2>2, <3>1, <3>2 DEF DateOf, TypeOK
  <2>3. ASSUME FollowUp(m)'
        PROVE  \A k \in published : at[k] < tx'[s]
    <3>1. \E k \in Msg : author[k] = s
      BY <1>1, <1>3, <2>3 DEF FollowUp, TypeOK
    <3>2. tx'[s] = clock + 1
      BY <1>1, <1>2, <3>1 DEF FirstOnly
    <3> QED
      BY <1>2, <3>2 DEF Dated, TypeOK
  <2>4. row'[m] = "draft" /\ author'[m] = s /\ seen'[m] = published
    BY <1>1 DEF TypeOK
  <2> QED
    BY <1>1, <2>1, <2>2, <2>3, <2>4 DEF Dated, DateOf, TypeOK
<1> QED
  BY <1>5, <1>6, <1>7, <1>8

LEMMA InsertKeeps ==
  ASSUME TypeOK, HistoryInv, NEW s \in Session, Insert(s)
  PROVE  HistoryInv'
<1> USE ChatAssumption DEF HistoryInv, TypeOK
<1>1. PICK m \in Msg : /\ Mine(m, s)
                       /\ row' = [row EXCEPT ![m] = "pending"]
                       /\ at' = [at EXCEPT ![m] = tx[s]]
  BY DEF Insert
<1>2. /\ pc[s] = "send" /\ pc' = [pc EXCEPT ![s] = "inserted"]
      /\ UNCHANGED <<tx, author, seen, published, clock>>
  BY DEF Insert, Go
<1>3. row[m] = "draft" /\ author[m] = s
  BY <1>1, <1>2 DEF Mine, OpenRows, RowOpen
<1>4. m \notin published /\ \A k \in Msg : m \notin seen[k]
  BY <1>3 DEF Channel
<1>5. OpenRows'
  <2>1. \A n \in Msg : n # m /\ row[n] \in {"draft", "pending"} => author[n] # s
    BY <1>1, <1>3 DEF OpenRows, RowOpen, Mine
  <2>2. RowOpen(m)'
    BY <1>1, <1>2, <1>3, <2>1 DEF OpenRows, RowOpen, Mine, Sending
  <2>3. ASSUME NEW n \in Msg, n # m, row'[n] \in {"draft", "pending"}
        PROVE  RowOpen(n)'
    BY <1>1, <1>2, <2>1, <2>3 DEF OpenRows, RowOpen, Mine
  <2> QED
    BY <2>2, <2>3 DEF OpenRows
<1>6. Channel' /\ OwnSettled' /\ CommittedPublished'
  BY <1>1, <1>2, <1>4 DEF Channel, OwnSettled, CommittedPublished
<1>7. FirstOnly'
  BY <1>2 DEF FirstOnly
<1>8. Dated'
  <2>1. \A n \in Msg : at'[n] <= clock'
    BY <1>1, <1>2 DEF Dated, FirstOnly
  <2>2. \A n \in Msg : \A k \in seen[n] : at'[k] = at[k] /\ row'[k] = row[k]
    BY <1>1, <1>4
  <2>3. \A n \in Msg : DateOf(n)' = DateOf(n)
    BY <1>1, <1>2, <1>3 DEF DateOf
  <2>4. \A n \in Msg : FollowUp(n)' <=> FollowUp(n)
    BY <1>2, <2>2 DEF FollowUp
  <2>5. \A n \in Msg : row'[n] \in {"draft", "pending", "committed"}
                       => row[n] \in {"draft", "pending", "committed"}
    BY <1>1, <1>3
  <2>6. ASSUME NEW n \in Msg, row'[n] \in {"draft", "pending", "committed"}, FollowUp(n)',
               NEW k \in seen[n]
        PROVE  at'[k] < DateOf(n)'
    <3>1. at[k] < DateOf(n)
      BY <2>4, <2>5, <2>6 DEF Dated
    <3> QED
      BY <2>2, <2>3, <3>1
  <2> QED
    BY <1>2, <2>1, <2>6 DEF Dated
<1> QED
  BY <1>5, <1>6, <1>7, <1>8

LEMMA PublishKeeps ==
  ASSUME TypeOK, HistoryInv, NEW s \in Session, Publish(s)
  PROVE  HistoryInv'
<1> USE ChatAssumption DEF HistoryInv, TypeOK
<1>1. PICK m \in Msg : Mine(m, s) /\ published' = published \cup {m}
  BY DEF Publish
<1>2. /\ pc[s] = "inserted" /\ pc' = [pc EXCEPT ![s] = "sent"]
      /\ UNCHANGED <<tx, row, author, at, seen, clock>>
  BY DEF Publish, Go, msgVars
<1>3. row[m] = "pending" /\ author[m] = s
  BY <1>1, <1>2 DEF Mine, OpenRows, RowOpen
<1>4. OpenRows'
  BY <1>1, <1>2, <1>3 DEF OpenRows, RowOpen, Mine, Sending
<1>5. Channel' /\ OwnSettled' /\ CommittedPublished' /\ FirstOnly'
  BY <1>1, <1>2, <1>3 DEF Channel, OwnSettled, CommittedPublished, FirstOnly
<1>6. Dated'
  BY <1>2 DEF Dated, DateOf, FollowUp
<1> QED
  BY <1>4, <1>5, <1>6

LEMMA CommitKeeps ==
  ASSUME TypeOK, HistoryInv, NEW s \in Session, Commit(s)
  PROVE  HistoryInv'
<1> USE ChatAssumption DEF HistoryInv, TypeOK
<1>1. PICK m \in Msg : Mine(m, s) /\ row' = [row EXCEPT ![m] = "committed"]
  BY DEF Commit
<1>2. /\ pc[s] = "sent" /\ pc' = [pc EXCEPT ![s] = "loop"] /\ tx' = [tx EXCEPT ![s] = 0]
      /\ UNCHANGED <<author, at, seen, published, clock>>
  BY DEF Commit, Go
<1>3. row[m] = "pending" /\ author[m] = s /\ m \in published
  BY <1>1, <1>2 DEF Mine, OpenRows, RowOpen
\* m is the only open row of s, and no message of s has seen it.
<1>4. \A n \in Msg : n # m /\ row[n] \in {"draft", "pending"} => author[n] # s
  BY <1>1, <1>3 DEF OpenRows, RowOpen, Mine
<1>5. \A n \in Msg : m \in seen[n] => author[n] # s
  BY <1>3 DEF OwnSettled
<1>6. OpenRows'
  BY <1>1, <1>2, <1>4 DEF OpenRows, RowOpen, Mine
<1>7. Channel' /\ OwnSettled' /\ CommittedPublished'
  BY <1>1, <1>2, <1>3 DEF Channel, OwnSettled, CommittedPublished
<1>8. FirstOnly'
  BY <1>2 DEF FirstOnly
<1>9. Dated'
  <2>1. \A n \in Msg : FollowUp(n)' => FollowUp(n)
    BY <1>1, <1>2, <1>3, <1>5 DEF FollowUp
  <2>2. \A n \in Msg : row'[n] \in {"draft", "pending", "committed"} => DateOf(n)' = DateOf(n)
    BY <1>1, <1>2, <1>3, <1>4 DEF DateOf
  <2> QED
    BY <1>1, <1>2, <1>3, <2>1, <2>2 DEF Dated
<1> QED
  BY <1>6, <1>7, <1>8, <1>9

-----------------------------------------------------------------------------
LEMMA HistoryStep == TypeOK /\ HistoryInv /\ [Next]_vars => HistoryInv'
<1> SUFFICES ASSUME TypeOK, HistoryInv, [Next]_vars PROVE HistoryInv'
  OBVIOUS
<1>0. TypeOK'
  BY TypeStep
<1>1. CASE UNCHANGED <<pc, tx, msgVars, published, clock>>
  BY <1>1 DEF HistoryInv, OpenRows, RowOpen, Channel, FirstOnly, OwnSettled, Dated, DateOf,
              FollowUp, CommittedPublished, Mine, msgVars
<1>2. ASSUME NEW u \in User, JoinRoom(u) \/ LeaveRoom(u)
      PROVE  HistoryInv'
  BY <1>1, <1>2 DEF JoinRoom, LeaveRoom, sessVars
<1>3. ASSUME NEW s \in Session, NEW m \in Msg, ChatFrame(s, m)
      PROVE  HistoryInv'
  BY <1>0, <1>3, ChatFrameKeeps
<1>4. ASSUME NEW s \in Session, Insert(s) \/ Publish(s) \/ Commit(s)
      PROVE  HistoryInv'
  BY <1>4, InsertKeeps, PublishKeeps, CommitKeeps
<1>5. ASSUME NEW s \in Session, Fail(s), pc[s] # "off"
      PROVE  HistoryInv'
  BY <1>5, DiscardKeeps DEF Fail
<1>6. ASSUME NEW s \in Session, Crash(s)
      PROVE  HistoryInv'
  BY <1>6, DiscardKeeps DEF Crash
<1>7. ASSUME NEW s \in Session,
             \/ Connect(s) \/ Refused(s) \/ Lookup(s) \/ PublishRead(s) \/ CommitRead(s)
             \/ LightFrame(s) \/ Disconnect(s)
             \/ \E b \in Batch : MarkFrame(s, b)
      PROVE  HistoryInv'
  BY <1>0, <1>7, AsideSteps, AsideKeeps
<1>8. ASSUME NEW s \in Session, InsertReceipts(s)
      PROVE  HistoryInv'
  <2>1. CASE Go(s, "marking", "marked") /\ UNCHANGED <<tx, msgVars, published, clock>>
    <3>1. Aside(s)
      BY <2>1 DEF Aside, Go, Sending, TypeOK, HistoryInv, FirstOnly, msgVars
    <3> QED
      BY <1>0, <3>1, AsideKeeps
  <2> QED
    BY <1>5, <1>8, <2>1 DEF InsertReceipts
<1>9. ASSUME NEW s \in Session, TypingFails(s) \/ CallFails(s)
      PROVE  HistoryInv'
  BY <1>5, <1>9 DEF TypingFails, CallFails, Ready
<1> QED
  BY <1>1, <1>2, <1>3, <1>4, <1>6, <1>7, <1>8, <1>9 DEF Next, SessionStep, vars, sessVars

LEMMA ChatInvariant == Spec => [](TypeOK /\ HistoryInv)
BY InitInv, TypeStep, HistoryStep, PTL DEF Spec

(* Types, for any number of sessions, users and messages.                   *)
THEOREM ChatTyped == Spec => []TypeOK
BY ChatInvariant, PTL

(* Whatever fails and however the frames of different sessions interleave,  *)
(* a message in the history was published on its room's channel first.      *)
THEOREM HistoryWasPublished == Spec => []CommittedPublished
BY ChatInvariant, PTL DEF HistoryInv

(* From a session's second message on, the history dates a message after    *)
(* everything that was on the channel when it was sent.                     *)
THEOREM FollowUpsOrdered == Spec => []FollowUpsInOrder
<1>1. TypeOK /\ HistoryInv => FollowUpsInOrder
  BY DEF TypeOK, HistoryInv, Dated, DateOf, FollowUp, FollowUpsInOrder
<1> QED
  BY <1>1, ChatInvariant, PTL

-----------------------------------------------------------------------------
(* Read receipts.                                                           *)

Marking == {"marking", "marked", "told"}

\* What was known to be there still is, and is not inserted again once the
\* receipts have been looked up.
KnownKept ==
  \A s \in Session, m \in Msg :
    m \in known[s] =>
      /\ receipts[m][UserOf[s]] # 0
      /\ pc[s] \in Marking => ids[s][m] = 0

\* A step of s that neither looks for receipts nor inserts any.
LEMMA KnownAside ==
  ASSUME KnownKept, NEW s \in Session, receipts' = receipts,
         \A t \in Session \ {s} : pc'[t] = pc[t] /\ ids'[t] = ids[t] /\ known'[t] = known[t],
         \/ known'[s] = {}
         \/ /\ known'[s] = known[s] /\ ids'[s] = ids[s]
            /\ pc[s] \in Marking \/ pc'[s] \notin Marking
  PROVE  KnownKept'
BY DEF KnownKept

\* The receipts of a user for a message after s has committed its own.
LEMMA Received ==
  ASSUME TypeOK, NEW s \in Session, CommitRead(s), NEW m \in Msg, NEW u \in User
  PROVE  /\ u # UserOf[s] => receipts'[m][u] = receipts[m][u]
         /\ u = UserOf[s] => receipts'[m][u] = receipts[m][u] + ids[s][m]
         /\ receipts[m][u] \in Nat /\ ids[s][m] \in Nat
<1>1. receipts[m] \in [User -> Nat] /\ ids[s][m] \in Nat
  BY DEF TypeOK
<1>2. receipts'[m] = [receipts[m] EXCEPT ![UserOf[s]] = receipts[m][UserOf[s]] + ids[s][m]]
  BY DEF CommitRead
<1> QED
  BY <1>1, <1>2

LEMMA KnownStep == TypeOK /\ KnownKept /\ [Next]_vars => KnownKept'
<1> SUFFICES ASSUME TypeOK, KnownKept, [Next]_vars PROVE KnownKept'
  OBVIOUS
<1> USE ChatAssumption DEF TypeOK, Go, Marking
<1>1. CASE UNCHANGED <<pc, ids, known, receipts>>
  BY <1>1 DEF KnownKept
<1>2. ASSUME NEW s \in Session, CommitRead(s)
      PROVE  KnownKept'
  <2>1. ASSUME NEW m \in Msg, NEW u \in User, receipts[m][u] # 0
        PROVE  receipts'[m][u] # 0
    <3>1. /\ receipts[m][u] \in Nat /\ ids[s][m] \in Nat
          /\ \/ receipts'[m][u] = receipts[m][u]
             \/ receipts'[m][u] = receipts[m][u] + ids[s][m]
      BY <1>2, Received
    <3> HIDE DEF TypeOK
    <3> QED
      BY <2>1, <3>1
  <2>2. /\ known' = [known EXCEPT ![s] = {}] /\ pc' = [pc EXCEPT ![s] = "loop"]
        /\ ids' = [ids EXCEPT ![s] = NoIds]
    BY <1>2 DEF CommitRead
  <2> QED
    BY <2>1, <2>2 DEF KnownKept
<1>3. ASSUME NEW s \in Session, Lookup(s)
      PROVE  KnownKept'
  BY <1>3 DEF Lookup, KnownKept
<1>4. ASSUME NEW s \in Session, NEW batch \in Batch, MarkFrame(s, batch)
      PROVE  KnownKept'
  <2>1. /\ receipts' = receipts /\ pc' = [pc EXCEPT ![s] = "lookup"]
        /\ ids' = [ids EXCEPT ![s] = batch]
        /\ known' = [known EXCEPT ![s] = {m \in Msg : batch[m] > 0 /\ receipts[m][UserOf[s]] > 0}]
    BY <1>4 DEF MarkFrame
  <2>2. \A m \in known'[s] : receipts[m][UserOf[s]] # 0
    BY <2>1
  <2> QED
    BY <2>1, <2>2 DEF KnownKept
<1>5. ASSUME NEW s \in Session, Fail(s) \/ Crash(s)
      PROVE  KnownKept'
  <2>1. /\ receipts' = receipts /\ ids' = [ids EXCEPT ![s] = NoIds]
        /\ known' = [known EXCEPT ![s] = {}]
        /\ \E p \in {"loop", "ended"} : pc' = [pc EXCEPT ![s] = p]
    BY <1>5 DEF Fail, Crash
  <2> QED
    BY <2>1, KnownAside
<1>6. ASSUME NEW s \in Session, InsertReceipts(s) \/ PublishRead(s)
      PROVE  KnownKept'
  <2>1. CASE \/ Go(s, "marking", "marked") /\ UNCHANGED <<ids, known, receipts>>
             \/ Go(s, "marked", "told") /\ UNCHANGED <<ids, known, receipts>>
    BY <2>1, KnownAside
  <2> QED
    BY <1>5, <1>6, <2>1 DEF InsertReceipts, PublishRead
<1>7. ASSUME NEW s \in Session,
             \/ Connect(s) \/ Refused(s) \/ Insert(s) \/ Publish(s) \/ Commit(s)
             \/ LightFrame(s) \/ Disconnect(s)
             \/ \E m \in Msg : ChatFrame(s, m)
      PROVE  KnownKept'
  <2>1. /\ UNCHANGED <<ids, known, receipts>>
        /\ \A t \in Session \ {s} : pc'[t] = pc[t]
        /\ pc'[s] \notin Marking
    BY <1>7 DEF Connect, Refused, Insert, Publish, Commit, LightFrame, Disconnect, ChatFrame, Ready
  <2> QED
    BY <2>1, KnownAside
<1> QED
  BY <1>1, <1>2, <1>3, <1>4, <1>5, <1>6, <1>7
  DEF Next, SessionStep, TypingFails, CallFails, JoinRoom, LeaveRoom, vars, sessVars

\* The step behind RetriesAddNothing: only CommitRead adds receipts.
LEMMA ReceiptStep ==
  TypeOK /\ KnownKept /\ [Next]_vars =>
    [\A m \in Msg, u \in User :
       receipts'[m][u] # receipts[m][u] =>
         \E s \in Session : UserOf[s] = u /\ pc[s] = "told" /\ m \notin known[s]]_vars
<1> SUFFICES ASSUME TypeOK, KnownKept, Next,
                    NEW m \in Msg, NEW u \in User, receipts'[m][u] # receipts[m][u]
             PROVE  \E s \in Session : UserOf[s] = u /\ pc[s] = "told" /\ m \notin known[s]
  BY DEF vars
<1>1. PICK s \in Session : CommitRead(s)
  BY DEF Next, SessionStep, Connect, ChatFrame, MarkFrame, Refused, Insert, Publish, Commit,
         Lookup, InsertReceipts, PublishRead, LightFrame, TypingFails, CallFails, Fail,
         Disconnect, Crash, JoinRoom, LeaveRoom
<1>2. UserOf[s] = u /\ ids[s][m] # 0
  BY <1>1, Received
<1> QED
  BY <1>1, <1>2 DEF CommitRead, Go, KnownKept, Marking

(* Whatever sessions a user has and whatever their frames repeat or lose,   *)
(* a mark_read inserts no receipt that was there when it came in; so a      *)
(* second receipt of a message is the work of one frame that names it twice *)
(* or of two that were under way at once.                                   *)
THEOREM RetriesAreIdle == Spec => RetriesAddNothing
<1>1. Init => KnownKept
  BY DEF Init, KnownKept
<1> QED
  BY <1>1, KnownStep, ReceiptStep, ChatTyped, PTL DEF Spec, RetriesAddNothing
=============================================================================
