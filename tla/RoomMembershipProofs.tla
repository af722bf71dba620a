------------------------ MODULE RoomMembershipProofs ------------------------
(* Theorems about the rooms API, for any rooms, users and requests.         *)
EXTENDS RoomMembership, TLAPS

LEMMA KeyType == \A q \in Req : KeyOf(q) \in Key
BY RequestAssumption DEF KeyOf, Key

\* What a request is doing, by where it stands.
Doing ==
  \A q \in Req :
    /\ pc[q] \in {"deleted", "blocked", "nothing"} => Kind[q] = "leave"
    /\ pc[q] = "checked" => Kind[q] \in {"join", "leave"}
    /\ pc[q] = "inserted" => Kind[q] \in {"create", "join"}
    /\ pc[q] = "refused" => Kind[q] # "create"
    /\ pc[q] = "looked" => Kind[q] \in {"detail", "mine"}
    /\ Kind[q] = "mine" /\ pc[q] = "looked" => RoomOf[q] \in rooms
    /\ Kind[q] = "join" /\ pc[q] \in {"checked", "inserted"} => RoomOf[q] \in rooms \ Direct

\* A row that is being written has one writer, and the row is as the writer
\* found it.
Locked ==
  /\ \A k \in Key, q \in Req :
       writer[k] = q <=> k = KeyOf(q) /\ pc[q] \in {"inserted", "deleted"}
  /\ \A q \in Req :
       /\ pc[q] = "inserted" => row[KeyOf(q)] = 0
       /\ pc[q] \in {"deleted", "blocked"} => row[KeyOf(q)] = 1

\* The room of a request to create one is not there before its commit, nor
\* has a room that is not there members.
Fresh ==
  /\ \A q \in Req : Kind[q] = "create" /\ pc[q] \in {"start", "inserted"} => RoomOf[q] \notin rooms
  /\ \A k \in Key : row[k] > 0 => k[1] \in rooms

Inv == TypeOK /\ Doing /\ Locked /\ Fresh

LEMMA InvInit == Init => Inv
BY RequestAssumption DEF Init, Inv, TypeOK, PC, Doing, Locked, Fresh, KeyOf, Key

\* Requests that only read.
LEMMA SeeInv ==
  ASSUME Inv, NEW q \in Req, See(q)
  PROVE  Inv'
<1> USE RequestAssumption, KeyType
<1>1. /\ UNCHANGED <<rooms, row, writer>> /\ Kind[q] \in {"detail", "mine"}
      /\ pc' \in [Req -> PC] /\ \A r \in Req \ {q} : pc'[r] = pc[r]
      /\ pc[q] \in {"start", "looked"} /\ pc'[q] \in {"looked", "done", "refused"}
      /\ Kind[q] = "mine" /\ pc'[q] = "looked" => row[KeyOf(q)] > 0
  BY DEF See, Look, Permit, Mine, Count, Go, Inv, TypeOK, PC
<1>2. shown' \in [Req -> SUBSET User]
  BY DEF See, Look, Permit, Mine, Count, Read, Inv, TypeOK
<1>3. Kind[q] = "mine" /\ pc'[q] = "looked" => RoomOf[q] \in rooms
  <2>1. KeyOf(q)[1] = RoomOf[q]
    BY DEF KeyOf
  <2> QED
    BY <1>1, <2>1 DEF Inv, Fresh
<1>4. TypeOK'
  BY <1>1, <1>2 DEF Inv, TypeOK
<1>5. Doing'
  BY <1>1, <1>3 DEF Inv, Doing
<1>6. Locked'
  BY <1>1 DEF Inv, Locked
<1>7. Fresh'
  BY <1>1 DEF Inv, Fresh
<1> QED
  BY <1>4, <1>5, <1>6, <1>7 DEF Inv

\* Steps that change neither rooms nor rows.
LEMMA StillInv ==
  ASSUME Inv, NEW q \in Req,
         \/ Check(q) \/ Create(q) \/ Insert(q) \/ Delete(q) \/ Unblock(q)
         \/ CommitNothing(q) \/ Answer(q) \/ Fail(q)
  PROVE  Inv'
<1> USE RequestAssumption, KeyType
<1>1. UNCHANGED <<rooms, row, shown>>
  BY DEF Check, Create, Insert, Delete, Unblock, CommitNothing, Answer, Fail
<1>2. pc' \in [Req -> PC] /\ \A r \in Req \ {q} : pc'[r] = pc[r]
  BY DEF Inv, TypeOK, PC, Go, Check, Create, Insert, Delete, Unblock, CommitNothing, Answer, Fail
<1>3. writer' \in [Key -> Req \cup {NoReq}]
  BY DEF Inv, TypeOK, Lock, Unlock, Check, Create, Insert, Delete, Unblock, CommitNothing, Answer, Fail
<1>4. Doing'
  BY <1>1, <1>2
  DEF Inv, TypeOK, Doing, Go, Check, Create, Insert, Delete, Unblock, CommitNothing, Answer, Fail
<1>5. /\ pc'[q] = "inserted" => row[KeyOf(q)] = 0
      /\ pc'[q] \in {"deleted", "blocked"} => row[KeyOf(q)] = 1
  BY <1>1, <1>2
  DEF Inv, TypeOK, Locked, Fresh, Go, KeyOf, Check, Create, Insert, Delete, Unblock, CommitNothing,
      Answer, Fail
<1>6. ASSUME NEW k \in Key, NEW r \in Req
      PROVE  writer'[k] = r <=> k = KeyOf(r) /\ pc'[r] \in {"inserted", "deleted"}
  <2>1. writer[k] = r <=> k = KeyOf(r) /\ pc[r] \in {"inserted", "deleted"}
    BY DEF Inv, Locked
  <2>2. q # NoReq /\ r # NoReq /\ KeyOf(q) \in Key /\ writer \in [Key -> Req \cup {NoReq}]
    BY DEF Inv, TypeOK
  <2>3. CASE Lock(q)
    <3>1. pc[q] \notin {"inserted", "deleted"} /\ pc'[q] \in {"inserted", "deleted"}
      BY <2>3, <2>2
      DEF Inv, TypeOK, PC, Locked, Go, Lock, Unlock, Check, Create, Insert, Delete, Unblock,
          CommitNothing, Answer, Fail
    <3>2. writer[KeyOf(q)] = NoReq
      <4>1. CASE Create(q)
        <5>1. SUFFICES ASSUME NEW t \in Req, writer[KeyOf(q)] = t PROVE FALSE
          BY <2>2
        <5>2. KeyOf(t) = KeyOf(q) /\ pc[t] \in {"inserted", "deleted"} /\ RoomOf[q] \notin rooms
          BY <4>1, <5>1, <2>2 DEF Inv, Locked, Fresh, Create, Go
        <5>3. RoomOf[t] = RoomOf[q] /\ KeyOf(q)[1] = RoomOf[q] /\ t # q
          BY <5>2, <4>1 DEF KeyOf, Create, Go
        <5>4. CASE pc[t] = "deleted"
          BY <5>2, <5>3, <5>4, <2>2 DEF Inv, Locked, Fresh
        <5>5. CASE pc[t] = "inserted"
          BY <5>2, <5>3, <5>5, <4>1 DEF Inv, Doing, Create
        <5> QED
          BY <5>2, <5>4, <5>5
      <4>2. CASE ~Create(q)
        BY <2>3, <2>2, <3>1, <4>2
        DEF Inv, TypeOK, Lock, Unlock, Go, Check, Insert, Delete, Unblock, CommitNothing, Answer, Fail
      <4> QED
        BY <4>1, <4>2
    <3> QED
      BY <2>1, <2>2, <2>3, <3>1, <3>2, <1>2 DEF Lock
  <2>4. CASE Unlock(q) /\ Fail(q)
    <3>1. pc'[q] = "failed"
      BY <2>4 DEF Fail, Inv, TypeOK
    <3> QED
      BY <2>1, <2>2, <2>4, <3>1, <1>2 DEF Unlock
  <2>5. CASE UNCHANGED writer /\ ~Fail(q)
    <3>1. pc[q] \notin {"inserted", "deleted"}
      BY <2>2, <2>5 DEF Lock, Inv, TypeOK, Go, Check, Create, Insert, Delete, Unblock, CommitNothing, Answer, Fail
    <3>2. pc'[q] \notin {"inserted", "deleted"}
      BY <2>1, <2>2, <2>5
      DEF Inv, TypeOK, Locked, Lock, Go, Check, Create, Insert, Delete, Unblock, CommitNothing, Answer
    <3> QED
      BY <2>1, <2>5, <3>1, <3>2, <1>2
  <2> QED
    BY <2>3, <2>4, <2>5 DEF Check, Create, Insert, Delete, Unblock, CommitNothing, Answer, Fail
<1>7. Fresh'
  BY <1>1, <1>2
  DEF Inv, TypeOK, Fresh, Go, Check, Create, Insert, Delete, Unblock, CommitNothing, Answer, Fail
<1> QED
  BY <1>1, <1>2, <1>3, <1>4, <1>5, <1>6, <1>7 DEF Inv, TypeOK, Locked

LEMMA CommitInsertInv ==
  ASSUME Inv, NEW q \in Req, CommitInsert(q)
  PROVE  Inv'
<1> USE RequestAssumption, KeyType
<1>1. pc[q] = "inserted" /\ row[KeyOf(q)] = 0 /\ Kind[q] \in {"create", "join"} /\ KeyOf(q)[1] = RoomOf[q]
  BY DEF CommitInsert, Go, Inv, Locked, Doing, KeyOf
<1>2. /\ pc' = [pc EXCEPT ![q] = "committed"]
      /\ row' = [row EXCEPT ![KeyOf(q)] = 1]
      /\ rooms' = IF Kind[q] = "create" THEN rooms \cup {RoomOf[q]} ELSE rooms
      /\ writer' = [k \in Key |-> IF writer[k] = q THEN NoReq ELSE writer[k]]
      /\ shown' = shown
  BY <1>1 DEF CommitInsert, Go, Unlock
<1>3. TypeOK'
  BY <1>2 DEF Inv, TypeOK, PC
<1>4. Doing'
  BY <1>2 DEF Inv, TypeOK, Doing
<1>5. \A r \in Req \ {q} : KeyOf(r) = KeyOf(q) => pc[r] \notin {"inserted", "deleted", "blocked"}
  <2>1. writer[KeyOf(q)] = q
    BY <1>1 DEF Inv, Locked
  <2> QED
    BY <1>1, <2>1 DEF Inv, Locked
<1>6. ASSUME NEW k \in Key, NEW r \in Req
      PROVE  writer'[k] = r <=> k = KeyOf(r) /\ pc'[r] \in {"inserted", "deleted"}
  BY <1>1, <1>2 DEF Inv, TypeOK, Locked
<1>7. ASSUME NEW r \in Req
      PROVE  /\ pc'[r] = "inserted" => row'[KeyOf(r)] = 0
             /\ pc'[r] \in {"deleted", "blocked"} => row'[KeyOf(r)] = 1
  BY <1>2, <1>5 DEF Inv, TypeOK, Locked
<1>8. ASSUME NEW r \in Req, Kind[r] = "create", pc'[r] \in {"start", "inserted"}
      PROVE  RoomOf[r] \notin rooms'
  BY <1>2, <1>8 DEF Inv, TypeOK, Fresh
<1>9. RoomOf[q] \in rooms'
  BY <1>1, <1>2 DEF Inv, Doing
<1>10. ASSUME NEW k \in Key, row'[k] > 0 PROVE k[1] \in rooms'
  BY <1>1, <1>2, <1>9, <1>10 DEF Inv, TypeOK, Fresh
<1> QED
  BY <1>3, <1>4, <1>6, <1>7, <1>8, <1>10 DEF Inv, Locked, Fresh

LEMMA CommitDeleteInv ==
  ASSUME Inv, NEW q \in Req, CommitDelete(q)
  PROVE  Inv'
<1> USE RequestAssumption, KeyType
<1>1. pc[q] = "deleted" /\ row[KeyOf(q)] = 1 /\ Kind[q] = "leave" /\ writer[KeyOf(q)] = q
  BY DEF CommitDelete, Inv, Locked, Doing
<1>2. /\ row' = [row EXCEPT ![KeyOf(q)] = 0]
      /\ rooms' = rooms /\ shown' = shown
      /\ writer' = [k \in Key |-> IF writer[k] = q THEN NoReq ELSE writer[k]]
  BY <1>1 DEF CommitDelete, Unlock
<1>3. /\ pc' \in [Req -> PC] /\ pc'[q] = "committed"
      /\ \A r \in Req \ {q} : pc'[r] = IF pc[r] = "blocked" /\ KeyOf(r) = KeyOf(q) THEN "nothing"
                                      ELSE pc[r]
  BY DEF CommitDelete, Inv, TypeOK, PC
<1>4. TypeOK'
  BY <1>2, <1>3 DEF Inv, TypeOK
<1>5. Doing'
  BY <1>2, <1>3 DEF Inv, Doing
<1>6. ASSUME NEW k \in Key, NEW r \in Req
      PROVE  writer'[k] = r <=> k = KeyOf(r) /\ pc'[r] \in {"inserted", "deleted"}
  BY <1>1, <1>2, <1>3 DEF Inv, TypeOK, Locked
<1>7. ASSUME NEW r \in Req
      PROVE  /\ pc'[r] = "inserted" => row'[KeyOf(r)] = 0
             /\ pc'[r] \in {"deleted", "blocked"} => row'[KeyOf(r)] = 1
  <2>1. KeyOf(r) = KeyOf(q) => r = q \/ pc[r] # "deleted"
    BY <1>1 DEF Inv, Locked
  <2> QED
    BY <1>1, <1>2, <1>3, <2>1 DEF Inv, TypeOK, Locked
<1>8. Fresh'
  BY <1>1, <1>2, <1>3 DEF Inv, TypeOK, Fresh
<1> QED
  BY <1>4, <1>5, <1>6, <1>7, <1>8 DEF Inv, Locked

LEMMA InvStep == Inv /\ [Next]_vars => Inv'
<1> SUFFICES ASSUME Inv, [Next]_vars PROVE Inv'
  OBVIOUS
<1>1. CASE UNCHANGED vars
  BY <1>1 DEF vars, Inv, TypeOK, Doing, Locked, Fresh
<1>2. CASE Next
  BY <1>2, SeeInv, StillInv, CommitInsertInv, CommitDeleteInv DEF Next, Work
<1> QED
  BY <1>1, <1>2

(* Every variable keeps its type; in particular no room has two rows for a  *)
(* user, which the reads of get_member rely on.                             *)
THEOREM MembershipTyped == Spec => []TypeOK
<1>1. Inv => TypeOK
  BY DEF Inv
<1> QED
  BY <1>1, InvInit, InvStep, PTL DEF Spec

-----------------------------------------------------------------------------
(* The promise of the API. *)

Members == {k \in Key : row[k] > 0}
Fates == [q \in Req |-> FateOf(q)]

\* Steps that decide nothing.
LEMMA Undecided ==
  ASSUME UNCHANGED <<rooms, row, shown>>, \A q \in Req : FateOf(q)' = FateOf(q)
  PROVE  UNCHANGED Promise!memberVars
BY DEF Promise!memberVars

\* A step of q alone.
LEMMA FateOfOthers ==
  ASSUME Inv, NEW q \in Req, NEW to \in PC, pc' = [pc EXCEPT ![q] = to]
  PROVE  /\ \A r \in Req \ {q} : FateOf(r)' = FateOf(r)
         /\ pc'[q] = to
BY DEF Inv, TypeOK, FateOf

LEMMA AbstractStep ==
  ASSUME Inv, [Next]_vars
  PROVE  [Promise!MembershipNext]_Promise!memberVars
<1> USE RequestAssumption, KeyType
<1>k. \A q \in Req : Promise!Member(q) = KeyOf(q)
  BY DEF Promise!Member, KeyOf
<1>1. CASE UNCHANGED vars
  BY <1>1 DEF vars, Promise!memberVars, FateOf
<1>2. ASSUME NEW q \in Req, UNCHANGED <<rooms, row, shown>>, NEW to \in PC, pc' = [pc EXCEPT ![q] = to],
             FateOf(q)' = FateOf(q)
      PROVE  UNCHANGED Promise!memberVars
  BY <1>2, FateOfOthers, Undecided
\* One request is decided, and neither rooms nor rows change.
<1>3. ASSUME NEW q \in Req, UNCHANGED <<rooms, row>>, NEW to \in PC, pc' = [pc EXCEPT ![q] = to]
      PROVE  /\ UNCHANGED <<rooms, Members>>
             /\ Fates' = [r \in Req |-> IF r \in {q} THEN FateOf(q)' ELSE Fates[r]]
             /\ Fates' = [Fates EXCEPT ![q] = FateOf(q)']
  BY <1>3, FateOfOthers DEF Members, Fates
<1>4. ASSUME NEW q \in Req, Check(q) PROVE [Promise!MembershipNext]_Promise!memberVars
  <2>1. CASE pc'[q] = "checked"
    BY <1>4, <1>2, <2>1 DEF Check, Go, FateOf, PC
  <2>2. CASE pc'[q] # "checked"
    <3>1. pc[q] = "start" /\ pc' = [pc EXCEPT ![q] = "refused"] /\ UNCHANGED <<rooms, row, shown>>
      BY <1>4, <2>2 DEF Check, Go, Inv, TypeOK
    <3>2. FateOf(q) = "open" /\ FateOf(q)' = "no"
      BY <3>1 DEF FateOf, Inv, TypeOK
    <3>3. /\ UNCHANGED <<rooms, Members, shown>>
          /\ Fates' = [r \in Req |-> IF r \in {q} THEN "no" ELSE Fates[r]]
      BY <3>1, <3>2, <1>3 DEF PC
    <3>4. CASE Kind[q] = "join"
      <4>1. RoomOf[q] \notin rooms \cap (Room \ Direct) \/ KeyOf(q) \in Members
        BY <1>4, <2>2, <3>4 DEF Check, Go, Members, Inv, TypeOK
      <4>2. Promise!RefuseJoin(q)
        BY <3>2, <3>3, <3>4, <4>1, <1>k DEF Promise!RefuseJoin, Promise!Decide, Members, Fates
      <4> QED
        BY <4>2 DEF Promise!MembershipNext
    <3>5. CASE Kind[q] = "leave"
      <4>1. RoomOf[q] \notin rooms \/ KeyOf(q) \notin Members
        BY <1>4, <2>2, <3>5 DEF Check, Go, Members, Inv, TypeOK
      <4>2. Promise!RefuseLeave(q)
        BY <3>2, <3>3, <3>5, <4>1, <1>k DEF Promise!RefuseLeave, Promise!Decide, Members, Fates
      <4> QED
        BY <4>2 DEF Promise!MembershipNext
    <3> QED
      BY <1>4, <3>4, <3>5 DEF Check
  <2> QED
    BY <2>1, <2>2
<1>5. ASSUME NEW q \in Req, Create(q) \/ Unblock(q) \/ CommitNothing(q) \/ Answer(q)
      PROVE  [Promise!MembershipNext]_Promise!memberVars
  BY <1>5, <1>2 DEF Create, Unblock, CommitNothing, Answer, Go, FateOf, PC, Inv, TypeOK
\* q fails.
<1>6. ASSUME NEW q \in Req, UNCHANGED <<rooms, row, shown>>, pc' = [pc EXCEPT ![q] = "failed"],
             pc[q] # "failed"
      PROVE  [Promise!MembershipNext]_Promise!memberVars
  <2>1. FateOf(q) # "gone" /\ FateOf(q)' = "gone"
    BY <1>6 DEF FateOf, Inv, TypeOK
  <2>2. UNCHANGED <<rooms, Members, shown>> /\ Fates' = [Fates EXCEPT ![q] = "gone"]
    BY <1>6, <2>1, <1>3 DEF PC
  <2>3. Promise!Lose(q)
    BY <2>1, <2>2 DEF Promise!Lose, Members, Fates
  <2> QED
    BY <2>3 DEF Promise!MembershipNext
<1>7. ASSUME NEW q \in Req, Insert(q) \/ Fail(q) PROVE [Promise!MembershipNext]_Promise!memberVars
  <2>1. CASE pc'[q] = "failed"
    BY <1>7, <2>1, <1>6 DEF Insert, Fail, Go, Inv, TypeOK, PC
  <2>2. CASE pc'[q] # "failed"
    BY <1>7, <2>2, <1>2 DEF Insert, Fail, Go, FateOf, PC, Inv, TypeOK
  <2> QED
    BY <2>1, <2>2
<1>8. ASSUME NEW q \in Req, Delete(q) PROVE [Promise!MembershipNext]_Promise!memberVars
  <2>1. CASE pc'[q] # "nothing"
    BY <1>8, <2>1, <1>2 DEF Delete, Go, FateOf, PC, Inv, TypeOK
  <2>2. CASE pc'[q] = "nothing"
    <3>1. /\ pc[q] = "checked" /\ pc' = [pc EXCEPT ![q] = "nothing"] /\ UNCHANGED <<rooms, row, shown>>
          /\ Kind[q] = "leave" /\ KeyOf(q) \notin Members
      BY <1>8, <2>2 DEF Delete, Go, Inv, TypeOK, Members
    <3>2. FateOf(q) = "open" /\ FateOf(q)' = "yes"
      BY <3>1 DEF FateOf, Inv, TypeOK
    <3>3. /\ UNCHANGED <<rooms, Members, shown>>
          /\ Fates' = [r \in Req |-> IF r \in {q} THEN "yes" ELSE Fates[r]]
      BY <3>1, <3>2, <1>3 DEF PC
    <3>4. Promise!LeaveRoom({q}, Promise!Member(q))
      BY <3>1, <3>2, <3>3, <1>k DEF Promise!LeaveRoom, Promise!Decide, Members, Fates
    <3> QED
      BY <3>1, <3>4 DEF Promise!MembershipNext
  <2> QED
    BY <2>1, <2>2
<1>9. ASSUME NEW q \in Req, CommitInsert(q) PROVE Promise!MembershipNext
  <2>1. /\ pc[q] = "inserted" /\ pc' = [pc EXCEPT ![q] = "committed"]
        /\ Kind[q] \in {"create", "join"} /\ shown' = shown
        /\ row[KeyOf(q)] = 0 /\ row' = [row EXCEPT ![KeyOf(q)] = 1]
    <3>1. pc[q] = "inserted" /\ row[KeyOf(q)] = 0 /\ Kind[q] \in {"create", "join"}
      BY <1>9 DEF CommitInsert, Go, Inv, Doing, Locked
    <3> QED
      BY <1>9, <3>1 DEF CommitInsert, Go
  <2>2. FateOf(q) = "open" /\ FateOf(q)' = "yes"
    BY <2>1 DEF FateOf, Inv, TypeOK
  <2>3. Fates' = [r \in Req |-> IF r \in {q} THEN "yes" ELSE Fates[r]]
    BY <2>1, <2>2, FateOfOthers DEF Fates, PC
  <2>4. Members' = Members \cup {KeyOf(q)} /\ KeyOf(q) \notin Members
    BY <2>1 DEF Members, Inv, TypeOK
  <2>5. CASE Kind[q] = "create"
    <3>1. Promise!CreateRoom(q)
      BY <2>1, <2>2, <2>3, <2>4, <2>5, <1>9, <1>k
      DEF Promise!CreateRoom, Promise!Decide, Members, Fates, CommitInsert, Inv, Fresh
    <3> QED
      BY <3>1 DEF Promise!MembershipNext
  <2>6. CASE Kind[q] = "join"
    <3>1. Promise!JoinRoom(q)
      BY <2>1, <2>2, <2>3, <2>4, <2>6, <1>9, <1>k
      DEF Promise!JoinRoom, Promise!Decide, Members, Fates, CommitInsert, Inv, Doing
    <3> QED
      BY <3>1 DEF Promise!MembershipNext
  <2> QED
    BY <2>1, <2>5, <2>6
<1>10. ASSUME NEW q \in Req, CommitDelete(q) PROVE Promise!MembershipNext
  <2> DEFINE Q == {q} \cup {r \in Req : pc[r] = "blocked" /\ KeyOf(r) = KeyOf(q)}
  <2>1. /\ pc[q] = "deleted" /\ row[KeyOf(q)] = 1 /\ row' = [row EXCEPT ![KeyOf(q)] = 0]
        /\ rooms' = rooms /\ shown' = shown
        /\ \A r \in Req : pc'[r] = IF r = q THEN "committed"
                                  ELSE IF pc[r] = "blocked" /\ KeyOf(r) = KeyOf(q) THEN "nothing"
                                  ELSE pc[r]
    <3>1. pc[q] = "deleted" /\ row[KeyOf(q)] = 1
      BY <1>10 DEF CommitDelete, Inv, Locked
    <3> QED
      BY <1>10, <3>1 DEF CommitDelete
  <2>2. \A r \in Q : Kind[r] = "leave" /\ FateOf(r) = "open" /\ KeyOf(r) = KeyOf(q)
    BY <2>1 DEF Inv, Doing, FateOf
  <2>3. \A r \in Req : FateOf(r)' = IF r \in Q THEN "yes" ELSE FateOf(r)
    BY <2>1 DEF FateOf
  <2>4. Fates' = [r \in Req |-> IF r \in Q THEN "yes" ELSE Fates[r]]
    BY <2>3 DEF Fates
  <2>5. Members' = Members \ {KeyOf(q)}
    BY <2>1 DEF Members, Inv, TypeOK
  <2>6. Promise!LeaveRoom(Q, Promise!Member(q))
    BY <2>1, <2>2, <2>4, <2>5, <1>k DEF Promise!LeaveRoom, Promise!Decide, Members, Fates
  <2>7. Q \in SUBSET {r \in Req : Kind[r] = "leave"} /\ q \in Q
    BY <2>2
  <2> QED
    BY <2>6, <2>7 DEF Promise!MembershipNext
<1>11. ASSUME NEW q \in Req, See(q) PROVE [Promise!MembershipNext]_Promise!memberVars
  <2>1. PICK to \in PC : pc' = [pc EXCEPT ![q] = to] /\ to = pc'[q]
    BY <1>11 DEF See, Look, Permit, Mine, Count, Go, Inv, TypeOK, PC
  <2>2. UNCHANGED <<rooms, row>>
    BY <1>11 DEF See, Look, Permit, Mine, Count
  <2>3. UNCHANGED <<rooms, Members>> /\ Fates' = [Fates EXCEPT ![q] = FateOf(q)']
    BY <2>1, <2>2, <1>3
  <2>4. {k[2] : k \in {m \in Members : m[1] = RoomOf[q]}} = {u \in User : row[<<RoomOf[q], u>>] > 0}
    BY DEF Members, Key
  <2>5. Promise!MaySee(q) <=> RoomOf[q] \notin Private \cup Direct \/ row[KeyOf(q)] > 0
    BY <1>k DEF Promise!MaySee, Members
  <2>6. Promise!Member(q) \in Members <=> row[KeyOf(q)] > 0
    BY <1>k DEF Members
  <2> DEFINE Seeing(kind, from, to_) == Promise!SeeRoom(q, kind, from, to_)
  <2>7. ASSUME Look(q) PROVE Promise!See(q) \/ Promise!RefuseSee(q)
    <3>1. Kind[q] = "detail" /\ FateOf(q) = "open"
      BY <2>7 DEF Look, Go, FateOf
    <3>2. CASE to = "looked"
      <4>1. FateOf(q)' = "half"
        BY <2>1, <3>2 DEF FateOf
      <4>2. RoomOf[q] \in rooms /\ Read(q)
        BY <2>7, <2>1, <3>2 DEF Look, Go, Inv, TypeOK
      <4>3. Seeing("detail", "open", "half")
        BY <2>3, <3>1, <4>1 DEF Promise!SeeRoom, Members, Fates
      <4> QED
        BY <4>2, <4>3, <2>4 DEF Promise!See, Promise!Peek, Read, Members
    <3>3. CASE to # "looked"
      <4>1. pc'[q] = "refused" /\ RoomOf[q] \notin rooms /\ shown' = shown
        BY <2>7, <2>1, <3>3 DEF Look, Go, Inv, TypeOK
      <4>2. FateOf(q)' = "no"
        BY <4>1 DEF FateOf
      <4>3. Seeing("detail", "open", "no")
        BY <2>3, <3>1, <4>2 DEF Promise!SeeRoom, Members, Fates
      <4> QED
        BY <4>1, <4>3 DEF Promise!RefuseSee
    <3> QED
      BY <3>2, <3>3
  <2>8. ASSUME Permit(q) PROVE Promise!See(q) \/ Promise!RefuseSee(q)
    <3>1. Kind[q] = "detail" /\ FateOf(q) = "half" /\ shown' = shown
      BY <2>8 DEF Permit, Go, FateOf
    <3>2. CASE Promise!MaySee(q)
      <4>1. FateOf(q)' = "yes"
        BY <2>8, <2>5, <3>2 DEF Permit, Go, FateOf, Inv, TypeOK
      <4>2. Seeing("detail", "half", "yes")
        BY <2>3, <3>1, <4>1 DEF Promise!SeeRoom, Members, Fates
      <4> QED
        BY <3>1, <3>2, <4>2 DEF Promise!See, Promise!MaySee, Members
    <3>3. CASE ~Promise!MaySee(q)
      <4>1. FateOf(q)' = "no"
        BY <2>8, <2>5, <3>3 DEF Permit, Go, FateOf, Inv, TypeOK
      <4>2. Seeing("detail", "half", "no")
        BY <2>3, <3>1, <4>1 DEF Promise!SeeRoom, Members, Fates
      <4> QED
        BY <3>1, <3>3, <4>2 DEF Promise!RefuseSee, Promise!MaySee, Members
    <3> QED
      BY <3>2, <3>3
  <2>9. ASSUME Mine(q) PROVE Promise!See(q) \/ Promise!RefuseSee(q)
    <3>1. Kind[q] = "mine" /\ FateOf(q) = "open" /\ shown' = shown
      BY <2>9 DEF Mine, Go, FateOf
    <3>2. CASE row[KeyOf(q)] > 0
      <4>1. FateOf(q)' = "half"
        BY <2>9, <3>2 DEF Mine, Go, FateOf, Inv, TypeOK
      <4>2. Seeing("mine", "open", "half")
        BY <2>3, <3>1, <4>1 DEF Promise!SeeRoom, Members, Fates
      <4> QED
        BY <3>1, <3>2, <4>2, <2>6 DEF Promise!See, Members
    <3>3. CASE ~(row[KeyOf(q)] > 0)
      <4>1. FateOf(q)' = "no"
        BY <2>9, <3>3 DEF Mine, Go, FateOf, Inv, TypeOK
      <4>2. Seeing("mine", "open", "no")
        BY <2>3, <3>1, <4>1 DEF Promise!SeeRoom, Members, Fates
      <4> QED
        BY <3>1, <3>3, <4>2, <2>6 DEF Promise!RefuseSee, Members
    <3> QED
      BY <3>2, <3>3
  <2>10. ASSUME Count(q) PROVE Promise!See(q)
    <3>1. Kind[q] = "mine" /\ FateOf(q) = "half" /\ FateOf(q)' = "yes" /\ Read(q)
      BY <2>10 DEF Count, Go, FateOf, Inv, TypeOK
    <3>2. RoomOf[q] \in rooms
      BY <2>10 DEF Count, Go, Inv, Doing
    <3>3. Seeing("mine", "half", "yes")
      BY <2>3, <3>1 DEF Promise!SeeRoom, Members, Fates
    <3> QED
      BY <3>1, <3>2, <3>3, <2>4 DEF Promise!See, Promise!Peek, Read, Members
  <2> QED
    BY <1>11, <2>7, <2>8, <2>9, <2>10 DEF See, Promise!MembershipNext
<1> QED
  BY <1>1, <1>4, <1>5, <1>7, <1>8, <1>9, <1>10, <1>11 DEF Next, Work

LEMMA AbstractInit == Init => Promise!MembershipInit
BY DEF Init, Promise!MembershipInit, FateOf

(* Whatever the requests and however they overlap, the rooms API keeps its  *)
(* promise: each answer is true of a moment at which its request was being  *)
(* served.                                                                  *)
THEOREM RoomsApiKeepsPromise == Spec => AnswersTrue
<1>1. Inv /\ [Next]_vars => [Promise!MembershipNext]_Promise!memberVars
  BY AbstractStep
<1> QED
  BY <1>1, InvInit, InvStep, AbstractInit, PTL DEF Spec, AnswersTrue, Promise!MembershipSpec
=============================================================================
