--------------------------- MODULE AccountProofs ---------------------------
(* Theorems about accounts: refresh tokens, for any clients and number of   *)
(* requests, and after them registration.                                   *)
EXTENDS TokenRotation, Registration, TLAPS

Over == {"committed", "answered", "lost"}

LEMMA NoReqIsNone == NoReq \notin Req
BY ReqAssumption DEF NoReq, Req

\* What is known of a request and of the token it presented, by where the
\* request stands.
Stages ==
  \A r \in Req :
    /\ token[r] # "none" <=> pc[r] \in Over
    /\ pc[r] = "start" => old[r] = NoReq
    /\ pc[r] \in {"sent", "found", "revoking"} => old[r] # NoReq
    /\ pc[r] \in {"revoking", "inserted"} /\ old[r] # NoReq => updater[old[r]] = r
    /\ old[r] # NoReq => pc[old[r]] = "answered" /\ ClientOf[old[r]] = ClientOf[r]

\* A client keeps the token of an answer it got, and never goes back to one
\* whose successor it got.
Keeps ==
  /\ \A c \in Client : held[c] # NoReq => pc[held[c]] = "answered" /\ ClientOf[held[c]] = c
  /\ \A r \in Req : pc[r] = "answered" => held[ClientOf[r]] # old[r]

\* A request that found its token valid saw no successor of it.
Looked ==
  \A r \in Req :
    /\ before[r] \subseteq {q \in Req : token[q] # "none"}
    /\ old[r] # NoReq /\ pc[r] \in Over \cup {"found", "revoking", "inserted"}
         => \A q \in before[r] : old[q] # old[r]

Inv == TypeOK /\ Stages /\ RevokedIffReplaced /\ Keeps /\ Looked

LEMMA InvInit == Init => Inv
BY ReqAssumption, NoReqIsNone
DEF Init, Inv, TypeOK, PC, Stages, RevokedIffReplaced, Keeps, Looked, Over

-----------------------------------------------------------------------------
LEMMA LoginInv ==
  ASSUME Inv, NEW r \in Req, Login(r)
  PROVE  Inv'
<1> USE NoReqIsNone
<1>1. /\ pc[r] = "start" /\ old[r] = NoReq /\ token[r] = "none"
      /\ pc' \in [Req -> PC] /\ pc'[r] \in {"inserted", "refused"}
      /\ \A q \in Req \ {r} : pc'[q] = pc[q]
      /\ UNCHANGED <<old, before, token, expired, updater, held>>
  BY DEF Login, Start, Go, Inv, TypeOK, PC, Stages, Over
<1>2. TypeOK'
  BY <1>1 DEF Inv, TypeOK
<1>3. Stages'
  BY <1>1 DEF Inv, TypeOK, Stages, Over
<1>4. Keeps'
  BY <1>1, ReqAssumption DEF Inv, TypeOK, Keeps
<1>5. RevokedIffReplaced' /\ Looked'
  BY <1>1 DEF Inv, RevokedIffReplaced, Looked, Over
<1> QED
  BY <1>2, <1>3, <1>4, <1>5 DEF Inv

LEMMA SendInv ==
  ASSUME Inv, NEW r \in Req, Send(r)
  PROVE  Inv'
<1> USE NoReqIsNone
<1>0. PICK t \in Req : /\ pc[t] = "answered" /\ ClientOf[t] = ClientOf[r]
                      /\ old' = [old EXCEPT ![r] = t]
  BY DEF Send
<1>1. /\ pc[r] = "start" /\ old[r] = NoReq /\ token[r] = "none" /\ ClientOf[r] \in Client
      /\ t \in Req /\ pc[t] = "answered" /\ ClientOf[t] = ClientOf[r] /\ t # r
      /\ pc' = [pc EXCEPT ![r] = "sent"] /\ old' = [old EXCEPT ![r] = t]
      /\ UNCHANGED <<before, token, expired, updater, held>>
  <2>1. /\ ClientOf[r] \in Client /\ pc[r] = "start" /\ pc' = [pc EXCEPT ![r] = "sent"]
        /\ UNCHANGED <<before, token, expired, updater, held>>
    BY ReqAssumption DEF Send, Start, Go
  <2>2. old[r] = NoReq /\ token[r] = "none"
    BY <2>1 DEF Inv, Stages, Over
  <2> QED
    BY <1>0, <2>1, <2>2
<1>2. TypeOK'
  BY <1>1 DEF Inv, TypeOK, PC
<1>3. Stages'
  BY <1>1 DEF Inv, TypeOK, Stages, Over
<1>4. Keeps'
  BY <1>1, ReqAssumption DEF Inv, TypeOK, Keeps
<1>5. RevokedIffReplaced'
  BY <1>1 DEF Inv, TypeOK, RevokedIffReplaced
<1>6. Looked'
  BY <1>1 DEF Inv, TypeOK, Looked, Over
<1> QED
  BY <1>2, <1>3, <1>4, <1>5, <1>6 DEF Inv

LEMMA GetValidInv ==
  ASSUME Inv, NEW r \in Req, GetValid(r)
  PROVE  Inv'
<1> USE NoReqIsNone
<1>1. /\ pc[r] = "sent" /\ old[r] \in Req
      /\ pc' \in [Req -> PC] /\ pc'[r] \in {"found", "refused"}
      /\ pc'[r] = "found" => token[old[r]] = "valid"
      /\ \A q \in Req \ {r} : pc'[q] = pc[q]
      /\ before' = [before EXCEPT ![r] = {q \in Req : token[q] # "none"}]
      /\ UNCHANGED <<old, token, expired, updater, held>>
  BY DEF GetValid, Go, Inv, TypeOK, PC, Stages
<1>2. TypeOK'
  BY <1>1 DEF Inv, TypeOK
<1>3. Stages'
  BY <1>1 DEF Inv, TypeOK, Stages, Over
<1>4. Keeps'
  BY <1>1, ReqAssumption DEF Inv, TypeOK, Keeps
<1>5. RevokedIffReplaced'
  BY <1>1 DEF Inv, RevokedIffReplaced
<1>6. Looked'
  BY <1>1 DEF Inv, TypeOK, RevokedIffReplaced, Looked, Over
<1> QED
  BY <1>2, <1>3, <1>4, <1>5, <1>6 DEF Inv

LEMMA RevokeInv ==
  ASSUME Inv, NEW r \in Req, Revoke(r)
  PROVE  Inv'
<1> USE NoReqIsNone
<1>1. /\ pc[r] = "found" /\ old[r] \in Req /\ updater[old[r]] = NoReq
      /\ pc' = [pc EXCEPT ![r] = "revoking"] /\ updater' = [updater EXCEPT ![old[r]] = r]
      /\ UNCHANGED <<old, before, token, expired, held>>
  BY DEF Revoke, Go, Inv, TypeOK, Stages
<1>2. TypeOK'
  BY <1>1 DEF Inv, TypeOK, PC
<1>3. Stages'
  BY <1>1 DEF Inv, TypeOK, Stages, Over
<1>4. Keeps'
  BY <1>1, ReqAssumption DEF Inv, TypeOK, Keeps
<1>5. RevokedIffReplaced' /\ Looked'
  BY <1>1 DEF Inv, TypeOK, RevokedIffReplaced, Looked, Over
<1> QED
  BY <1>2, <1>3, <1>4, <1>5 DEF Inv

LEMMA InsertInv ==
  ASSUME Inv, NEW r \in Req, Insert(r)
  PROVE  Inv'
<1> USE NoReqIsNone
<1>1. /\ pc[r] = "revoking" /\ pc' = [pc EXCEPT ![r] = "inserted"]
      /\ UNCHANGED <<old, before, token, expired, updater, held>>
  BY DEF Insert, Go
<1>2. TypeOK'
  BY <1>1 DEF Inv, TypeOK, PC
<1>3. Stages'
  BY <1>1 DEF Inv, TypeOK, Stages, Over
<1>4. Keeps'
  BY <1>1, ReqAssumption DEF Inv, TypeOK, Keeps
<1>5. RevokedIffReplaced' /\ Looked'
  BY <1>1 DEF Inv, TypeOK, RevokedIffReplaced, Looked, Over
<1> QED
  BY <1>2, <1>3, <1>4, <1>5 DEF Inv

LEMMA CommitInv ==
  ASSUME Inv, NEW r \in Req, Commit(r)
  PROVE  Inv'
<1> USE NoReqIsNone
<1>1. /\ pc[r] = "inserted" /\ token[r] = "none" /\ old[r] # r
      /\ pc' = [pc EXCEPT ![r] = "committed"]
      /\ updater' = [t \in Req |-> IF updater[t] = r THEN NoReq ELSE updater[t]]
      /\ UNCHANGED <<old, before, expired, held>>
  BY DEF Commit, Go, Unlock, Inv, TypeOK, Stages, Over
<1>2. /\ token' \in [Req -> {"none", "valid", "revoked"}]
      /\ token'[r] = "valid"
      /\ \A t \in Req \ {r} : token'[t] = IF t = old[r] THEN "revoked" ELSE token[t]
  BY DEF Commit, Inv, TypeOK
<1>3. old[r] # NoReq => token[old[r]] # "none"
  BY DEF Inv, TypeOK, Stages, Over
<1>4. TypeOK'
  <2>1. ASSUME NEW t \in Req, NEW q \in Req, updater'[t] = q
        PROVE  old[q] = t /\ pc'[q] \in {"revoking", "inserted"}
    BY <1>1, <2>1 DEF Inv, TypeOK
  <2>2. pc' \in [Req -> PC] /\ updater' \in [Req -> Req \cup {NoReq}]
    BY <1>1 DEF Inv, TypeOK, PC
  <2> QED
    BY <1>1, <1>2, <2>1, <2>2 DEF Inv, TypeOK
<1>5. Stages'
  BY <1>1, <1>2, <1>3 DEF Inv, TypeOK, Stages, Over
<1>6. Keeps'
  BY <1>1, ReqAssumption DEF Inv, TypeOK, Keeps
<1>7. RevokedIffReplaced'
  <2>1. \A q \in Req : token'[q] # "none" <=> token[q] # "none" \/ q = r
    BY <1>1, <1>2, <1>3 DEF Inv, TypeOK
  <2>2. \A q \in Req : old[q] # r
    BY <1>1 DEF Inv, Stages
  <2> QED
    BY <1>1, <1>2, <2>1, <2>2 DEF Inv, RevokedIffReplaced
<1>8. Looked'
  BY <1>1, <1>2, <1>3 DEF Inv, TypeOK, Looked, Over
<1> QED
  BY <1>4, <1>5, <1>6, <1>7, <1>8 DEF Inv

LEMMA AnswerInv ==
  ASSUME Inv, NEW r \in Req, Answer(r)
  PROVE  Inv'
<1> USE NoReqIsNone
<1>1. /\ pc[r] = "committed" /\ pc' = [pc EXCEPT ![r] = "answered"]
      /\ held' = [held EXCEPT ![ClientOf[r]] = r] /\ ClientOf[r] \in Client
      /\ UNCHANGED <<old, before, token, expired, updater>>
  BY ReqAssumption DEF Answer, Go
<1>2. TypeOK'
  BY <1>1 DEF Inv, TypeOK, PC
<1>3. Stages'
  BY <1>1 DEF Inv, TypeOK, Stages, Over
<1>4. \A q \in Req : old[q] # r
  BY <1>1 DEF Inv, Stages
<1>5. Keeps'
  BY <1>1, <1>4, ReqAssumption DEF Inv, TypeOK, Keeps
<1>6. RevokedIffReplaced' /\ Looked'
  BY <1>1 DEF Inv, TypeOK, RevokedIffReplaced, Looked, Over
<1> QED
  BY <1>2, <1>3, <1>5, <1>6 DEF Inv

\* An answer that is lost, or a request that fails.
LEMMA EndInv ==
  ASSUME Inv, NEW r \in Req, Lose(r) \/ Fail(r)
  PROVE  Inv'
<1> USE NoReqIsNone
<1>1. /\ \/ pc[r] = "committed" /\ pc' = [pc EXCEPT ![r] = "lost"] /\ UNCHANGED updater
         \/ /\ pc[r] \in {"sent", "found", "revoking", "inserted"}
            /\ pc' = [pc EXCEPT ![r] = "failed"]
            /\ updater' = [t \in Req |-> IF updater[t] = r THEN NoReq ELSE updater[t]]
      /\ UNCHANGED <<old, before, token, expired, held>>
  BY DEF Lose, Fail, Go, Unlock
<1>2. TypeOK'
  BY <1>1 DEF Inv, TypeOK, PC
<1>3. Stages'
  BY <1>1 DEF Inv, TypeOK, Stages, Over
<1>4. Keeps'
  BY <1>1, ReqAssumption DEF Inv, TypeOK, Keeps
<1>5. RevokedIffReplaced' /\ Looked'
  BY <1>1 DEF Inv, TypeOK, RevokedIffReplaced, Looked, Over
<1> QED
  BY <1>2, <1>3, <1>4, <1>5 DEF Inv

LEMMA InvStep == Inv /\ [Next]_vars => Inv'
<1> SUFFICES ASSUME Inv, [Next]_vars PROVE Inv'
  OBVIOUS
<1>1. CASE UNCHANGED vars
  BY <1>1 DEF vars, Inv, TypeOK, Stages, RevokedIffReplaced, Keeps, Looked
<1>2. ASSUME NEW t \in Req, Expire(t) PROVE Inv'
  BY <1>2 DEF Expire, Inv, TypeOK, Stages, RevokedIffReplaced, Keeps, Looked
<1> QED
  BY <1>1, <1>2, LoginInv, SendInv, GetValidInv, RevokeInv, InsertInv, CommitInv, AnswerInv, EndInv
  DEF Next, Work

LEMMA InvAlways == Spec => []Inv
BY InvInit, InvStep, PTL DEF Spec

-----------------------------------------------------------------------------
(* Types, and that the row of a token is locked only by an open transaction *)
(* that presented it.                                                       *)
THEOREM RotationTyped == Spec => []TypeOK
<1>1. Inv => TypeOK
  BY DEF Inv
<1> QED
  BY <1>1, InvAlways, PTL

(* Rotation is all or nothing for every number of clients and requests.     *)
THEOREM RotationAtomic == Spec => []RevokedIffReplaced
<1>1. Inv => RevokedIffReplaced
  BY DEF Inv
<1> QED
  BY <1>1, InvAlways, PTL

(* Only overlapping refreshes give a token two successors.                  *)
THEOREM SuccessorsOnlyOverlap == Spec => []SuccessorsOverlap
<1>1. Inv => SuccessorsOverlap
  BY DEF Inv, Stages, Looked, SuccessorsOverlap
<1> QED
  BY <1>1, InvAlways, PTL

(* A client that gets its answers keeps a token that is not revoked.        *)
THEOREM SessionKept == Spec => []HeldUsable
<1>1. ASSUME Inv, NEW c \in Client, held[c] # NoReq, token[held[c]] # "valid"
      PROVE  \E r \in Req : /\ ClientOf[r] = c /\ old[r] = held[c] /\ token[held[c]] = "revoked"
                            /\ pc[r] \in {"committed", "lost"}
  <2>1. held[c] \in Req /\ pc[held[c]] = "answered" /\ ClientOf[held[c]] = c
    BY <1>1 DEF Inv, TypeOK, Keeps
  <2>2. token[held[c]] = "revoked"
    BY <1>1, <2>1 DEF Inv, TypeOK, Stages, Over
  <2>3. PICK r \in Req : old[r] = held[c] /\ token[r] # "none"
    BY <1>1, <2>1, <2>2 DEF Inv, RevokedIffReplaced
  <2>4. ClientOf[r] = c /\ pc[r] \in Over
    BY <1>1, <2>1, <2>3 DEF Inv, Stages
  <2>5. pc[r] # "answered"
    BY <1>1, <2>3, <2>4 DEF Inv, Keeps
  <2> QED
    BY <2>2, <2>3, <2>4, <2>5 DEF Over
<1>2. Inv => HeldUsable
  BY <1>1 DEF HeldUsable
<1> QED
  BY <1>2, InvAlways, PTL

-----------------------------------------------------------------------------
(* Registration: module Registration has names that let the two be          *)
(* extended together.                                                       *)

\* A user name that was entered into its index is in no committed row and in
\* no other open transaction; so is an address.
Entered ==
  /\ \A r \in Signup : Open(r) => Named(r) = {}
  /\ \A q, r \in Signup : Open(q) /\ Open(r) /\ q # r => Lower[NameOf[q]] # Lower[NameOf[r]]
  /\ \A r \in Signup : stage[r] = "inserted" => Mailed(r) = {}
  /\ \A q, r \in Signup : stage[q] = "inserted" /\ stage[r] = "inserted" /\ q # r
                         => Lower[MailOf[q]] # Lower[MailOf[r]]

RegInv == RegTypeOK /\ Entered /\ UsersDistinct /\ LoserHasWinner

LEMMA RegInvInit == RegInit => RegInv
BY DEF RegInit, RegInv, RegTypeOK, Stage, Entered, Open, UsersDistinct, LoserHasWinner

\* A step within the transactions of the requests, the rows left alone.
LEMMA RegMoves ==
  ASSUME RegInv, NEW r \in Signup, users' = users,
         NEW p \in Stage, stage' = [stage EXCEPT ![r] = p],
         p = "named" => /\ Named(r) = {}
                        /\ \A q \in Signup : Open(q) => Lower[NameOf[q]] # Lower[NameOf[r]],
         p = "inserted" => /\ stage[r] = "named" /\ Mailed(r) = {}
                           /\ \A q \in Signup : stage[q] = "inserted" => Lower[MailOf[q]] # Lower[MailOf[r]],
         p \in {"refused", "conflict"} => Named(r) \cup Mailed(r) # {}
  PROVE  RegInv'
<1>1. \A q \in Signup : Named(q)' = Named(q) /\ Mailed(q)' = Mailed(q)
  BY DEF Named, Mailed
<1>2. RegTypeOK' /\ UsersDistinct'
  BY DEF RegInv, RegTypeOK, UsersDistinct
<1>3. Entered'
  BY <1>1 DEF RegInv, RegTypeOK, Entered, Open
<1>4. LoserHasWinner'
  BY <1>1 DEF RegInv, RegTypeOK, LoserHasWinner
<1> QED
  BY <1>2, <1>3, <1>4 DEF RegInv

LEMMA RegCommits ==
  ASSUME RegInv, NEW r \in Signup, CommitUser(r)
  PROVE  RegInv'
<1>1. /\ stage[r] = "inserted" /\ stage' = [stage EXCEPT ![r] = "committed"]
      /\ users' = users \cup {Row(r)}
  BY DEF CommitUser, Pass
<1>2. /\ Row(r).username = Lower[NameOf[r]] /\ Row(r).email = Lower[MailOf[r]]
      /\ Row(r) \in [id : Signup, username : Spelling, email : Spelling]
      /\ Lower[Row(r).username] = Row(r).username /\ Lower[Row(r).email] = Row(r).email
  BY SpellingAssumption DEF Row
<1>3. Named(r) = {} /\ Mailed(r) = {}
  BY <1>1 DEF RegInv, Entered, Open
<1>4. RegTypeOK'
  BY <1>1, <1>2 DEF RegInv, RegTypeOK, Stage
<1>5. UsersDistinct'
  BY <1>1, <1>2, <1>3 DEF RegInv, UsersDistinct, Named, Mailed
<1>6. Entered'
  BY <1>1, <1>2 DEF RegInv, RegTypeOK, Entered, Open, Named, Mailed
<1>7. LoserHasWinner'
  BY <1>1 DEF RegInv, RegTypeOK, LoserHasWinner, Named, Mailed
<1> QED
  BY <1>4, <1>5, <1>6, <1>7 DEF RegInv

LEMMA RegInvStep == RegInv /\ [RegNext]_regVars => RegInv'
<1> SUFFICES ASSUME RegInv, [RegNext]_regVars PROVE RegInv'
  OBVIOUS
<1>1. CASE UNCHANGED regVars
  BY <1>1
  DEF RegInv, RegTypeOK, Entered, Open, Named, Mailed, UsersDistinct, LoserHasWinner, regVars
<1>2. ASSUME NEW r \in Signup, CheckName(r) \/ CheckMail(r) PROVE RegInv'
  BY <1>2, RegMoves DEF CheckName, CheckMail, Pass, Stage
<1>3. ASSUME NEW r \in Signup, InsertName(r) PROVE RegInv'
  BY <1>3, RegMoves DEF InsertName, Pass, Stage
<1>4. ASSUME NEW r \in Signup, InsertMail(r) PROVE RegInv'
  BY <1>4, RegMoves DEF InsertMail, Pass, Stage
<1>5. ASSUME NEW r \in Signup, Reply(r) \/ Abort(r) PROVE RegInv'
  BY <1>5, RegMoves DEF Reply, Abort, Pass, Stage
<1> QED
  BY <1>1, <1>2, <1>3, <1>4, <1>5, RegCommits DEF RegNext, Register

LEMMA RegAlways == RegSpec => []RegInv
BY RegInvInit, RegInvStep, PTL DEF RegSpec, regVars

(* Types, and that every row has folded names and addresses.                *)
THEOREM RegistrationTyped == RegSpec => []RegTypeOK
<1>1. RegInv => RegTypeOK
  BY DEF RegInv
<1> QED
  BY <1>1, RegAlways, PTL

(* For any requests and spellings, no two accounts share a user name or an  *)
(* address, though overlapping lookups see nothing of each other.           *)
THEOREM AccountsDistinct == RegSpec => []UsersDistinct
<1>1. RegInv => UsersDistinct
  BY DEF RegInv
<1> QED
  BY <1>1, RegAlways, PTL

(* A request that is refused or meets a conflict has a committed account in *)
(* its way, never one that failed.                                          *)
THEOREM RefusedForAnAccount == RegSpec => []LoserHasWinner
<1>1. RegInv => LoserHasWinner
  BY DEF RegInv
<1> QED
  BY <1>1, RegAlways, PTL
=============================================================================
