---------------------------- MODULE TokenRotation ----------------------------
(***************************************************************************)
(* Refresh tokens: AuthService.login and AuthService.refresh behind POST   *)
(* /auth/login and /auth/refresh.  A refresh looks the presented token up, *)
(* revokes it and inserts a new one in one transaction.  Clients may have  *)
(* several requests under way, and answers may get lost.                   *)
(*                                                                         *)
(* A request issues at most one token, and every token is its own (jti):   *)
(* the token is named by the request.  Nothing deletes tokens.             *)
(***************************************************************************)
EXTENDS Integers

CONSTANTS
  Client, ClientOf,
  N           \* how many requests there are, numbered as they start

Req == 1 .. N
NoReq == 0

ASSUME ReqAssumption == N \in Nat /\ ClientOf \in [Req -> Client]

VARIABLES
  pc,       \* where a request stands
  old,      \* the token it presented; none for a login
  before,   \* the requests committed before it looked that token up
  token,    \* the committed row of the token of a request
  expired,  \* the tokens past their expires_at
  updater,  \* the request whose open transaction has updated a token's row
  held      \* the token a client keeps

vars == <<pc, old, before, token, expired, updater, held>>

PC == {"start", "sent", "found", "revoking", "inserted", "committed",
       "answered", "refused", "failed", "lost"}

\* A row is locked by an open transaction.
TypeOK ==
  /\ pc \in [Req -> PC]
  /\ old \in [Req -> Req \cup {NoReq}]
  /\ before \in [Req -> SUBSET Req]
  /\ token \in [Req -> {"none", "valid", "revoked"}]
  /\ expired \subseteq Req
  /\ updater \in [Req -> Req \cup {NoReq}]
  /\ \A t, r \in Req : updater[t] = r => old[r] = t /\ pc[r] \in {"revoking", "inserted"}
  /\ held \in [Client -> Req \cup {NoReq}]

Init ==
  /\ pc = [r \in Req |-> "start"]
  /\ old = [r \in Req |-> NoReq]
  /\ before = [r \in Req |-> {}]
  /\ token = [r \in Req |-> "none"]
  /\ expired = {}
  /\ updater = [r \in Req |-> NoReq]
  /\ held = [c \in Client |-> NoReq]

Go(r, from, to) == pc[r] = from /\ pc' = [pc EXCEPT ![r] = to]
Start(r, to) == Go(r, "start", to) /\ \A q \in 1 .. r - 1 : pc[q] # "start"
Unlock(r) == updater' = [t \in Req |-> IF updater[t] = r THEN NoReq ELSE updater[t]]

-----------------------------------------------------------------------------
\* login: the user is looked up and the password verified; create_token.
Login(r) ==
  /\ \E to \in {"inserted", "refused"} : Start(r, to)
  /\ UNCHANGED <<old, before, token, expired, updater, held>>

\* A client sends a token it once got: the one it keeps, or an earlier one.
Send(r) ==
  /\ Start(r, "sent")
  /\ \E t \in Req : /\ pc[t] = "answered" /\ ClientOf[t] = ClientOf[r]
                    /\ old' = [old EXCEPT ![r] = t]
  /\ UNCHANGED <<before, token, expired, updater, held>>

\* Faulty variant of GetValid: it does not ask for is_revoked.
GetAny(r) ==
  /\ Go(r, "sent", IF old[r] \notin expired THEN "found" ELSE "refused")
  /\ before' = [before EXCEPT ![r] = {q \in Req : token[q] # "none"}]
  /\ UNCHANGED <<old, token, expired, updater, held>>

\* decode_refresh_token and get_valid_token.
GetValid(r) ==
  /\ Go(r, "sent", IF token[old[r]] = "valid" /\ old[r] \notin expired THEN "found" ELSE "refused")
  /\ before' = [before EXCEPT ![r] = {q \in Req : token[q] # "none"}]
  /\ UNCHANGED <<old, token, expired, updater, held>>

\* revoke_token: the UPDATE waits for another one of the same row; a row that
\* is revoked by then is updated all the same.
Revoke(r) ==
  /\ Go(r, "found", "revoking")
  /\ updater[old[r]] = NoReq
  /\ updater' = [updater EXCEPT ![old[r]] = r]
  /\ UNCHANGED <<old, before, token, expired, held>>

\* create_token.
Insert(r) ==
  /\ Go(r, "revoking", "inserted")
  /\ UNCHANGED <<old, before, token, expired, updater, held>>

-----------------------------------------------------------------------------
\* Faulty variant of Commit: the presented token stays valid.
CommitNew(r) ==
  /\ Go(r, "inserted", "committed")
  /\ token' = [token EXCEPT ![r] = "valid"]
  /\ Unlock(r)
  /\ UNCHANGED <<old, before, expired, held>>

Commit(r) ==
  /\ Go(r, "inserted", "committed")
  /\ token' = [t \in Req |-> IF t = r THEN "valid" ELSE IF t = old[r] THEN "revoked" ELSE token[t]]
  /\ Unlock(r)
  /\ UNCHANGED <<old, before, expired, held>>

\* Faulty variant of Answer: the response is sent before the commit.
AnswerEarly(r) ==
  /\ \/ Go(r, "committed", "answered") /\ UNCHANGED held
     \/ pc[r] = "inserted" /\ held[ClientOf[r]] # r
        /\ held' = [held EXCEPT ![ClientOf[r]] = r] /\ UNCHANGED pc
  /\ UNCHANGED <<old, before, token, expired, updater>>

\* The client keeps the token of the answer it got last.
Answer(r) ==
  /\ Go(r, "committed", "answered")
  /\ held' = [held EXCEPT ![ClientOf[r]] = r]
  /\ UNCHANGED <<old, before, token, expired, updater>>

\* The answer of a committed request does not arrive.
Lose(r) == Go(r, "committed", "lost") /\ UNCHANGED <<old, before, token, expired, updater, held>>

\* Faulty variant of Fail: the transaction stays open.
FailOpen(r) ==
  /\ pc[r] \in {"sent", "found", "revoking", "inserted"}
  /\ pc' = [pc EXCEPT ![r] = "failed"]
  /\ UNCHANGED <<old, before, token, expired, updater, held>>

\* A statement or the COMMIT fails, or the process dies: get_db or PostgreSQL
\* rolls back.
Fail(r) ==
  /\ pc[r] \in {"sent", "found", "revoking", "inserted"}
  /\ pc' = [pc EXCEPT ![r] = "failed"]
  /\ Unlock(r)
  /\ UNCHANGED <<old, before, token, expired, held>>

\* Time passes.
Expire(t) ==
  /\ token[t] # "none" /\ t \notin expired
  /\ expired' = expired \cup {t}
  /\ UNCHANGED <<pc, old, before, token, updater, held>>

-----------------------------------------------------------------------------
Work(r) == GetValid(r) \/ Revoke(r) \/ Insert(r) \/ Commit(r) \/ Answer(r)

Next == \E r \in Req : Login(r) \/ Send(r) \/ Work(r) \/ Lose(r) \/ Fail(r) \/ Expire(r)

Spec == Init /\ [][Next]_vars

-----------------------------------------------------------------------------
(* Properties. *)

(* Rotation is all or nothing, whatever fails: exactly the tokens that have *)
(* a committed successor are revoked.                                       *)
RevokedIffReplaced ==
  \A t \in Req : token[t] = "revoked" <=> \E r \in Req : old[r] = t /\ token[r] # "none"

(* A token has a second successor only from refreshes that overlapped: none *)
(* of them looked the token up after the other had committed.               *)
SuccessorsOverlap ==
  \A q, r \in Req :
    q # r /\ old[q] = old[r] /\ old[q] # NoReq /\ token[q] # "none" /\ token[r] # "none"
      => q \notin before[r]

(* A client loses its session only with an answer: while the token it keeps *)
(* is revoked, the answer with a successor is on its way or was lost.       *)
(* Tokens it presents a second time take nothing from it.                   *)
HeldUsable ==
  \A c \in Client :
    held[c] # NoReq =>
      \/ token[held[c]] = "valid"
      \/ \E r \in Req : /\ ClientOf[r] = c /\ old[r] = held[c] /\ token[held[c]] = "revoked"
                        /\ pc[r] \in {"committed", "lost"}
=============================================================================
