----------------------------- MODULE Registration -----------------------------
(***************************************************************************)
(* Accounts: AuthService.register behind POST /auth/register.  Two lookups *)
(* under READ COMMITTED are followed by one INSERT, which enters the user  *)
(* name and then the e-mail address into unique indexes.  Each index makes *)
(* an INSERT wait for an open transaction that has entered the same key.   *)
(*                                                                         *)
(* Names and addresses are compared as Lower folds them.  Accounts are not *)
(* deleted or renamed by any code.                                         *)
(***************************************************************************)
CONSTANTS
  Signup,            \* requests to register
  Spelling,          \* user names and e-mail addresses, as they can be typed
  NameOf, MailOf,    \* what a request asks for
  Lower              \* str.lower

ASSUME SpellingAssumption ==
  /\ NameOf \in [Signup -> Spelling] /\ MailOf \in [Signup -> Spelling]
  /\ Lower \in [Spelling -> Spelling]
  /\ \A s \in Spelling : Lower[Lower[s]] = Lower[s]

VARIABLES
  stage,   \* where a request stands
  users    \* the committed rows

regVars == <<stage, users>>

Stage == {"received", "nameFree", "mailFree", "named", "inserted", "committed",
          "created", "refused", "conflict", "failed"}

RegTypeOK ==
  /\ stage \in [Signup -> Stage]
  /\ users \subseteq [id : Signup, username : Spelling, email : Spelling]
  /\ \A u \in users : Lower[u.username] = u.username /\ Lower[u.email] = u.email

RegInit == stage = [r \in Signup |-> "received"] /\ users = {}

Pass(r, from, to) == stage[r] = from /\ stage' = [stage EXCEPT ![r] = to]

-----------------------------------------------------------------------------
\* Faulty variant of Row: the row has what was typed.
RowAsTyped(r) == [id |-> r, username |-> NameOf[r], email |-> MailOf[r]]

Row(r) == [id |-> r, username |-> Lower[NameOf[r]], email |-> Lower[MailOf[r]]]

\* get_by_username and get_by_email.
Named(r) == {u \in users : u.username = Lower[NameOf[r]]}
Mailed(r) == {u \in users : u.email = Lower[MailOf[r]]}

\* Faulty variant of Open: a failed request is not rolled back.
OpenAfterFailure(r) == stage[r] \in {"named", "inserted", "failed"}

\* The request's transaction is open and has entered its user name.
Open(r) == stage[r] \in {"named", "inserted"}

CheckName(r) ==
  /\ Pass(r, "received", IF Named(r) = {} THEN "nameFree" ELSE "refused")
  /\ UNCHANGED users

CheckMail(r) ==
  /\ Pass(r, "nameFree", IF Mailed(r) = {} THEN "mailFree" ELSE "refused")
  /\ UNCHANGED users

\* Faulty variant of InsertName: the column has no unique index.
InsertNameAlways(r) == Pass(r, "mailFree", "named") /\ UNCHANGED users

\* Faulty variant of InsertName: it does not wait for an open transaction.
InsertNameNow(r) ==
  /\ Pass(r, "mailFree", IF Named(r) = {} /\ \A q \in Signup : Open(q) => Lower[NameOf[q]] # Lower[NameOf[r]]
                         THEN "named" ELSE "conflict")
  /\ UNCHANGED users

\* BaseRepository.create, the index on username.  A conflict is an
\* IntegrityError, which PostgreSQL answers by ending the transaction.
InsertName(r) ==
  /\ \A q \in Signup : Open(q) => Lower[NameOf[q]] # Lower[NameOf[r]]
  /\ Pass(r, "mailFree", IF Named(r) = {} THEN "named" ELSE "conflict")
  /\ UNCHANGED users

\* The same INSERT, the index on email.
InsertMail(r) ==
  /\ \A q \in Signup : stage[q] = "inserted" => Lower[MailOf[q]] # Lower[MailOf[r]]
  /\ Pass(r, "named", IF Mailed(r) = {} THEN "inserted" ELSE "conflict")
  /\ UNCHANGED users

CommitUser(r) ==
  /\ Pass(r, "inserted", "committed")
  /\ users' = users \cup {Row(r)}

\* The row is read again and answered.
Reply(r) == Pass(r, "committed", "created") /\ UNCHANGED users

\* A statement or the COMMIT fails, or the process dies: get_db or PostgreSQL
\* rolls back.  After the COMMIT only the answer is lost.
Abort(r) ==
  /\ stage[r] \in {"received", "nameFree", "mailFree", "named", "inserted", "committed"}
  /\ stage' = [stage EXCEPT ![r] = "failed"]
  /\ UNCHANGED users

-----------------------------------------------------------------------------
Register(r) == \/ CheckName(r) \/ CheckMail(r)
               \/ InsertName(r) \/ InsertMail(r)
               \/ CommitUser(r) \/ Reply(r)

RegNext == \E r \in Signup : Register(r) \/ Abort(r)

RegSpec == RegInit /\ [][RegNext]_regVars

\* A request goes on; PostgreSQL serves who waits.
RegFairness == \A r \in Signup : WF_regVars(Register(r))

RegFairSpec == RegSpec /\ RegFairness

-----------------------------------------------------------------------------
(* Properties. *)

(* No two accounts share a user name or an address in any spelling, though  *)
(* the lookups of overlapping requests see nothing of each other: a login   *)
(* (get_by_username, scalar_one_or_none) finds one account or none.         *)
UsersDistinct ==
  \A u, v \in users : u # v => u.username # v.username /\ u.email # v.email

(* Nobody is turned away in favour of a request that fails: one that is     *)
(* refused or meets a conflict has an account in its way, which committed.  *)
LoserHasWinner ==
  \A r \in Signup : stage[r] \in {"refused", "conflict"} => Named(r) \cup Mailed(r) # {}

(* Requests that wait for each other's names and addresses all end: names   *)
(* come before addresses, so nobody waits in a circle.                      *)
Ends == \A r \in Signup : <>(stage[r] \in {"created", "refused", "conflict", "failed"})
=============================================================================
