------------------------------ MODULE MCAccounts ------------------------------
(* Two instances side by side, for the tables are apart: the tokens of one  *)
(* client with overlapping requests, or four registrations of which each    *)
(* two that are neighbours in a circle ask for the same user name or the    *)
(* same address, in another spelling.                                       *)
EXTENDS TokenRotation, Registration, TLC

CONSTANTS client, r1, r2, r3, r4

MCClientOf == [r \in Req |-> client]

MCSpelling == {"alice", "bob", "Bob", "a@x", "A@x", "b@x"}
MCNameOf == r1 :> "alice" @@ r2 :> "alice" @@ r3 :> "bob" @@ r4 :> "Bob"
MCMailOf == r1 :> "a@x" @@ r2 :> "b@x" @@ r3 :> "A@x" @@ r4 :> "b@x"
MCLower == [s \in MCSpelling |->
              CASE s = "Bob" -> "bob" [] s = "A@x" -> "a@x" [] OTHER -> s]

\* Each run looks at one of the two; the requests of the other have failed.
TokensOnly == Init /\ stage = [r \in Signup |-> "failed"] /\ users = {}

SignupsOnly ==
  /\ RegInit
  /\ pc = [r \in Req |-> "failed"] /\ old = [r \in Req |-> NoReq]
  /\ before = [r \in Req |-> {}] /\ token = [r \in Req |-> "none"] /\ expired = {}
  /\ updater = [r \in Req |-> NoReq] /\ held = [c \in Client |-> NoReq]

AccountsNext == (Next /\ UNCHANGED regVars) \/ (RegNext /\ UNCHANGED vars)

AccountsSpec ==
  /\ TokensOnly \/ SignupsOnly
  /\ [][AccountsNext]_<<vars, regVars>>
  /\ RegFairness
=============================================================================
