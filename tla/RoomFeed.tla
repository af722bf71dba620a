------------------------------ MODULE RoomFeed ------------------------------
(***************************************************************************)
(* What the fan-out of a room promises its connections whatever fails: an  *)
(* event reaches a connection at most once, and only after it has been     *)
(* published.  Events are numbered in the order of their PUBLISH.          *)
(***************************************************************************)
EXTENDS Naturals

CONSTANTS
  Conn,      \* the WebSocket connections to the room
  MaxEvents  \* bound on the number of events

ASSUME FeedAssumption == MaxEvents \in Nat

VARIABLES
  published,  \* the number of events so far
  got         \* how often a connection was sent an event

Event == 1 .. MaxEvents

feedVars == <<published, got>>

FeedInit == published = 0 /\ got = [c \in Conn |-> [e \in Event |-> 0]]

Announce == published < MaxEvents /\ published' = published + 1 /\ UNCHANGED got

\* Send event e to the connections of S.
Hand(e, S) ==
  got' = [c \in Conn |-> IF c \in S THEN [got[c] EXCEPT ![e] = @ + 1] ELSE got[c]]

\* One process sends an event to some of its connections.
HandOnce(e, S) ==
  /\ e <= published
  /\ \A c \in S : got[c][e] = 0
  /\ Hand(e, S)
  /\ UNCHANGED published

FeedNext == Announce \/ \E e \in Event, S \in SUBSET Conn : HandOnce(e, S)

FeedSpec == FeedInit /\ [][FeedNext]_feedVars
=============================================================================
