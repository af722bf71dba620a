---------------------------- MODULE MCChatSession ----------------------------
(* Two sessions of one user in a room, as two tabs, and up to three messages. *)
EXTENDS ChatSession, TLC

CONSTANTS s1, s2, u1, m1, m2, m3

TabsOf == [s \in {s1, s2} |-> u1]

\* A frame names one message, once or twice.
MCBatch == {[NoIds EXCEPT ![m] = n] : m \in Msg, n \in 1 .. 2}

\* Messages are interchangeable: no constant tells one from another.
Symmetry == Permutations(Msg)
=============================================================================
