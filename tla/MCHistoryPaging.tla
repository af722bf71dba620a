--------------------------- MODULE MCHistoryPaging ---------------------------
(* Pages of two while up to five messages come. *)
EXTENDS HistoryPaging, TLC

CONSTANTS m1, m2, m3, m4, m5

Sym == Permutations(Msg)
=============================================================================
