--------------------------- MODULE MCProcessTable ---------------------------
(* Small instances of ProcessTable for TLC. *)
EXTENDS ProcessTable, TLC

Symmetry == Permutations(Threads)
NoFailing == {}
AllFailing == {"pipe", "fork"}
OnlyFork == {"fork"}
=============================================================================
