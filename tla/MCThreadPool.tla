---------------------------- MODULE MCThreadPool ----------------------------
(* Small instances of ThreadPool for TLC. *)
EXTENDS ThreadPool, TLC

\* Workers are interchangeable; used by the run that checks safety only.
Symmetry == Permutations(Workers)
=============================================================================
