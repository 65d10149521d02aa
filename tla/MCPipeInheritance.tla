-------------------------- MODULE MCPipeInheritance --------------------------
(* Small instances of PipeInheritance for TLC. *)
EXTENDS PipeInheritance, TLC

Symmetry == Permutations(Threads)
=============================================================================
