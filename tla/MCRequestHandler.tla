-------------------------- MODULE MCRequestHandler --------------------------
(* Small instances of RequestHandler for TLC. *)
EXTENDS RequestHandler, TLC

Symmetry == Permutations(Workers)
AllImpolite == {"disconnect", "reset", "quit"}
NoImpolite == {}
Disconnects == {"disconnect"}
=============================================================================
