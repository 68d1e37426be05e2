---------------------------- MODULE MCGraphStore ----------------------------
(* Small instances of GraphStore for TLC. *)
EXTENDS GraphStore, TLC

\* A versioned symbol type.
Symbol == "LspFunction"

OneType  == {Symbol}
TwoStates == Symbol :> <<"new", "final">>

\* Clients differ in nothing but their name.
ClientSymmetry == Permutations(Clients)
=============================================================================
