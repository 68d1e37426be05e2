------------------------------ MODULE MCWebUi ------------------------------
(* Small instances of AgentSessions for TLC. *)
EXTENDS AgentSessions, TLC

\* Tabs and requests differ in nothing but their name.
TabSymmetry == Permutations(Tabs) \cup Permutations(Calls)
=============================================================================
