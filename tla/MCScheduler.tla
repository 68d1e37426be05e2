---------------------------- MODULE MCScheduler ----------------------------
(* Small instances of Scheduler for TLC. *)
EXTENDS Scheduler, TLC

CONSTANTS jobA, jobB   \* two jobs; jobA comes first in the Map

MCRank == jobA :> 1 @@ jobB :> 2
MCRankA == jobA :> 1
OnlyA  == {jobA}
OnlyB  == {jobB}
Both   == {jobA, jobB}
None   == {}

\* Clients differ in nothing but their name.
ClientSymmetry == Permutations(Clients)
=============================================================================
