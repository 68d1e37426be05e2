------------------------------- MODULE Search -------------------------------
(***************************************************************************)
(* The search with a depth: from the nodes found along their references,   *)
(* hop after hop.                                                          *)
(***************************************************************************)
EXTENDS Naturals

CONSTANTS
    Graph         \* node -> [kind, value, type, hidden, live, created, updated, parts, refs]: `parts' are pairs
                  \* of a key, or "item", and a node; `refs' its rows of node_refs

Nodes == DOMAIN Graph
IsHidden(n) == Graph[n].hidden
CollectOutgoingNamedRefs(n) == Graph[n].refs

\* What the frontier refers to and was not seen.
Ahead(before) == (UNION {CollectOutgoingNamedRefs(n) : n \in before.frontier}) \ before.seen
MayShow(n, includeHidden) == includeHidden \/ ~IsHidden(n)

\* Mutant of Hop: hidden nodes are walked through.
HopThroughHidden(before, h, includeHidden) ==
    [seen |-> before.seen \cup Ahead(before), frontier |-> Ahead(before),
     out |-> before.out \cup {<<n, h>> : n \in {m \in Ahead(before) : MayShow(m, includeHidden)}}]
\* The h-th hop.  (Every row of nodes stays, so that buildSummary finds what a reference names.)
Hop(before, h, includeHidden) ==
    LET next == {n \in Ahead(before) : MayShow(n, includeHidden)}
    IN [seen |-> before.seen \cup next, frontier |-> next, out |-> before.out \cup {<<n, h>> : n \in next}]

\* expandByDepth: each node with the hop that reached it.
Expand(seeds, depth, includeHidden) ==
    LET hop[h \in 0 .. depth] ==
            IF h = 0 THEN [seen |-> seeds, frontier |-> seeds, out |-> {<<n, 0>> : n \in seeds}]
            ELSE Hop(hop[h - 1], h, includeHidden)
    IN hop[depth].out

\* What a search by breadth shows: the seeds, and each node once, at its distance from the seeds, and
\* never at or through a hidden one.
BreadthFirst(shown, seeds, depth, includeHidden) ==
    /\ \A n \in seeds : <<n, 0>> \in shown
    /\ \A x \in shown :
           /\ MayShow(x[1], includeHidden)
           /\ \A y \in shown : y[1] = x[1] => y = x
           /\ IF x[2] = 0 THEN x[1] \in seeds
              ELSE \E y \in shown : y[2] = x[2] - 1 /\ x[1] \in CollectOutgoingNamedRefs(y[1])
           /\ x[2] < depth =>
               \A m \in CollectOutgoingNamedRefs(x[1]) : MayShow(m, includeHidden) => \E h \in 0 .. x[2] + 1 : <<m, h>> \in shown
=============================================================================
