---------------------------- MODULE Segmentation ----------------------------
(***************************************************************************)
(* computeSpans: where a session's events are cut into spans.  Times are   *)
(* counted in units of ten seconds, and weights in thirds, so that the     *)
(* weight of a long pause is a whole number.  An event has a kind, a time, *)
(* what its text `says` ("done", "test", "completed", "partial" or         *)
(* nothing the scorer looks at) and the topic its identifiers make up.     *)
(***************************************************************************)
EXTENDS Integers, Sequences, FiniteSets

CONSTANT NoTopic   \* a text without identifiers

ShortGap == 3
HardBreak == 30
LinkEps == 12        \* SPAN_LINK_EPS_MS
MinSpanMessages == 2

\* Detection-only events feed the scorer and are not persisted.
Persistable(e) == e.kind \notin {"plan_accepted", "todo_write"}

If(holds, weight) == IF holds THEN weight ELSE 0

Tests(e) == e.kind = "shell_exec" /\ e.says = "test"
Similar(a, b) == a.topic # NoTopic /\ a.topic = b.topic

\* Split signals minus join signals at the boundary between a and b.
Score(a, b) ==
    LET gap == b.at - a.at IN
      If(b.kind = "user_input", 30) + If(a.kind = "plan_accepted", 24)
    + If(a.kind = "agent_message" /\ a.says = "done", 12)
    + If(Tests(a) /\ ~Tests(b), 9) + If(a.kind = "todo_write" /\ a.says = "completed", 9)
    + If(gap > HardBreak, gap - HardBreak)
    - If(Similar(a, b), 15) - If(0 <= gap /\ gap < ShortGap, 9)
    - If(Tests(a) /\ Tests(b), 12) - If(a.kind = "todo_write" /\ a.says = "partial", 6)

Weight(E, i) == LET w == Score(E[i], E[i + 1]) IN IF w < 0 THEN -w ELSE w

\* Boundaries are named by the event on their left.
Cuts(E) == {i \in 1 .. Len(E) - 1 : Score(E[i], E[i + 1]) > 0}

Segments(E, K) ==
    {s \in ({1} \cup {i + 1 : i \in K}) \X (K \cup {Len(E)}) : s[1] <= s[2] /\ \A i \in K : i < s[1] \/ s[2] <= i}

Persisted(E, s) == {i \in s[1] .. s[2] : Persistable(E[i])}
Small(E, K) == {s \in Segments(E, K) : Cardinality(Persisted(E, s)) < MinSpanMessages}

\* The first small segment joins the neighbour behind the weaker boundary, the left one on a tie.
Absorbed(E, K) ==
    LET s == CHOOSE s \in Small(E, K) : \A q \in Small(E, K) : s[1] <= q[1]
        right == s[2] # Len(E) /\ (s[1] = 1 \/ Weight(E, s[2]) < Weight(E, s[1] - 1))
    IN K \ {IF right THEN s[2] ELSE s[1] - 1}

\* mergeSmallBatches, until no segment is small or only one is left.
Merged(E) ==
    LET merge[K \in SUBSET Cuts(E)] ==
            IF K = {} \/ Small(E, K) = {} THEN K ELSE merge[Absorbed(E, K)]
    IN merge[Cuts(E)]

LastOf(S) == CHOOSE i \in S : \A j \in S : j <= i
FirstOf(S) == CHOOSE i \in S : \A j \in S : i <= j

\* The domain of f, by the value of f.
InOrder(f) ==
    [k \in 1 .. Cardinality(DOMAIN f) |->
        CHOOSE x \in DOMAIN f : Cardinality({y \in DOMAIN f : f[y] < f[x]}) = k - 1]

\* The finalised spans, in order of time: each with the events it claims and the one that sums it up.
ComputedSpan(E, s) ==
    LET claimed == Persisted(E, s)
        messages == {i \in claimed : E[i].kind = "agent_message"}
    IN [start |-> E[FirstOf(claimed)].at, end |-> E[LastOf(claimed)].at, events |-> {E[i].uuid : i \in claimed},
        planning |-> \E i \in s[1] .. s[2] : E[i].kind = "plan_accepted",
        summary |-> IF messages = {} THEN LastOf(claimed) ELSE LastOf(messages)]

ComputedSpans(E, now) ==
    {span \in {ComputedSpan(E, s) : s \in {q \in Segments(E, Merged(E)) : Persisted(E, q) # {}}} :
        span.end <= now - HardBreak}
=============================================================================
