----------------------------- MODULE MCPipeline -----------------------------
(* Small instances of SpanPipeline for TLC. *)
EXTENDS SpanPipeline, TLC

CONSTANTS s1, s2,   \* spans
          a, b      \* contents with a symbol

\* Spans of two sessions that were at work together: the moment 2 is in the windows of both.
MCSpanAt == s1 :> [start |-> 0, end |-> 1, eff |-> 2, session |-> 1]
         @@ s2 :> [start |-> 1, end |-> 3, eff |-> 4, session |-> 2]
MCOneSpan == s1 :> [start |-> 0, end |-> 1, eff |-> 2, session |-> 1]

ContentSymmetry == Permutations({a, b})
=============================================================================
