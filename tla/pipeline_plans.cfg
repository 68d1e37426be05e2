SPECIFICATION FairSpec
CONSTANTS
    s1 = s1
    s2 = s2
    a = a
    b = b
    CodeFiles = {}
    PlanFiles = {plan}
    Contents = {a, empty}
    Gone = gone
    Empty = empty
    MaxTime = 3
    MaxEdits = 2
    MaxCrashes = 1
    Spans = {s1}
    NoSpan = nospan
    SpanAt <- MCOneSpan
    Faults = {"read", "gc", "embed"}

CHECK_DEADLOCK FALSE
INVARIANT PlanNotLost
PROPERTIES ManifestCatchesUp SpanGetsIndexed
