SPECIFICATION Spec
CONSTANTS
    s1 = s1
    s2 = s2
    a = a
    b = b
    CodeFiles = {code}
    PlanFiles = {}
    Contents = {a, b, empty}
    Gone = gone
    Empty = empty
    MaxTime = 4
    MaxEdits = 3
    MaxCrashes = 1
    Spans = {s1, s2}
    NoSpan = nospan
    SpanAt <- MCSpanAt
    Faults = {"gc"}
SYMMETRY ContentSymmetry
CHECK_DEADLOCK FALSE
INVARIANTS TypeOK AttributedInTime
PROPERTIES SavedMeansApplied FrozenOnceFinal
