SPECIFICATION Spec
CONSTANTS
    Tabs = {t1, t2}
    Calls = {c1, c2}
    Ops = {"stream", "send", "activate"}
    MaxAsks = 4
    MaxFaults = 0
    NoTab = NoTab
SYMMETRY TabSymmetry
CHECK_DEADLOCK FALSE
INVARIANT OneSessionPerFile
