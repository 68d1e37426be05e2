SPECIFICATION Spec
CONSTANTS
    Tabs = {t1, t2}
    Calls = {c1, c2}
    Ops = {"stream", "send", "new", "activate", "delete"}
    MaxAsks = 4
    MaxFaults = 1
    NoTab = NoTab
SYMMETRY TabSymmetry
CHECK_DEADLOCK FALSE
INVARIANTS TypeOK ShownIsActive BusyEnds
