SPECIFICATION Spec
CONSTANTS
    jobA = jobA
    jobB = jobB
    Jobs <- OnlyA
    NoJob = NoJob
    RunIds = {1, 2, 3, 4, 5}
    NoRun = NoRun
    DefaultOn <- OnlyA
    Rank <- MCRankA
    InsertJobs <- None
    StateJobs <- None
    TimerJobs <- OnlyA
    Clients = {c1, c2}
    Entries = {"on", "off"}
    Ops = {"now", "toggle"}
    MaxNodes = 0
    MaxOrphans = 1
SYMMETRY ClientSymmetry
INVARIANTS OneDaemonRun RunningRowHasOpenRun
