SPECIFICATION FairSpec
CONSTANTS
    jobA = jobA
    jobB = jobB
    Jobs <- Both
    NoJob = NoJob
    RunIds = {1, 2}
    NoRun = NoRun
    DefaultOn <- OnlyA
    Rank <- MCRank
    InsertJobs <- OnlyA
    StateJobs <- None
    TimerJobs <- OnlyB
    Clients = {}
    Entries = {"on", "off"}
    Ops = {"uiTrigger"}
    MaxNodes = 1
    MaxOrphans = 0
INVARIANTS TypeOK NoLostWakeup NoRowForgotten CursorSafe
PROPERTIES ImplementsQueue FirstIsServed
