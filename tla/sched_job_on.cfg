SPECIFICATION FairSpec
CONSTANTS
    jobA = jobA
    jobB = jobB
    Jobs <- OnlyA
    NoJob = NoJob
    RunIds = {1, 2}
    NoRun = NoRun
    DefaultOn <- None
    Rank <- MCRankA
    InsertJobs <- None
    StateJobs <- None
    TimerJobs <- OnlyA
    Clients = {c1}
    Entries = {"off"}
    Ops = {"toggle"}
    MaxNodes = 0
    MaxOrphans = 0
PROPERTY EnableArmsTimers
