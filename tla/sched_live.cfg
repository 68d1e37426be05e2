SPECIFICATION FairSpec
CONSTANTS
    jobA = jobA
    jobB = jobB
    Jobs <- OnlyA
    NoJob = NoJob
    RunIds = {1, 2}
    NoRun = NoRun
    DefaultOn <- None
    Rank <- MCRankA
    InsertJobs <- None
    StateJobs <- OnlyA
    TimerJobs <- None
    Clients = {c1, c2}
    Entries = {"default", "on", "off"}
    Ops = {"toggle","list","trigger","uiTrigger"}
    MaxNodes = 0
    MaxOrphans = 0
PROPERTIES ConfigWins DisabledComesToRest ManualTriggerServed
