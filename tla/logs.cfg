SPECIFICATION FairSpec
CONSTANTS
    NoTopic = NoTopic
    EventKinds <- MCKinds
    Gaps = {5, 40}
    MaxEvents = 3
    MaxCrashes = 1
    Hashed = TRUE
    Refusals <- MCRefusals
INVARIANTS TypeOK SpannedIsClaimed OneSpanPerStart
PROPERTY TailGetsSpanned
