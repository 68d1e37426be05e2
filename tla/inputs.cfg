SPECIFICATION Spec
CONSTANTS
    Injected = {"injected"}
    Envelopes = {"envelope"}
    WithPlan = {"plan"}
    TrivialCommands = {"cd"}
    Interesting = {"test"}
    MaxActs = 3
    MaxClauses = 2
    Limit = 1
    MaxPieces = 2
    LspKeys = {"lsp", "lsp:api"}
    Globs <- MCGlobs
    Home <- MCHome
    Dotted = {".git", ".coffeecode"}
    Graph <- MCGraph
    Matching <- MCMatching
    Nearest <- MCNearest
    Times <- MCTimes
INVARIANT SameTurnSameEvents
INVARIANT EveryRowIsClaimable
INVARIANT QueryMeansEveryClause
INVARIANT SearchIsBreadthFirst
INVARIANT LiteralsInEveryMatch
INVARIANT SetUpBecomesJobs
INVARIANT HistoryIsWhatWasShown
