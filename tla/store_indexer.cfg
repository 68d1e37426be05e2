SPECIFICATION Spec
CONSTANTS
    Types <- OneType
    States <- TwoStates
    WithHistory <- OneType
    NoState = "null"
    Keys = {k1}
    Required = {}
    Clients = {c1}
    Ops = {"insert", "overwrite", "bump", "deleteBump", "setState"}
    Shapes = {"absent", "list", "ref"}
    Asked = {"null"}
    HeadsOnly = TRUE
    MaxRows = 3
CHECK_DEADLOCK FALSE
INVARIANTS OneHeadPerTimeline
PROPERTIES HiddenWithHolder ImplementsTimelines
