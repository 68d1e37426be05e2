SPECIFICATION Spec
CONSTANTS
    Types <- OneType
    States <- TwoStates
    WithHistory <- OneType
    NoState = "null"
    Keys = {k1}
    Required = {}
    Clients = {c1, c2}
    Ops = {"insert", "patch", "bump", "append"}
    Shapes = {"absent", "list"}
    Asked = {"null"}
    HeadsOnly = FALSE
    MaxRows = 3
SYMMETRY ClientSymmetry
INVARIANTS TypeOK HistoryIsUnbroken RefsAreIndexed LiveRowsAreWhole
