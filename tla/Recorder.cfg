CONSTANTS
    Ids = {r1, r2}
    Sessions = {s1}
    Panes = {p1}
    None = None
    MaxTotal = 1
    MaxBoots = 2
    MaxTurns = 1
SPECIFICATION Spec
INVARIANTS IndexTellsTruth NothingLeftBehind SweptClean
CHECK_DEADLOCK FALSE
SYMMETRY Symmetry
