CONSTANTS
    Clients = {c1}
    Sockets = {s1, s2}
    None = None
    StaleAfter = 3
    MaxPending = 2
    MaxMoves = 3
    MaxSlow = 1
SPECIFICATION FairSpec
INVARIANTS OneSocketOneTimer NothingStranded
PROPERTIES OnlyAPersonBringsItBack ComesBack
