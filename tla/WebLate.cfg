CONSTANTS
    Clients = {c1}
    Sockets = {s1, s2}
    None = None
    StaleAfter = 3
    MaxPending = 1
    MaxMoves = 0
    MaxSlow = 1
SPECIFICATION Spec
INVARIANT ReconnectingIsDown
