CONSTANTS
    Devices = {d1}
    Machine = Machine
    Conns = {c1, c2}
    Ips = {i1}
    None = None
    MaxConns = 2
    MaxPerIp = 2
    MaxHangups = 2
    Grace = 1
    RefusalGrace = 1
SPECIFICATION Spec
INVARIANTS SeatsAccounted RevokedHangsUp WaitersHear
PROPERTY AsksWhenItMust
SYMMETRY Alike
