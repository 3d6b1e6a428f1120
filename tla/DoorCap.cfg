CONSTANTS
    Devices = {d1}
    Machine = Machine
    Conns = {c1, c2}
    Ips = {i1}
    None = None
    MaxConns = 2
    MaxPerIp = 1
    MaxHangups = 1
    Grace = 1
    RefusalGrace = 1
SPECIFICATION Spec
INVARIANT PerIpCap
