CONSTANTS
    Devices = {d1}
    Machine = Machine
    Conns = {c1}
    Ips = {i1}
    None = None
    MaxConns = 1
    MaxPerIp = 1
    MaxHangups = 0
    Grace = 1
    RefusalGrace = 1
SPECIFICATION Spec
PROPERTY RevokeSparesLive
