CONSTANTS
    Devices = {d1}
    Agents = {a1, a2}
    Browsers = {b1}
    None = None
    Lifetime = 1
    MaxBytes = 0
    MaxStreams = 1
    MaxTime = 2
SPECIFICATION FairSpec
PROPERTIES LifetimeEnds
