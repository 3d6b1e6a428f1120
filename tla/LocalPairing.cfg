CONSTANTS
    Reqs = {r1, r2}
    Addrs = {a1, a2}
    None = None
    MaxCodeAttempts = 3
    FreeFailures = 2
    MaxLockout = 3
    Ttl = 2
SPECIFICATION Spec
INVARIANTS OneUseCode GuessesAreBounded
