CONSTANTS
    Reqs = {r1, r2}
    Addrs = {a1}
    None = None
    MaxCodeAttempts = 5
    FreeFailures = 2
    MaxLockout = 3
    Ttl = 2
SPECIFICATION Spec
INVARIANT FreeGuessesOnly
