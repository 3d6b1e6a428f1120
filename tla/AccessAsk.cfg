CONSTANTS
    Devices = {d1, d2}
    Requests = {r1, r2}
    BrowserKeys = {k1, k2}
    None = None
    Ttl = 2
    AnswerTime = 1
    r1 = r1
    r2 = r2
    MaxSends <- Talk
    MaxTime = 2
SYMMETRY Symmetry
SPECIFICATION Spec
INVARIANTS MapsAgree HonestQuestion ApprovedByTarget
