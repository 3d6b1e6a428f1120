CONSTANTS
    Devices = {d1}
    Agents = {a1, a2}
    Browsers = {b1, b2}
    None = None
    Lifetime = 1
    MaxBytes = 1
    MaxStreams = 1
    MaxTime = 1
SYMMETRY Symmetry
SPECIFICATION Spec
INVARIANTS StreamsAccounted BrowserCarriedOrTold PlanIsKept
