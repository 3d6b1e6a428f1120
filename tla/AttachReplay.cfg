CONSTANTS
    Names = {a, b}
    None = None
    MaxAttaches = 2
    MaxShared = 0
    HighWater = 0
SPECIFICATION Spec
INVARIANT PaintsOnlyItsOwn
SYMMETRY Symmetry
