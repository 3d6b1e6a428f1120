CONSTANTS
    Names = {a, b}
    None = None
    MaxAttaches = 3
    MaxShared = 2
    HighWater = 0
SPECIFICATION Spec
INVARIANTS ConnectionOwnsAll PaintsItsOwn NoWedge AttachedIsReal
SYMMETRY Symmetry
