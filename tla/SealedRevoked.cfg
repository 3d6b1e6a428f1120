CONSTANTS
    k1 = k1
    k2 = k2
    Keys = {k1, k2}
    Owner <- TwoDevices
    None = None
    MaxKeyring = 2
    MaxLines = 2
    MaxFaults = 1
SPECIFICATION Spec
INVARIANT RevokedIsGone
CHECK_DEADLOCK FALSE
