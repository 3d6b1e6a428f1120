CONSTANTS
    k1 = k1
    k2 = k2
    Keys = {k1, k2}
    Owner <- TwoDevices
    None = None
    MaxKeyring = 2
    MaxLines = 2
    MaxFaults = 1
SPECIFICATION FairSpec
INVARIANTS InOrderNoGaps HealthySurvives GatedByAdmission ForgottenStaysOut
PROPERTIES LinesArrive
CHECK_DEADLOCK FALSE
