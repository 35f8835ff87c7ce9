CONSTANTS
    Processes = {p1, p2, p3}
    Nobody = Nobody
    Sessions = {s1, s2}
    Variants = {v1}
    Torn = Torn
    MaxFaults = 1
SPECIFICATION Spec
SYMMETRY Symmetry
CHECK_DEADLOCK FALSE
INVARIANTS TypeOK OneWriter AppliedOnce DoubledWhenLeftBehind ReceiptsHold
