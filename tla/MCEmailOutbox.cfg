SPECIFICATION Spec
CONSTANTS
    r1 = r1
    NoRow = NoRow
    Rows = {r1}
    Lease = 2
    SendLimit = 1
    Minute = 1
    MaxShift = 1
    MaxAttempts = 2
    Round = 1
    Busy = 1
    Idle = 3
    Piggyback = 1
    i1 = i1
    i2 = i2
    Instances = {i1, i2}
    FaultKinds = {"crash", "db", "provider", "stall"}
    MaxErased = 1
    MaxFaults = 3
SYMMETRY Symmetry
INVARIANTS
    OneHolder
    NoRowIsForgotten
PROPERTIES
    Promised
