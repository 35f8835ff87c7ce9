SPECIFICATION FairSpec
CONSTANTS
    r1 = r1
    r2 = r2
    NoRow = NoRow
    Rows = {r1, r2}
    Lease = 2
    SendLimit = 1
    Minute = 1
    MaxShift = 1
    MaxAttempts = 2
    Round = 2
    Busy = 1
    Idle = 4
    Piggyback = 1
    i1 = i1
    Instances = {i1}
    FaultKinds = {"crash", "db", "provider", "stall"}
    MaxErased = 1
    MaxFaults = 2
INVARIANTS
    RetryIsWaitedFor
PROPERTIES
    EveryMailSettles
