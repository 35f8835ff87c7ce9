CONSTANTS
    Count = 1
    None = None
    Sessions = {s1}
    Agents = {a1}
    FaultKinds = {"reload", "connection", "crash", "agent", "lapse", "lost", "mount"}
    MaxFaults = 1
    MaxInFlight = 2
SPECIFICATION FairSpec
CHECK_DEADLOCK FALSE
PROPERTIES WaitingEnds DecisionsEnd
