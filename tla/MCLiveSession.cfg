CONSTANTS
    Count = 2
    None = None
    Sessions = {s1}
    Agents = {a1, a2}
    FaultKinds = {"reload", "connection", "crash", "agent", "lapse", "lost", "mount", "edit"}
    MaxFaults = 1
    MaxInFlight = 2
SPECIFICATION Spec
SYMMETRY Symmetry
CHECK_DEADLOCK FALSE
INVARIANTS GeneratedTwiceOnlyWhenRelet NobodyWaitsBesideWork DecisionRetiresGeneration ForgottenDecisionWasStrayed
PROPERTIES DecidedStaysDecided
