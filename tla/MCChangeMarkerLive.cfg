CONSTANTS
    i1 = i1
    i2 = i2
    w1 = w1
    w2 = w2
    Instances = {i1, i2}
    Writers = {w1}
    Home <- One
    KeepEntries = 1
    MaxFaults = 0
    MaxStarts = 2
SPECIFICATION FairSpec
PROPERTIES NewsArrives KeptNewsIsTold
CHECK_DEADLOCK FALSE
