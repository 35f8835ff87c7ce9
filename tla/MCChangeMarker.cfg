CONSTANTS
    i1 = i1
    i2 = i2
    w1 = w1
    w2 = w2
    Instances = {i1, i2}
    Writers = {w1, w2}
    Home <- Same
    KeepEntries = 1
    MaxFaults = 1
    MaxStarts = 2
SPECIFICATION Spec
SYMMETRY Symmetry
INVARIANTS NewsKept UnbrokenLooksCatchUp
PROPERTIES EntriesOnlyAdded FollowersLoseNothing
CHECK_DEADLOCK FALSE
