SPECIFICATION Spec
CONSTANTS
    u1 = u1
    g1 = g1
    a1 = a1
    a2 = a2
    c1 = c1
    s1 = s1
    s2 = s2
    j1 = j1
    j2 = j2
    j3 = j3
    Addresses = {a1, a2}
    Subjects = {g1}
    Mail <- MailOf
    Users = {u1}
    Home <- HomeOf
    Codes = {c1}
    Sessions = {s1, s2}
    Replaces <- Replaced
    Jobs = {j1, j2, j3}
    MaxTries = 2
    EmailLimit = 3
    Turns = 2
    Nobody = Nobody
    None = None
SYMMETRY Symmetry
INVARIANTS
    TypeOK
    CodeUsedOnce
    GuessesCounted
    OneLivePerFamily
    DeletionEndsSessions
    EndedUnlessOutlived
CHECK_DEADLOCK FALSE
