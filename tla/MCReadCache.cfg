CONSTANTS
    s1 = s1
    s2 = s2
    home = home
    page1 = page1
    page2 = page2
    near1 = near1
    top = top
    Keys = {page1, page2, near1, top}
    Groups = {s1, s2, home}
    GroupOf <- All
    NearbyKeys = {near1}
    Highlights = home
    BodyBytes <- Bodies
    KeyBytes <- Names
    Budget = 4
    Requests = {r1, r2}
    Writers = {w1}
    MaxWrites = 1
SPECIFICATION Spec
SYMMETRY Interchangeable
INVARIANTS IndexExact StoredFresh
CHECK_DEADLOCK FALSE
