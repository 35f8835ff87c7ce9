SPECIFICATION Spec
CONSTANTS
    u1 = u1
    p1 = p1
    p2 = p2
    v1 = v1
    v2 = v2
    s1 = s1
    s2 = s2
    j1 = j1
    j2 = j2
    j3 = j3
    Users = {u1}
    Shops = {s1, s2}
    Posts = {p1, p2}
    Author <- OneAuthor
    Proofs = {v1, v2}
    Visitor <- OneVisitor
    Jobs = {j1, j2, j3}
    Nobody = Nobody
    None = None
    Live = Live
SYMMETRY Symmetry
INVARIANTS
    ProofUsedOnce
    DriftHasACause
PROPERTIES
    DecisionsStand
CHECK_DEADLOCK FALSE
