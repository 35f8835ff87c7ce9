CONSTANTS
    Stores = {s1}
    AnyList = AnyList
    Readers = {r1, r2}
    Writers = {w1}
    NoCopy = NoCopy
    MaxAge = 2
    FreshFor = 1
    ReloadEvery = 1
    RetryAfter = 1
    MaxWrites = 1
SPECIFICATION Spec
SYMMETRY Interchangeable
INVARIANTS TypeOK CopyInPlaceIsFresh
PROPERTIES CopyNeverGoesBack StalePageOnlyFromReplacedCopy
