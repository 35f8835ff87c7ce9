CONSTANTS
    Stores = {}
    AnyList = AnyList
    Readers = {r1}
    Writers = {w1, w2}
    NoCopy = NoCopy
    MaxAge = 1
    FreshFor = 1
    ReloadEvery = 1
    RetryAfter = 1
    MaxWrites = 2
SPECIFICATION FairSpec
INVARIANTS ListsFresh
PROPERTIES CopyCatchesUp
