CONSTANTS
    Writer = {w1, w2}
    Path = {p1, p2}
    Foreign = Foreign
    None = None
SPECIFICATION Spec
INVARIANTS
    PublishedFilesAreWhole
    SuccessIsExclusive
PROPERTY KeepsPromise
CHECK_DEADLOCK FALSE
