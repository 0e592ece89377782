CONSTANTS
    World = {w1, w2}
    Result = {r1, r2}
    None = None
    CrossingBound = 3
SPECIFICATION FairSpec
INVARIANTS
    TypeOK
    OutcomeMatchesEvidence
    RetryOnlyAfterLoss
PROPERTIES
    EvidenceIsWriteOnce
    KeepsOneLossPromise
    ScheduleEnds
CHECK_DEADLOCK FALSE
