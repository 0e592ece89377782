CONSTANTS
    Payment = 2
    Amounts <- MCAmounts
    OpKey = OpKey
    None = None
SPECIFICATION FairSpec
INVARIANTS
    ObservationsAreSnapshots
    ReceiptsNameCommits
    VerdictsTellSubjectsApart
    ServerNeverOutlivesDatabase
    WorldsFollowPreflight
    ReportsAcceptTrials
PROPERTIES
    KeepsLedger
    WorldIsClosed
CHECK_DEADLOCK FALSE
