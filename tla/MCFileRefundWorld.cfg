CONSTANTS
    Payment = 3
    Amounts <- MCAmounts
    Keys = {"refund-key-001", "refund-key-002"}
    None = None
    RecordSize = 2
    MaxSize = 4
    CallBound = 3
SPECIFICATION FairSpec
INVARIANTS
    WholeJournalIsReadable
    ObservationsFollowReceipts
    SubjectsAreToldApart
PROPERTIES
    UnreadableIsFinal
    KeepsLedger
    KeepsJournal
    WorldIsClosed
CHECK_DEADLOCK FALSE
