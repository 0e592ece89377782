CONSTANTS
    c1 = c1
    i1 = i1
    i2 = i2
    CleanAssertions = {c1}
    RetryInvariants = {i1}
    RequirementsOf <- MCRequirements
    None = None
SPECIFICATION FairSpec
INVARIANTS
    TypeOK
    PassIsSupported
    ErrorsStayOnTheirAxis
    CapturesFollowConclusions
PROPERTIES
    PairsOnlyAdded
    EvaluationEnds
CHECK_DEADLOCK FALSE
