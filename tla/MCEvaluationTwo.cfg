CONSTANTS
    c1 = c1
    i1 = i1
    i2 = i2
    CleanAssertions = {}
    RetryInvariants = {i1, i2}
    RequirementsOf <- MCTwoRequirements
    None = None
SPECIFICATION Spec
INVARIANTS
    FailIsReproduced
    CandidateNeverPasses
SYMMETRY SymmetricInvariants
CHECK_DEADLOCK FALSE
