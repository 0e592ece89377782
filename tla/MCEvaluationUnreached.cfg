CONSTANTS
    c1 = c1
    i1 = i1
    i2 = i2
    CleanAssertions = {c1}
    RetryInvariants = {i1}
    RequirementsOf <- MCRequirements
    None = None
SPECIFICATION Spec
INVARIANT UnreachedBoundaryIsNamed
CHECK_DEADLOCK FALSE
