CONSTANTS
    c1 = c1
    i1 = i1
    i2 = i2
    s1 = s1
    s2 = s2
    e1 = e1
    e2 = e2
    CleanAssertions = {c1}
    RetryInvariants = {i1, i2}
    RequirementsOf <- MCRequirements
    State = {s1, s2}
    Event = {e1, e2}
    World <- MCWorld
    Result = {r}
    None = None
    CrossingBound = 2
SPECIFICATION Spec
INVARIANT InterruptLeavesTrial
CHECK_DEADLOCK FALSE
