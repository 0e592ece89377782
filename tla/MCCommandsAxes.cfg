CONSTANTS
    q1 = q1
    q2 = q2
    p1 = p1
    p2 = p2
    p3 = p3
    Process = {q1}
    Path = {p1, p2, p3}
    Stdout = Stdout
    Evidence = {as_registered, otherwise}
    Eligible = {as_registered}
    Earlier = Earlier
    Foreign = Foreign
    None = None
    Disturbed = FALSE
SPECIFICATION Spec
INVARIANT AxesDoNotDecideStatus
CHECK_DEADLOCK FALSE
