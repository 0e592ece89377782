CONSTANTS
    q1 = q1
    q2 = q2
    p1 = p1
    p2 = p2
    p3 = p3
    Process = {q1, q2}
    Path = {p1, p2, p3}
    Stdout = Stdout
    Evidence = {as_registered, otherwise}
    Eligible = {as_registered}
    Earlier = Earlier
    Foreign = Foreign
    None = None
    Disturbed = TRUE
SPECIFICATION Spec
INVARIANTS
    StatusIsTrue
    ReportsDescribeEvidence
    LineageIsTrue
SYMMETRY Interchangeable
CHECK_DEADLOCK FALSE
