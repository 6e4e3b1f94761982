SPECIFICATION Spec
CONSTANTS
    a = a
    b = b
    p1 = p1
    p2 = p2
    p3 = p3
    NoChangeset = none
    Changesets = {a, b}
    Paths = {p1, p2, p3}
    Order <- MCOrder
    KindOf <- MCKindOf
    Present = {p1, p3}
    EditPaths = {}
    Crashes = TRUE
    FaultSteps = {"committing"}
    MaxFaults = 1
    MaxStarts = 2
INVARIANT
    ReportedCommitIsKept
CHECK_DEADLOCK FALSE
