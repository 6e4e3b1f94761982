\* A lost report and an edit before one reconciliation.
SPECIFICATION Spec
CONSTANTS
    s1 = s1  s2 = s2  b1 = b1  b2 = b2  b3 = b3
    Parts = {"project"}
    Snapshots = {s1, s2}
    First = s1
    Builds = {b1, b2, b3}
    BuildsOf <- MCBuildsOf
    NoBuild = NoBuild
    LastPhase = 2
    BuildPhases = {2}
    Operators = {op}
    Studio = Studio
    NoProcess = NoProcess
    NoRequest = NoRequest
    MaxRevision = 3
    MaxServed = 2
    MaxGeneration = 0
    MaxRemoved = 1
SYMMETRY MCSymmetry
INVARIANT ReportsMatchSnapshot
CHECK_DEADLOCK FALSE
