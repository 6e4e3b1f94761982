\* An operator, the service, an editor, lost reports and calls that stop anywhere.
SPECIFICATION Spec
CONSTANTS
    s1 = s1  s2 = s2  b1 = b1  b2 = b2  b3 = b3
    Parts = {"project"}
    Snapshots = {s1, s2}
    First = s1
    Builds = {b1, b2, b3}
    BuildsOf <- MCBuildsOf
    NoBuild = NoBuild
    LastPhase = 2
    BuildPhases = {2}
    Operators = {op}
    Studio = Studio
    NoProcess = NoProcess
    NoRequest = NoRequest
    MaxRevision = 4
    MaxServed = 2
    MaxGeneration = 1
    MaxRemoved = 1
SYMMETRY MCSymmetry
INVARIANTS TypeOK HistoryIsClosed
PROPERTIES RecordedTogether StatusAdvances CompletionIsCoherent
CHECK_DEADLOCK FALSE
