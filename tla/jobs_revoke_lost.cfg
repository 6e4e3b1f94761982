\* An acknowledged revocation.
SPECIFICATION Spec
CONSTANTS
    x1 = x1  x2 = x2  m1 = m1  old = old  s1 = s1  s2 = s2  t1 = t1
    NoJob = NoJob
    Jobs = {x1}
    Sources = {s1, s2}
    Targets = {t1}
    KindOf <- MCKind
    SourceOf <- MCSource
    TargetOf <- MCTarget
    OpOf <- Package
    Revocable = {s1}
    DriftingSources = {}
    ForeignTargets = {}
    BusyTimeouts = TRUE
    Crashes = FALSE
    MaxStarts = 1
PROPERTIES RevocationSticks
CHECK_DEADLOCK FALSE
