\* Orderly lifetimes: revocations, lock timeouts, foreign bytes, drift, shutdown, restart.
SPECIFICATION Spec
CONSTANTS
    x1 = x1  x2 = x2  m1 = m1  old = old  s1 = s1  s2 = s2  t1 = t1
    NoJob = NoJob
    Jobs = {x1, x2, m1}
    Sources = {s1, s2}
    Targets = {t1}
    KindOf <- MCKind
    SourceOf <- MCSource
    TargetOf <- MCTarget
    OpOf <- Extract
    Revocable = {t1}
    DriftingSources = {s1}
    ForeignTargets = {t1}
    BusyTimeouts = TRUE
    Crashes = FALSE
    MaxStarts = 2
INVARIANTS TypeOK ReapedBeforeRecorded FirstInFirstOut
PROPERTY LeasesAreKept
CHECK_DEADLOCK FALSE
