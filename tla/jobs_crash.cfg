\* The service may be killed at any point; workers survive it.
SPECIFICATION Spec
CONSTANTS
    x1 = x1  x2 = x2  m1 = m1  old = old  s1 = s1  s2 = s2  t1 = t1
    NoJob = NoJob
    Jobs = {x1, x2, old}
    Sources = {s1, s2}
    Targets = {t1}
    KindOf <- MCKind
    SourceOf <- MCSource
    TargetOf <- MCTarget
    OpOf <- Materialize
    Revocable = {t1}
    DriftingSources = {}
    ForeignTargets = {t1}
    BusyTimeouts = TRUE
    Crashes = TRUE
    MaxStarts = 2
INVARIANTS RunningIsOwned ReservationsMatchJobs SucceededIsPublished
PROPERTIES NoSecondExecution VisibleBytesStay
CHECK_DEADLOCK FALSE
