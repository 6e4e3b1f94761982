\* Progress when service transactions fit in the busy timeout.
SPECIFICATION FairSpec
CONSTANTS
    x1 = x1  x2 = x2  m1 = m1  old = old  s1 = s1  s2 = s2  t1 = t1
    NoJob = NoJob
    Jobs = {x1, m1}
    Sources = {s1, s2}
    Targets = {t1}
    KindOf <- MCKind
    SourceOf <- MCSource
    TargetOf <- MCTarget
    OpOf <- Package
    Revocable = {}
    DriftingSources = {s1}
    ForeignTargets = {t1}
    BusyTimeouts = FALSE
    Crashes = FALSE
    MaxStarts = 2
PROPERTIES QueuedIsClaimed RunningIsSettled ShutdownCompletes
CHECK_DEADLOCK FALSE
