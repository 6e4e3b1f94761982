\* Two games for one destination, one crash, cancellations and recoveries.
SPECIFICATION Spec
CONSTANTS
    m1 = m1  m2 = m2  c1 = c1  c2 = c2  g1 = g1
    NoJob = NoJob
    Jobs = {m1, m2}
    Publishing = {m1, m2}
    Grants = {g1}
    GrantOf <- MCGrantOf
    Cancelable = {m1, m2}
    Platforms = {"linux", "windows"}
    MaxStarts = 2
INVARIANTS
    TypeOK
    SucceededIsPublished
    AcceptedCancelHolds
    VisibleIsAuthorized
    FreeGrantIsClean
    ResumeIsDecided
    PrivateFilesAreOwned
    NoWorkerSurvives
    RunningIsHeld
CHECK_DEADLOCK FALSE
