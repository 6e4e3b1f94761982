SPECIFICATION FairSpec
CONSTANTS
    a = a
    b = b
    p1 = p1
    p2 = p2
    p3 = p3
    NoChangeset = none
    Changesets = {a, b}
    Paths = {p1, p2, p3}
    Order <- MCOrder
    KindOf <- MCKindOf
    Present = {p1, p3}
    EditPaths = {p1, p2}
    Crashes = TRUE
    FaultSteps = {"writing", "staging", "filling", "operating", "moving", "vacant", "linked",
                  "rb_target", "rb_keep", "rb_unlink", "rb_stage", "rb_journal",
                  "finalizing", "cleaning", "release", "scan"}
    MaxFaults = 1
    MaxStarts = 3
INVARIANTS
    TypeOK
    BaseIsReachable
    NoResidue
    RefusalIsExplained
PROPERTIES
    AtomicApply
    OriginalsAreKept
    ServiceReturns
CHECK_DEADLOCK FALSE
