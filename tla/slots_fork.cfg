SPECIFICATION Spec
CONSTANTS
    desk = desk
    laptop = laptop
    p1 = p1
    p2 = p2
    p3 = p3
    v1 = v1
    v2 = v2
    Machines = {desk, laptop}
    Processes = {p1, p2, p3}
    Home <- MCHome
    NoProcess = none
    Payloads = {v1, v2}
    NoPayload = nothing
    Legacy <- MCLegacy
    MaxGenerations = 3
    Unpowered = {desk}
    MaxArrivals = 2
SYMMETRY MCSymmetry
INVARIANTS
    TypeOK
    AcknowledgedSavesStay
    AloneIsReadable
    ForkIsResolvable
    MigrationKeepsDocument
CHECK_DEADLOCK FALSE
