\* A game and a compilation, one crash, busy locks; nobody cancels a running job.
SPECIFICATION FairSpec
CONSTANTS
    m1 = m1  m2 = m2  c1 = c1  c2 = c2  g1 = g1
    NoJob = NoJob
    Jobs = {m1, c1}
    Publishing = {m1}
    Grants = {g1}
    GrantOf <- MCGrantOf
    Cancelable = {}
    Platforms = {"linux"}
    MaxStarts = 2
PROPERTIES RunningIsSettled QueuedIsClaimed
CHECK_DEADLOCK FALSE
