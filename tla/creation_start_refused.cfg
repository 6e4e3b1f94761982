\* A crash between giving a grant back and ending its job.
SPECIFICATION Spec
CONSTANTS
    m1 = m1  m2 = m2  c1 = c1  c2 = c2  g1 = g1
    NoJob = NoJob
    Jobs = {m1}
    Publishing = {m1}
    Grants = {g1}
    GrantOf <- MCGrantOf
    Cancelable = {}
    Platforms = {"linux", "windows"}
    MaxStarts = 2
INVARIANT StartSucceeds
CHECK_DEADLOCK FALSE
