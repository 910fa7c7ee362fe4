SPECIFICATION Spec
CONSTANTS
    d1 = d1  d2 = d2  d3 = d3
    Deps = {d1, d2}
    NoDep = NoDep
    SameIntent <- Distinct
    LockWindow = 2
    StaleAfter = 1
    RecordMayFail = TRUE
    MaxTime = 1
    MaxRestarts = 0
INVARIANTS OneActive
CHECK_DEADLOCK FALSE
