SPECIFICATION Spec
CONSTANTS
    d1 = d1  d2 = d2  d3 = d3
    Deps = {d1, d2}
    NoDep = NoDep
    SameIntent <- DoubleClick
    LockWindow = 1
    StaleAfter = 0
    RecordMayFail = TRUE
    MaxTime = 2
    MaxRestarts = 1
INVARIANTS LockHolds 
CHECK_DEADLOCK FALSE
