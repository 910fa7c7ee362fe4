SPECIFICATION StaffSpec
CONSTANTS
    ana = ana
    sup = sup
    Users <- MCUsers
    Elevated <- MCElevated
    NoUser = NoUser
    Keep = Keep
    Sweeper = Sweeper
    MaxInbound = 1
    LateEvents <- NoLate
    Ops <- AllOps
    MaxOps = 2
    Hiccups <- AllHiccups
    ResumeOnReturn = TRUE
    ReopenMode = TRUE
INVARIANTS
    AutoCloseGuarded
    OneWinner
    EligibleAtSend
CHECK_DEADLOCK FALSE
