SPECIFICATION Spec
CONSTANTS
    ana = ana
    sup = sup
    Users <- MCUsers
    Elevated <- MCElevated
    NoUser = NoUser
    Keep = Keep
    Sweeper = Sweeper
    MaxInbound = 2
    LateEvents <- NoLate
    Ops <- NoOps
    MaxOps = 0
    Hiccups <- AsksHuman
    ResumeOnReturn = FALSE
    ReopenMode = TRUE
PROPERTIES
    QueueGate
CHECK_DEADLOCK FALSE
