SPECIFICATION MessagesSpec
CONSTANTS
    ana = ana
    sup = sup
    Users <- MCUsers
    Elevated <- MCElevated
    NoUser = NoUser
    Keep = Keep
    Sweeper = Sweeper
    MaxInbound = 2
    LateEvents <- FirstIsLate
    Ops <- AssumeOps
    MaxOps = 1
    Hiccups <- NoHiccups
    ResumeOnReturn = TRUE
    ReopenMode = TRUE
INVARIANTS
    AiAnswersOnce
PROPERTIES
    InboundHandled
    IdleCloses
CHECK_DEADLOCK FALSE
