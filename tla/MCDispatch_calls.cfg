SPECIFICATION OutboundSpec
CONSTANTS
    c1 = c1  c2 = c2  c3 = c3  k1 = k1  k2 = k2  r1 = r1  ana = ana  sup = sup
    Calls = {c1, c2, c3}
    Keys = {k1}
    NoKey = NoKey
    NoCall = NoCall
    Recipients = {r1}
    key <- OneKey
    to <- OneCustomer
    Proactive = {c3}
    kind <- TurnsKind
    agent <- TurnsAgent
    TTL = 1
    Window = 1
    MaxPerChannel = 2
    MaxPerRecipient = 2
    MaxTime = 3
    MaxRestarts = 1
INVARIANTS OneRunPerKey SendsApart IdempotentMeansSent 
PROPERTIES KeyedSends EveryCallReturns 
CHECK_DEADLOCK FALSE
