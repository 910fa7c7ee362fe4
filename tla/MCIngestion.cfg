SPECIFICATION EdgeSpec
CONSTANTS
    e1 = e1  e2 = e2
    c1 = c1  c2 = c2  c3 = c3  c4 = c4  c5 = c5  c6 = c6
    r1 = r1  r2 = r2  r3 = r3
    Handlers = {h1, h2}
    Events = {e1, e2}
    NoEvent = NoEvent
    content <- Ratings
    Closers = {a1, a2}
    ReopenMode = TRUE
    MaxDeliveries = 2
    MaxThrows = 1
    Calls = {c1, c2, c3, c4, c5, c6}
    Keys = {}
    NoKey = NoKey
    NoCall = NoCall
    Recipients = {r1, r2, r3}
    key <- BurstKey
    to <- BurstTo
    Proactive = {c6}
    TTL = 1
    Window = 2
    MaxPerChannel = 2
    MaxPerRecipient = 1
    MaxTime = 4
    MaxRestarts = 0
INVARIANTS StoredOnce  FeedbackOnce  RateRespected
PROPERTIES Kept
CHECK_DEADLOCK FALSE
