SPECIFICATION CompanySpec
CONSTANTS
    Convs = {c1, c2, c3}
    NoConv = NoConv
    Passes = {s1, s2}
    Limit = 2
    Timeout = 1
    MaxTime = 2
    People = {u1, u2}
    NoPerson = NoPerson
    Actions = {a1, a2}
    Invites = {}
    NoInvite = NoInvite
    MaxUsers = 2
    MaxRequests = 2
    Length <- Year
    DueDays = {1, 2}
    DefaultDay = 1
    ThirtyDays = 2
    GraceDays = 0
    Payments = {p1}
    PaymentKeys = {1, 2}
    Revisers = {r1}
    LastDay <- Last
    MaxChanges = 1
    Texts = {x, y}
    NoText = NoText
    Writers = {w1, w2}
    MaxEdits = 2
    MaxFailures = 1
    MaxDeaths = 1
INVARIANTS LastAdminKept
CHECK_DEADLOCK FALSE
