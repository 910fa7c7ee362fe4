SPECIFICATION ServicesSpec
CONSTANTS
    Deliveries = {d1}
    Attempts = {a1, a2}
    NoDelivery = NoDelivery
    MaxAttempts = 3
    FailingAt = 2
    MaxTimers = 1
    MaxResends = 1
    MaxCrashes = 1
    MaxSockets = 3
    CircuitFailures = 2
    Tenants = {t1, t2}
    Users = {u, sa}
    SuperAdmins = {sa}
    Requests = {r1}
    JobPasses = {p1}
    NoTenant = NoTenant
    MaxFailures = 1
INVARIANTS ServiceTypesOK PostsCounted FailingIsEarned SingleSocket PendingHasDate OnePurge
PROPERTIES AnsweredOnce  CircuitHolds ReconnectUnlessJoined   DueIsDeleted
CHECK_DEADLOCK FALSE
