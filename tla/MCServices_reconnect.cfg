SPECIFICATION ServicesSpec
CONSTANTS
    Deliveries = {d1}
    Attempts = {a1}
    NoDelivery = NoDelivery
    MaxAttempts = 1
    FailingAt = 2
    MaxTimers = 1
    MaxResends = 0
    MaxCrashes = 0
    MaxSockets = 2
    CircuitFailures = 2
    Tenants = {t1, t2}
    Users = {u, sa}
    SuperAdmins = {sa}
    Requests = {}
    JobPasses = {p1}
    NoTenant = NoTenant
    MaxFailures = 1
PROPERTIES ReconnectHappens
CHECK_DEADLOCK FALSE
