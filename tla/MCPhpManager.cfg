SPECIFICATION MCSpec
CONSTANTS
    HealthCheckWindow = 1
    BackoffInitial = 1
    BackoffMax = 2
    MaxRestartAttempts = 2
    StopGrace = 1
    FactorBits = 4
    NoPid = NoPid
    NVersions = 2
    Pids = {p1, p2}
    Clients = {c1, c2}
    Stubborn = {p1}
INVARIANT NoOrphan
PROPERTIES PoolsAreSupervised StopLeavesNothing RequestsAnswered
