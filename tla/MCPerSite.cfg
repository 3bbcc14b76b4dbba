SPECIFICATION MCSpec
CONSTANTS
    Parts = {"tunnels", "named", "instances"}
    HealthCheckWindow = 1
    BackoffInitial = 1
    BackoffMax = 2
    MaxRestartAttempts = 2
    StopGrace = 1
    FactorBits = 4
    NoPid = NoPid
    NoTask = NoTask
    Sites = {s1}
    Pids = {p1, p2, p3}
    Tasks = {t1, t2}
    Stubborn = {p1}
    MaxRequests = 2
    Names = {n1, n2}
    NoName = NoName
    TunnelSites = {s1}
    Callers = {t1, t2}
    NoCaller = NoTask
    MaxEvents = 2
    Owners = {n1, n2}
    Workers = {t1, t2}
    Absent = Absent
    AutoStart = auto
    Ports = {q0, q1, q2}
    Default = q1
    Reserved = {q0}
    MaxWork = 2
SYMMETRY Symmetry
INVARIANTS QuickTunnelIsOwned NamedTunnelIsRecorded InstanceIsServed
PROPERTY TunnelsAreSupervised
CHECK_DEADLOCK FALSE
