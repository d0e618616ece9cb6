SPECIFICATION Spec
CONSTANTS
    s1 = s1
    d1 = d1
    d2 = d2
    h1 = h1
    h2 = h2
    Schedules = {s1}
    Dispatchers = {d1, d2}
    Callers = {h1, h2}
    NoSchedule = NoSchedule
    Crons = {1}
    Policies = {"allow"}
    Kinds = {"create", "update", "enable", "disable", "delete"}
    Grace = 1
    BatchSize = 1
    MaxTime = 2
    MaxRequests = 3
    MaxFaults = 1
INVARIANTS AtMostOncePerAnchor InputIsThere
PROPERTY ImplementsFiringContract
SYMMETRY TwoReplicas
CHECK_DEADLOCK FALSE
