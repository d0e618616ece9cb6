SPECIFICATION Spec
CONSTANTS
    s1 = s1
    d1 = d1
    h1 = h1
    Schedules = {s1}
    Dispatchers = {d1}
    Callers = {h1}
    NoSchedule = NoSchedule
    Crons = {1}
    Policies = {"allow"}
    Kinds = {"create", "update", "disable"}
    Grace = 0
    BatchSize = 1
    MaxTime = 2
    MaxRequests = 3
    MaxFaults = 0
PROPERTY DisabledNeverFires
CHECK_DEADLOCK FALSE
