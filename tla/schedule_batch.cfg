SPECIFICATION FairSpec
CONSTANTS
    s1 = s1
    s2 = s2
    d1 = d1
    h1 = h1
    Schedules = {s1, s2}
    Dispatchers = {d1}
    Callers = {h1}
    NoSchedule = NoSchedule
    Crons = {1}
    Policies = {"skip"}
    Kinds = {"create", "update", "delete", "trigger"}
    Grace = 0
    BatchSize = 2
    MaxTime = 2
    MaxRequests = 3
    MaxFaults = 1
INVARIANTS TypeOK SkipBoundsOverlap FiredFromNewestInput LostOnlyByCrashOrDelete
PROPERTY AnchorMovesOn
CHECK_DEADLOCK FALSE
