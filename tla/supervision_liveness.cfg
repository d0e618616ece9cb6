SPECIFICATION FairSpec
CONSTANTS
    r1 = r1
    w1 = w1
    h1 = h1
    c1 = c1
    Runs = {r1}
    Workers = {}
    Handlers = {h1}
    Reconcilers = {c1}
    NoRow = NoRow
    ReportCodes = {"PDE"}
    StatusValues = {"IN_PROGRESS", "unknown"}
    Requests = {"create", "cancel", "delete", "status", "report"}
    QueueEnabled = FALSE
    MaxConcurrent = 1
    MaxFaults = 1
INVARIANTS TypeOK
PROPERTIES VerdictOnlyOnDeadJob CancelEndsRun SupervisedRunSettles
CHECK_DEADLOCK FALSE
