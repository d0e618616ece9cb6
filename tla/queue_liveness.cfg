SPECIFICATION FairSpec
CONSTANTS
    r1 = r1
    r2 = r2
    w1 = w1
    h1 = h1
    c1 = c1
    Runs = {r1, r2}
    Workers = {w1}
    Handlers = {h1}
    Reconcilers = {c1}
    NoRow = NoRow
    ReportCodes = {}
    StatusValues = {"SUCCESS"}
    Requests = {"create", "status"}
    QueueEnabled = TRUE
    MaxConcurrent = 1
    MaxFaults = 1
PROPERTIES QueuedRunLeavesQueue
CHECK_DEADLOCK FALSE
