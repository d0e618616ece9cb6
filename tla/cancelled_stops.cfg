SPECIFICATION Spec
CONSTANTS
    r1 = r1
    w1 = w1
    h1 = h1
    c1 = c1
    Runs = {r1}
    Workers = {w1}
    Handlers = {h1}
    Reconcilers = {c1}
    NoRow = NoRow
    ReportCodes = {}
    StatusValues = {"IN_PROGRESS", "SUCCESS"}
    Requests = {"create", "cancel", "status"}
    QueueEnabled = TRUE
    MaxConcurrent = 1
    MaxFaults = 0
INVARIANT CancelledMeansInterrupted
CHECK_DEADLOCK FALSE
