SPECIFICATION Spec
CONSTANTS
    r1 = r1
    h1 = h1
    h2 = h2
    c1 = c1
    Runs = {r1}
    Workers = {}
    Handlers = {h1, h2}
    Reconcilers = {c1}
    NoRow = NoRow
    ReportCodes = {}
    StatusValues = {"IN_PROGRESS", "SUCCESS"}
    Requests = {"create", "cancel", "status"}
    QueueEnabled = FALSE
    MaxConcurrent = 0
    MaxFaults = 0
PROPERTY RevivedOnlyByStatus
INVARIANTS FinishedStamped CancelCodeOnlyOnRequest SignalledOnlyOnRequest
SYMMETRY SameHandlers
CHECK_DEADLOCK FALSE
