SPECIFICATION Spec
CONSTANTS
    r1 = r1
    r2 = r2
    r3 = r3
    w1 = w1
    w2 = w2
    h1 = h1
    Runs = {r1, r2, r3}
    Workers = {w1, w2}
    Handlers = {h1}
    Reconcilers = {}
    NoRow = NoRow
    ReportCodes = {}
    StatusValues = {}
    Requests = {"create", "cancel"}
    QueueEnabled = TRUE
    MaxConcurrent = 1
    MaxFaults = 1
SYMMETRY Replicas
INVARIANTS CapPerReplica OneLaunchPerCommit UnsupervisedOnlyAfterLoss
PROPERTIES ImplementsAdmissionControl AdmissionOnlyFromQueue
CHECK_DEADLOCK FALSE
