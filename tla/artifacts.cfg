SPECIFICATION FairSpec
CONSTANTS
    r1 = r1
    r2 = r2
    h1 = h1
    Runs = {r1, r2}
    Roots = {r1}
    Followed = {r1}
    Handlers = {h1}
    Cleaner = Cleaner
    None = None
    Kinds = {"state", "log"}
    StatusValues = {"FAILED"}
    MaxFaults = 1
INVARIANTS TypeOK RowHasInput InputGoesWithRow StateLocationIsThere StartsUnlessErased ArchivedUnlessKilled FailureSkipsOneRun
CHECK_DEADLOCK FALSE
PROPERTIES CancelLeavesState ImplementsPodContract
