----------------------------- MODULE RunStorage -----------------------------
(***************************************************************************)
(* The requests that touch both the runs table and the object store: a run *)
(* is created with its encrypted input, retried from its parent's, fed     *)
(* with artifacts by its pod, and deleted by a cleanup.                    *)
(* The store has no transactions: every put, get, list and delete is a     *)
(* step of its own between the load of the row and the one commit.         *)
(***************************************************************************)
EXTENDS Integers, FiniteSets

CONSTANTS Runs,         \* run ids; an id is used for one run only
          Roots,        \* bound: the ids that new runs get; retries get the others
          Followed,     \* bound: the runs whose pods go on to their pipeline
          Handlers,     \* requests the API serves at a time
          Cleaner,      \* the cleanup, as a server of requests
          None,         \* no row, no parent, no request
          Kinds,        \* the kinds of artifact a pod produces
          StatusValues, \* bound: the statuses a run is given
          MaxFaults     \* bound: lost requests and crashes, failed archives

ASSUME StorageAssumption ==
    /\ Cleaner \notin Handlers
    /\ None \notin Runs
    /\ Roots \subseteq Runs
    /\ Followed \subseteq Runs
    /\ {"state", "log"} \subseteq Kinds
    /\ Kinds \subseteq {"state", "log", "x_debug", "report"}
    /\ MaxFaults \in Nat

ASSUME RunsFinite == IsFiniteSet(Runs)

VARIABLES rows,     \* the runs table: a row, or None
          objects,  \* the object store: the keys under each run's prefix
          born,     \* created_at as a ticket: 0, or the order of creation
          request,  \* per handler: the request it serves, or None
          cleanup,  \* the runs a cleanup has picked, and those it has to visit
          faults,   \* faults spent, at most MaxFaults
          erased,   \* history: the runs whose objects a delete has erased
          torn      \* history: runs whose delete was lost half way

storageVars == <<rows, objects, born, request, cleanup, faults, erased, torn>>

-----------------------------------------------------------------------------

RETRYABLE_STATUSES == {"FAILED", "CANCELLED"}
TERMINAL_STATUSES  == {"SUCCESS", "FAILED", "CANCELLED"}

\* The columns these requests read.  state: state_location is set; cancel:
\* cancel_requested_at is set.
Row == [status : {"QUEUED", "CANCELLED"} \union StatusValues,
        state  : BOOLEAN,
        cancel : BOOLEAN,
        parent : Runs \union {None}]

\* Mutant of NewRow: a run is entered as started although it waits.
NewRowStarted(p) == [status |-> "NOT_STARTED", state |-> FALSE,
                     cancel |-> FALSE, parent |-> p]

NewRow(p) == [status |-> "QUEUED", state |-> FALSE, cancel |-> FALSE,
              parent |-> p]

\* upload_artifacts and the two deliveries differ in what they put only.
UploadOrder == [state |-> 1, log |-> 2, x_debug |-> 3, report |-> 4]

Steps == {"probe", "load", "store", "insert", "put", "update",
          "list", "erase", "deleteRow"}

Servers == Handlers \union {Cleaner}

Exists(r)      == rows[r] # None
Busy(x)        == request[x] # None
Serves(x, s)   == Busy(x) /\ request[x].step = s
WorksOn(x, r)  == Busy(x) /\ request[x].run = r
Uploading(x, r) == WorksOn(x, r) /\ request[x].upload

Fault == faults < MaxFaults /\ faults' = faults + 1

Begin(x, s, r, p, rest, upload) ==
    request' = [request EXCEPT ![x] = [step |-> s, run |-> r, parent |-> p,
                                       rest |-> rest, stored |-> {},
                                       upload |-> upload]]
Goto(x, s) == request' = [request EXCEPT ![x].step = s]
Finish(x)  == request' = [request EXCEPT ![x] = None]

-----------------------------------------------------------------------------
(* create_run and retry_run: the input is stored before the row.           *)

\* The next uuid4, under which everything of the run is kept.
Fresh(h, r, ids) ==
    /\ ~Busy(h)
    /\ r \in ids
    /\ born[r] = 0
    /\ born' = [born EXCEPT ![r] = 1 + Cardinality({q \in Runs : born[q] # 0})]

\* Mutant of CreateBegin: the row is inserted before its input is stored.
CreateBeginRowFirst(h, r) ==
    /\ Fresh(h, r, Roots)
    /\ Begin(h, "insert", r, None, {}, FALSE)
    /\ UNCHANGED <<rows, objects, cleanup, faults, erased, torn>>

CreateBegin(h, r) ==
    /\ Fresh(h, r, Roots)
    /\ Begin(h, "store", r, None, {}, FALSE)
    /\ UNCHANGED <<rows, objects, cleanup, faults, erased, torn>>

\* The parent's row is read once, here, for its status and state_location.
RetryBegin(h, r, p) ==
    /\ Fresh(h, r, Runs \ Roots)
    /\ Exists(p)
    /\ rows[p].status \in RETRYABLE_STATUSES
    /\ rows[p].state
    /\ Begin(h, "probe", r, p, {}, FALSE)
    /\ UNCHANGED <<rows, objects, cleanup, faults, erased, torn>>

\* RunStateNotAvailableError or RunInputNotAvailableError end the retry.
RetryReads(h, s, object, next) ==
    /\ Serves(h, s)
    /\ IF object \in objects[request[h].parent] THEN Goto(h, next) ELSE Finish(h)
    /\ UNCHANGED <<rows, objects, born, cleanup, faults, erased, torn>>

RetryProbe(h) == RetryReads(h, "probe", "state", "load")
RetryLoad(h)  == RetryReads(h, "load", "input", "store")

StoreInput(h) ==
    /\ Serves(h, "store")
    /\ objects' = [objects EXCEPT ![request[h].run] = @ \union {"input"}]
    /\ Goto(h, "insert")
    /\ UNCHANGED <<rows, born, cleanup, faults, erased, torn>>

\* No foreign key: a retry is inserted whatever became of its parent.
InsertRow(h) ==
    /\ Serves(h, "insert")
    /\ rows' = [rows EXCEPT ![request[h].run] = NewRow(request[h].parent)]
    /\ Finish(h)
    /\ UNCHANGED <<objects, born, cleanup, faults, erased, torn>>

-----------------------------------------------------------------------------
(* upload_artifacts, deliver_log and deliver_report.                       *)

\* A run without a row is refused with 404 before anything is stored.
UploadBegin(h, r, files) ==
    /\ ~Busy(h)
    /\ Exists(r)
    /\ Begin(h, "put", r, None, files, TRUE)
    /\ UNCHANGED <<rows, objects, born, cleanup, faults, erased, torn>>

DeliverBegin(h, r, kind) ==
    /\ ~Busy(h)
    /\ Exists(r)
    /\ kind \in {"log", "report"}
    /\ Begin(h, "put", r, None, {kind}, FALSE)
    /\ UNCHANGED <<rows, objects, born, cleanup, faults, erased, torn>>

PutArtifact(h) ==
    LET q == request[h] IN
    /\ Serves(h, "put")
    /\ \E kind \in q.rest :
          /\ \A other \in q.rest : UploadOrder[kind] <= UploadOrder[other]
          /\ objects' = [objects EXCEPT ![q.run] = @ \union {kind}]
          /\ request' = [request EXCEPT
                            ![h].rest = q.rest \ {kind},
                            ![h].stored = @ \union {kind},
                            ![h].step = IF q.rest = {kind} THEN "update" ELSE @]
    /\ UNCHANGED <<rows, born, cleanup, faults, erased, torn>>

\* Mutant of UpdateRow: state_location is set after every upload.
UpdateRowAlways(h) ==
    LET r == request[h].run IN
    /\ Serves(h, "update")
    /\ rows' = IF Exists(r) THEN [rows EXCEPT ![r].state = TRUE] ELSE rows
    /\ Finish(h)
    /\ UNCHANGED <<objects, born, cleanup, faults, erased, torn>>

\* The commit; if the row is gone it fails and the objects stay behind.
UpdateRow(h) ==
    LET r == request[h].run IN
    /\ Serves(h, "update")
    /\ rows' = IF Exists(r) /\ "state" \in request[h].stored
               THEN [rows EXCEPT ![r].state = TRUE] ELSE rows
    /\ Finish(h)
    /\ UNCHANGED <<objects, born, cleanup, faults, erased, torn>>

-----------------------------------------------------------------------------
(* delete_run, which only a cleanup calls: objects first, the row last.    *)
(* delete_run_artifacts lists the keys under the prefix and then deletes   *)
(* those keys.                                                             *)

DeleteRun(r) == Begin(Cleaner, "list", r, None, {}, FALSE)

\* Mutant of Listed: the artifacts by kind instead of the prefix.
ListedByKind(r) == objects[r] \intersect Kinds

Listed(r) == objects[r]

ListObjects(x) ==
    /\ Serves(x, "list")
    /\ request' = [request EXCEPT ![x].stored = Listed(request[x].run),
                                  ![x].step = "erase"]
    /\ UNCHANGED <<rows, objects, born, cleanup, faults, erased, torn>>

\* The errors delete_objects reports for single keys are not looked at.
EraseObjects(x) ==
    LET r == request[x].run
        keys == request[x].stored
    IN  /\ Serves(x, "erase")
        /\ \E gone \in SUBSET keys :
              /\ IF gone = keys THEN UNCHANGED faults ELSE Fault
              /\ objects' = [objects EXCEPT ![r] = @ \ gone]
        /\ erased' = erased \union {r}
        /\ Goto(x, "deleteRow")
        /\ UNCHANGED <<rows, born, cleanup, torn>>

DeleteRow(x) ==
    /\ Serves(x, "deleteRow")
    /\ rows' = [rows EXCEPT ![request[x].run] = None]
    /\ cleanup' = [cleanup EXCEPT !.picked = @ \ {request[x].run}]
    /\ Finish(x)
    /\ UNCHANGED <<objects, born, faults, erased, torn>>

-----------------------------------------------------------------------------
(* RetentionService.cleanup_older_than, by schedule or by request.  One    *)
(* cleanup runs at a time here.                                            *)

\* Every run created before the cutoff, whatever its status.
CleanupBegin ==
    /\ ~Busy(Cleaner)
    /\ cleanup.todo = {}
    /\ \E cutoff \in {born[r] + 1 : r \in Runs} :
          LET older == {r \in Runs : Exists(r) /\ born[r] < cutoff} IN
          /\ older # {}
          /\ cleanup' = [picked |-> older, todo |-> older]
    /\ UNCHANGED <<rows, objects, born, request, faults, erased, torn>>

\* One run at a time, oldest first, in a session of its own; one that is
\* gone by then is skipped.
CleanupNext ==
    /\ ~Busy(Cleaner)
    /\ \E r \in cleanup.todo :
          /\ \A other \in cleanup.todo : born[r] <= born[other]
          /\ cleanup' = [cleanup EXCEPT !.todo = @ \ {r}]
          /\ IF Exists(r) THEN DeleteRun(r) ELSE UNCHANGED request
    /\ UNCHANGED <<rows, objects, born, faults, erased, torn>>

-----------------------------------------------------------------------------
(* Failure.  A request that fails or is lost ends where it is.             *)

Torn(x) == IF Serves(x, "deleteRow") THEN {request[x].run} ELSE {}

\* Mutant of RequestLost: the first failure ends the cleanup.
RequestLostBreaks(x) ==
    /\ Busy(x)
    /\ Fault
    /\ torn' = torn \union Torn(x)
    /\ Finish(x)
    /\ cleanup' = IF x = Cleaner THEN [cleanup EXCEPT !.todo = {}] ELSE cleanup
    /\ UNCHANGED <<rows, objects, born, erased>>

\* The cleanup logs the failure of one run and goes on with the next.
RequestLost(x) ==
    /\ Busy(x)
    /\ Fault
    /\ torn' = torn \union Torn(x)
    /\ Finish(x)
    /\ UNCHANGED <<rows, objects, born, cleanup, erased>>

\* The operator's process ends: all requests and the cleanup are gone.
OperatorCrash ==
    /\ \E x \in Servers : Busy(x)
    /\ Fault
    /\ torn' = torn \union UNION {Torn(x) : x \in Servers}
    /\ request' = [x \in Servers |-> None]
    /\ cleanup' = [picked |-> {}, todo |-> {}]
    /\ UNCHANGED <<rows, objects, born, erased>>

-----------------------------------------------------------------------------

Request == [step : Steps, run : Runs, parent : Runs \union {None},
            rest : SUBSET Kinds, stored : SUBSET (Kinds \union {"input"}),
            upload : BOOLEAN]

ASSUME NoneAssumption == None \notin Row /\ None \notin Request

StorageTypeOK ==
    /\ rows \in [Runs -> Row \union {None}]
    /\ objects \in [Runs -> SUBSET (Kinds \union {"input"})]
    /\ born \in [Runs -> Nat]
    /\ request \in [Servers -> Request \union {None}]
    /\ cleanup \in [picked : SUBSET Runs, todo : SUBSET Runs]
    /\ faults \in 0..MaxFaults
    /\ erased \subseteq Runs
    /\ torn \subseteq Runs

StorageInit ==
    /\ rows = [r \in Runs |-> None]
    /\ objects = [r \in Runs |-> {}]
    /\ born = [r \in Runs |-> 0]
    /\ request = [x \in Servers |-> None]
    /\ cleanup = [picked |-> {}, todo |-> {}]
    /\ faults = 0
    /\ erased = {}
    /\ torn = {}

\* Steps of a request under way, in the operator.
RequestStep(x) ==
    \/ RetryProbe(x) \/ RetryLoad(x) \/ StoreInput(x) \/ InsertRow(x)
    \/ PutArtifact(x) \/ UpdateRow(x)
    \/ ListObjects(x) \/ EraseObjects(x) \/ DeleteRow(x)

\* Requests of clients: create, retry and cleanup (retention's too).
ClientNext ==
    \/ \E h \in Handlers, r \in Runs :
          \/ CreateBegin(h, r)
          \/ \E p \in Runs : RetryBegin(h, r, p)
    \/ CleanupBegin \/ CleanupNext
=============================================================================
