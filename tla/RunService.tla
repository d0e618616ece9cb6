----------------------------- MODULE RunService -----------------------------
(***************************************************************************)
(* The requests of RunService that change a run: a client creates, cancels *)
(* and deletes, the run's own pod posts statuses and reports.  A request   *)
(* loads the row, awaits (object storage, the flush of its own commit) and *)
(* then writes; the steps below are cut at those awaits, and a handler     *)
(* carries the copy it loaded from one to the next.                        *)
(***************************************************************************)
EXTENDS JobService

CONSTANTS Handlers,      \* requests the API serves at a time
          QueueEnabled,  \* settings.queue_enabled
          Requests,      \* bound: the kinds of request that arrive
          StatusValues   \* "status" of the PDE's status documents

ASSUME RequestAssumption == /\ QueueEnabled \in BOOLEAN
                            /\ Requests \subseteq {"create", "cancel", "delete",
                                                   "status", "report"}

VARIABLE handler   \* per handler: the request it serves, or NoRequest

NoRequest == [op |-> "none"]

Ops == {"create", "createdJob", "cancel", "signal", "delete", "status",
        "report"}

Request == [op : Ops, run : Runs, loaded : Row,
            arg : {"none"} \union StatusValues \union ReportCodes]

RequestTypeOK == handler \in [Handlers -> Request \union {NoRequest}]
RequestInit   == handler = [h \in Handlers |-> NoRequest]

-----------------------------------------------------------------------------

Arrives(h, kind) == kind \in Requests /\ handler[h] = NoRequest

Serves(h, op) == handler[h].op = op

Begin(h, op, r, loaded, arg) ==
    handler' = [handler EXCEPT ![h] =
                   [op |-> op, run |-> r, loaded |-> loaded, arg |-> arg]]

Goto(h, op) == handler' = [handler EXCEPT ![h].op = op]

Done(h) == handler' = [handler EXCEPT ![h] = NoRequest]

\* The commit of handler h: its copy over the row as it is now.  If the row
\* is gone the UPDATE matches nothing and the request ends in an error.
Write(h, copy) ==
    LET r == handler[h].run IN
    rows' = [rows EXCEPT ![r] =
                IF Exists(r) THEN Flush(rows[r], handler[h].loaded, copy)
                             ELSE NoRow]

\* A commit waits for the queue worker that has the row locked.
CanCommit(h) == ~Locked(handler[h].run)

-----------------------------------------------------------------------------
(* create_run, and retry_run whose new run enters the same way.            *)

\* created_at is the start of the transaction: the profile lookup, before
\* the run's input is stored and long before the row is visible.
CreateBegin(h, r) ==
    /\ Arrives(h, "create")
    /\ created[r] = 0
    /\ created' = [created EXCEPT ![r] =
                      1 + Cardinality({q \in Runs : created[q] # 0})]
    /\ Begin(h, "create", r, NewRow, "none")
    /\ UNCHANGED <<rows, locks, faults, clusterVars>>

\* _start_run_job_now with the queue disabled: the Job before the row.
CreateStartsJob(h) ==
    /\ Serves(h, "create")
    /\ ~QueueEnabled
    /\ CreateRunJob(handler[h].run)
    /\ Begin(h, "createdJob", handler[h].run,
             [NewRow EXCEPT !.job = TRUE, !.status = "NOT_STARTED"], "none")
    /\ UNCHANGED storeVars

CreateRefused(h) ==
    /\ Serves(h, "create")
    /\ ~QueueEnabled
    /\ CreateRunJobRefused(handler[h].run)
    /\ Done(h)
    /\ UNCHANGED <<rows, created, locks>>

CreateCommit(h) ==
    /\ \/ Serves(h, "create") /\ QueueEnabled
       \/ Serves(h, "createdJob")
    /\ rows' = [rows EXCEPT ![handler[h].run] = handler[h].loaded]
    /\ Done(h)
    /\ UNCHANGED <<created, locks, faults, clusterVars>>

-----------------------------------------------------------------------------
(* cancel_run                                                              *)

CancelBegin(h, r) ==
    /\ Arrives(h, "cancel")
    /\ Exists(r)
    /\ rows[r].status \notin TERMINAL_STATUSES
    /\ rows[r].cancel = "no"
    /\ Begin(h, "cancel", r, rows[r], "none")
    /\ UNCHANGED <<storeVars, clusterVars>>

\* A run without a Job is over at once; one with a Job is only asked to stop.
CancelledCopy(loaded) ==
    IF loaded.job THEN [loaded EXCEPT !.cancel = "asked"]
    ELSE [loaded EXCEPT !.cancel = "asked", !.status = "CANCELLED",
                        !.finished = TRUE]

\* Mutant of CancelCommit: the UPDATE does not wait for the worker's row lock.
CancelCommitUnlocked(h) ==
    /\ Serves(h, "cancel")
    /\ Write(h, CancelledCopy(handler[h].loaded))
    /\ IF Exists(handler[h].run) /\ handler[h].loaded.job
       THEN Goto(h, "signal") ELSE Done(h)
    /\ UNCHANGED <<created, locks, faults, clusterVars>>

CancelCommit(h) ==
    /\ Serves(h, "cancel")
    /\ CanCommit(h)
    /\ Write(h, CancelledCopy(handler[h].loaded))
    /\ IF Exists(handler[h].run) /\ handler[h].loaded.job
       THEN Goto(h, "signal") ELSE Done(h)
    /\ UNCHANGED <<created, locks, faults, clusterVars>>

\* A JobSignalError is logged and forgotten: the reconciler signals again.
CancelSignal(h) ==
    /\ Serves(h, "signal")
    /\ \/ SignalRunJobSigint(handler[h].run) /\ UNCHANGED faults
       \/ Fault /\ UNCHANGED clusterVars
    /\ Done(h)
    /\ UNCHANGED <<rows, created, locks>>

-----------------------------------------------------------------------------
(* delete_run, which only a cleanup (RetentionService) calls.              *)

DeleteBegin(h, r) ==
    /\ Arrives(h, "delete")
    /\ Exists(r)
    /\ Begin(h, "delete", r, rows[r], "none")
    /\ UNCHANGED <<storeVars, clusterVars>>

DeleteCommit(h) ==
    /\ Serves(h, "delete")
    /\ CanCommit(h)
    /\ rows' = [rows EXCEPT ![handler[h].run] = NoRow]
    /\ Done(h)
    /\ UNCHANGED <<created, locks, faults, clusterVars>>

-----------------------------------------------------------------------------
(* deliver_status, deliver_report and upload_artifacts, from the pod.      *)

PodPosts(r) == pod[r] \in {"running", "signalled"}

StatusBegin(h, r, s) ==
    /\ Arrives(h, "status")
    /\ PodPosts(r)
    /\ Exists(r)
    /\ Begin(h, "status", r, rows[r], s)
    /\ UNCHANGED <<storeVars, clusterVars>>

\* Mutants of StatusCopy: finished_at is stamped on the way out of
\* IN_PROGRESS only; the posted value is stored unparsed.
StatusCopyLateStamp(loaded, s) ==
    LET next == IF s \in Statuses THEN s ELSE loaded.status IN
    [loaded EXCEPT !.status = next,
                   !.finished = @ \/ /\ loaded.status = "IN_PROGRESS"
                                     /\ next \in TERMINAL_STATUSES]

StatusCopyUnparsed(loaded, s) ==
    [loaded EXCEPT !.status = s, !.finished = @ \/ s \in TERMINAL_STATUSES]

\* _apply_status_fields: a value that is no RunStatus leaves the status, any
\* other replaces it; finished_at is stamped when the result is terminal.
StatusCopy(loaded, s) ==
    LET next == IF s \in Statuses THEN s ELSE loaded.status IN
    [loaded EXCEPT !.status = next,
                   !.finished = @ \/ next \in TERMINAL_STATUSES]

\* status_updated_at is always a new value, so it is always written.
StatusCommit(h) ==
    LET r == handler[h].run
        copy == StatusCopy(handler[h].loaded, handler[h].arg)
    IN  /\ Serves(h, "status")
        /\ CanCommit(h)
        /\ rows' = [rows EXCEPT ![r] =
                       IF Exists(r)
                       THEN [Flush(rows[r], handler[h].loaded, copy)
                                EXCEPT !.fresh = TRUE]
                       ELSE NoRow]
        /\ Done(h)
        /\ UNCHANGED <<created, locks, faults, clusterVars>>

\* The row is loaded before the report goes to the object store.
ReportBegin(h, r, code) ==
    /\ Arrives(h, "report")
    /\ PodPosts(r)
    /\ Exists(r)
    /\ Begin(h, "report", r, rows[r], code)
    /\ UNCHANGED <<storeVars, clusterVars>>

\* apply_report_finish_code: a code of the operator is not overwritten.
ReportCopy(loaded, code) ==
    IF loaded.code \in OperatorFinishCodes THEN loaded
    ELSE [loaded EXCEPT !.code = code]

ReportCommit(h) ==
    /\ Serves(h, "report")
    /\ CanCommit(h)
    /\ Write(h, ReportCopy(handler[h].loaded, handler[h].arg))
    /\ Done(h)
    /\ UNCHANGED <<created, locks, faults, clusterVars>>

-----------------------------------------------------------------------------

\* A crash, a closed connection or a failed commit ends the request.
RequestLost(h) ==
    /\ handler[h] # NoRequest
    /\ Fault
    /\ Done(h)
    /\ UNCHANGED <<rows, created, locks, clusterVars>>

RequestArrives(h) ==
    \E r \in Runs :
        \/ CreateBegin(h, r) \/ CancelBegin(h, r) \/ DeleteBegin(h, r)
        \/ \E s \in StatusValues : StatusBegin(h, r, s)
        \/ \E code \in ReportCodes : ReportBegin(h, r, code)

RequestStep(h) ==
    \/ CreateStartsJob(h) \/ CreateRefused(h) \/ CreateCommit(h)
    \/ CancelCommit(h) \/ CancelSignal(h)
    \/ DeleteCommit(h) \/ StatusCommit(h) \/ ReportCommit(h)

RequestNext ==
    \E h \in Handlers : RequestArrives(h) \/ RequestStep(h) \/ RequestLost(h)
=============================================================================
