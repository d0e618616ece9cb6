------------------------------ MODULE RunStore ------------------------------
(***************************************************************************)
(* The runs table as the operator's coroutines see it: every handler and   *)
(* every background task opens its own SQLAlchemy session, reads rows      *)
(* without a lock (only the queue worker locks what it selects), works on  *)
(* the copy across awaits, and writes at commit the columns it changed.    *)
(* There is no version column, so a commit lands on whatever the row has   *)
(* become.  Flush and Locked are that contract; the service modules build  *)
(* every write of theirs from the two.                                     *)
(***************************************************************************)
EXTENDS Integers, FiniteSets

CONSTANTS Runs,        \* run ids; an id is used for one run only
          Workers,     \* queue workers, one per operator replica
          NoRow,       \* the value of a run id that has no row
          ReportCodes, \* finish codes a PDE report can carry
          MaxFaults    \* bound: refused calls, lost requests and crashes

VARIABLES rows,        \* the table: a row, or NoRow
          created,     \* created_at as a ticket: 0, or the order of creation
          locks,       \* the rows each queue worker holds FOR UPDATE
          faults       \* faults spent, at most MaxFaults

storeVars == <<rows, created, locks, faults>>

-----------------------------------------------------------------------------

Statuses == {"QUEUED", "NOT_STARTED", "IN_PROGRESS",
             "SUCCESS", "FAILED", "CANCELLED"}

TERMINAL_STATUSES == {"SUCCESS", "FAILED", "CANCELLED"}

OperatorFinishCodes == {"STUCK_TIMEOUT", "JOB_FAILED", "JOB_MISSING",
                        "RUN_CANCELLED"}

\* The columns the control flow reads.  job: k8s_job_name is set.  cancel:
\* cancel_requested_at is NULL, set, or set longer ago than the grace
\* period.  finished: finished_at is set.  fresh: status_updated_at is
\* within the stuck timeout.
Row == [status   : Statuses,
        job      : BOOLEAN,
        cancel   : {"no", "asked", "overdue"},
        finished : BOOLEAN,
        code     : {"none"} \union ReportCodes \union OperatorFinishCodes,
        fresh    : BOOLEAN]

NewRow == [status |-> "QUEUED", job |-> FALSE, cancel |-> "no",
           finished |-> FALSE, code |-> "none", fresh |-> TRUE]

ASSUME RowAssumption == NoRow \notin Row
ASSUME RunsFinite == IsFiniteSet(Runs)
ASSUME WorkersFinite == IsFiniteSet(Workers)
ASSUME FaultsAssumption == MaxFaults \in Nat

-----------------------------------------------------------------------------

Exists(r)   == rows[r] # NoRow
Terminal(r) == Exists(r) /\ rows[r].status \in TERMINAL_STATUSES

\* Rows the queue still has to start, and rows that hold a slot.
Waiting == {r \in Runs : /\ Exists(r)
                         /\ rows[r].status = "QUEUED"
                         /\ ~rows[r].job}
HoldsSlot(r) == /\ Exists(r)
                /\ rows[r].job
                /\ rows[r].status \notin TERMINAL_STATUSES
Active == {r \in Runs : HoldsSlot(r)}

\* An UPDATE or DELETE of a row waits for the transaction that locked it.
Locked(r) == \E w \in Workers : r \in locks[w]

\* What a commit leaves in the table: the columns in which the session's
\* copy differs from what it loaded, over the row as it is now.
Column(now, old, new) == IF new # old THEN new ELSE now

\* Mutant of Flush: the UPDATE writes every column of the copy.
FlushWhole(current, loaded, copy) == copy

Flush(current, loaded, copy) ==
    [status   |-> Column(current.status, loaded.status, copy.status),
     job      |-> Column(current.job, loaded.job, copy.job),
     cancel   |-> Column(current.cancel, loaded.cancel, copy.cancel),
     finished |-> Column(current.finished, loaded.finished, copy.finished),
     code     |-> Column(current.code, loaded.code, copy.code),
     fresh    |-> Column(current.fresh, loaded.fresh, copy.fresh)]

\* One of the bounded things that go wrong: a refused Kubernetes call, a
\* lost request or connection, a crash of the process.
Fault == /\ faults < MaxFaults
         /\ faults' = faults + 1

-----------------------------------------------------------------------------
(* Time: the two ages the reconciler compares with its timeouts.           *)

StatusGoesStale(r) ==
    /\ HoldsSlot(r)
    /\ rows[r].fresh
    /\ rows' = [rows EXCEPT ![r].fresh = FALSE]
    /\ UNCHANGED <<created, locks, faults>>

GraceElapses(r) ==
    /\ HoldsSlot(r)
    /\ rows[r].cancel = "asked"
    /\ rows' = [rows EXCEPT ![r].cancel = "overdue"]
    /\ UNCHANGED <<created, locks, faults>>

StoreTypeOK ==
    /\ rows \in [Runs -> Row \union {NoRow}]
    /\ created \in [Runs -> Nat]
    /\ locks \in [Workers -> SUBSET Runs]
    /\ faults \in 0..MaxFaults

StoreInit ==
    /\ rows = [r \in Runs |-> NoRow]
    /\ created = [r \in Runs |-> 0]
    /\ locks = [w \in Workers |-> {}]
    /\ faults = 0
=============================================================================
