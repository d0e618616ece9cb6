---------------------------- MODULE QueueService ----------------------------
(***************************************************************************)
(* QueueService.admit_once: count the free slots, lock that many of the    *)
(* oldest waiting rows FOR UPDATE SKIP LOCKED, create a Job for each, and  *)
(* commit all the row changes in one transaction.  Every await in between  *)
(* lets handlers, the reconciler and the other replicas run.               *)
(***************************************************************************)
EXTENDS JobService

CONSTANT MaxConcurrent   \* settings.max_concurrent_runs; <= 0 is unlimited

ASSUME MaxConcurrentAssumption == MaxConcurrent \in Int

VARIABLES worker, \* per worker: its step, and the tick's local variables
          lost    \* history: Jobs created by a tick that was rolled back

queueVars == <<worker, lost>>

Idle == [pc |-> "idle", free |-> 0, todo |-> {}, started |-> {},
         rejected |-> {}]

WorkerState == [pc       : {"idle", "counted", "admitting"},
                free     : Nat,
                todo     : SUBSET Runs,    \* locked, not tried yet
                started  : SUBSET Runs,    \* Job created, row not written yet
                rejected : SUBSET Runs]    \* profile gone, row not written yet

QueueTypeOK == /\ worker \in [Workers -> WorkerState]
               /\ lost \in [Runs -> Nat]
QueueInit   == /\ worker = [w \in Workers |-> Idle]
               /\ lost = [r \in Runs |-> 0]

-----------------------------------------------------------------------------

\* Mutant of FreeSlots: only runs that report progress count as active.
FreeSlotsOfReporting ==
    LET reporting == {r \in Active : rows[r].status = "IN_PROGRESS"} IN
    IF MaxConcurrent <= 0 THEN Cardinality(Runs)
    ELSE IF Cardinality(reporting) >= MaxConcurrent THEN 0
    ELSE MaxConcurrent - Cardinality(reporting)

\* No LIMIT is a LIMIT no smaller than the table.
FreeSlots ==
    IF MaxConcurrent <= 0 THEN Cardinality(Runs)
    ELSE IF Cardinality(Active) >= MaxConcurrent THEN 0
    ELSE MaxConcurrent - Cardinality(Active)

CountSlots(w) ==
    /\ worker[w].pc = "idle"
    /\ FreeSlots # 0
    /\ worker' = [worker EXCEPT ![w] =
                     [Idle EXCEPT !.pc = "counted", !.free = FreeSlots]]
    /\ UNCHANGED <<lost, storeVars, clusterVars>>

\* Mutants of IsSelection: plain FOR UPDATE of a snapshot, as if a row that
\* was locked a moment ago were still the candidate it was; no LIMIT; ORDER
\* BY created_at descending.
IsSelectionOfLocked(w, S) ==
    /\ S # {} /\ S \subseteq Waiting
    /\ Cardinality(S) <= worker[w].free
    /\ S = Waiting \/ Cardinality(S) = worker[w].free
    /\ \A r \in S, q \in Waiting \ S : created[r] < created[q]

IsSelectionUnlimited(w, S) == S # {} /\ S = {r \in Waiting : ~Locked(r)}

IsSelectionNewestFirst(w, S) ==
    LET candidates == {r \in Waiting : ~Locked(r)} IN
    /\ S # {} /\ S \subseteq candidates
    /\ Cardinality(S) <= worker[w].free
    /\ S = candidates \/ Cardinality(S) = worker[w].free
    /\ \A r \in S, q \in candidates \ S : created[r] > created[q]

\* The rows the SELECT returns: the oldest candidates nobody has locked, as
\* many as there are slots.
IsSelection(w, S) ==
    LET candidates == {r \in Waiting : ~Locked(r)} IN
    /\ S # {} /\ S \subseteq candidates
    /\ Cardinality(S) <= worker[w].free
    /\ S = candidates \/ Cardinality(S) = worker[w].free
    /\ \A r \in S, q \in candidates \ S : created[r] < created[q]

SelectQueued(w) ==
    /\ worker[w].pc = "counted"
    /\ \E S \in SUBSET Runs :
          /\ IsSelection(w, S)
          /\ locks' = [locks EXCEPT ![w] = S]
          /\ worker' = [worker EXCEPT ![w].pc = "admitting", ![w].todo = S]
    /\ UNCHANGED <<lost, rows, created, faults, clusterVars>>

SelectNothing(w) ==
    /\ worker[w].pc = "counted"
    /\ Waiting \subseteq {r \in Runs : Locked(r)}
    /\ worker' = [worker EXCEPT ![w] = Idle]
    /\ UNCHANGED <<lost, storeVars, clusterVars>>

\* The loop takes the locked rows in the order of the query.
IsNext(w, r) == /\ worker[w].pc = "admitting"
                /\ r \in worker[w].todo
                /\ \A q \in worker[w].todo : created[r] <= created[q]

\* The Job exists from here on; the row says so only after CommitTick.
AdmitStarts(w, r) ==
    /\ IsNext(w, r)
    /\ CreateRunJob(r)
    /\ worker' = [worker EXCEPT ![w].todo = @ \ {r}, ![w].started = @ \union {r}]
    /\ UNCHANGED <<lost, storeVars>>

\* The run stays QUEUED and is tried again by a later tick.
AdmitRefused(w, r) ==
    /\ IsNext(w, r)
    /\ CreateRunJobRefused(r)
    /\ worker' = [worker EXCEPT ![w].todo = @ \ {r}]
    /\ UNCHANGED <<lost, rows, created, locks>>

\* A profile can be deleted, or replaced by a config import, at any time.
ProfileMissing(w, r) ==
    /\ IsNext(w, r)
    /\ worker' = [worker EXCEPT ![w].todo = @ \ {r}, ![w].rejected = @ \union {r}]
    /\ UNCHANGED <<lost, storeVars, clusterVars>>

\* Mutant of AdmittedRow: the Job's name is not stored.
AdmittedRowNameless(w, r) ==
    CASE r \in worker[w].started ->
            [rows[r] EXCEPT !.status = "NOT_STARTED", !.fresh = TRUE]
      [] r \in worker[w].rejected ->
            [rows[r] EXCEPT !.status = "FAILED", !.finished = TRUE]
      [] OTHER -> rows[r]

AdmittedRow(w, r) ==
    CASE r \in worker[w].started ->
            [rows[r] EXCEPT !.job = TRUE, !.status = "NOT_STARTED",
                            !.fresh = TRUE]
      [] r \in worker[w].rejected ->
            [rows[r] EXCEPT !.status = "FAILED", !.finished = TRUE]
      [] OTHER -> rows[r]

CommitTick(w) ==
    /\ worker[w].pc = "admitting"
    /\ worker[w].todo = {}
    /\ rows' = [r \in Runs |-> AdmittedRow(w, r)]
    /\ locks' = [locks EXCEPT ![w] = {}]
    /\ worker' = [worker EXCEPT ![w] = Idle]
    /\ UNCHANGED <<lost, created, faults, clusterVars>>

\* A crash, a failed commit or an exception of the tick: the transaction is
\* rolled back, the Jobs it created stay.
AbortTick(w) ==
    /\ worker[w].pc # "idle"
    /\ Fault
    /\ locks' = [locks EXCEPT ![w] = {}]
    /\ worker' = [worker EXCEPT ![w] = Idle]
    /\ lost' = [r \in Runs |-> IF r \in worker[w].started THEN lost[r] + 1
                                                      ELSE lost[r]]
    /\ UNCHANGED <<rows, created, clusterVars>>

WorkerStep(w) ==
    \/ CountSlots(w) \/ SelectQueued(w) \/ SelectNothing(w) \/ CommitTick(w)
    \/ \E r \in Runs : \/ AdmitStarts(w, r) \/ AdmitRefused(w, r)
                       \/ ProfileMissing(w, r)

QueueNext == \E w \in Workers : WorkerStep(w) \/ AbortTick(w)
=============================================================================
