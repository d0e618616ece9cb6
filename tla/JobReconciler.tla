--------------------------- MODULE JobReconciler ----------------------------
(***************************************************************************)
(* JobReconciler.reconcile_once: select the supervised rows without a      *)
(* lock, ask Kubernetes about each (awaiting every call), decide on the    *)
(* copies, and write all the decisions in one commit at the end.           *)
(***************************************************************************)
EXTENDS JobService

CONSTANT Reconcilers   \* one per operator replica

VARIABLE rec   \* per reconciler: its step, and the tick's local variables

Resting == [pc |-> "resting", todo |-> {}, at |-> NoRow,
            loaded |-> [r \in Runs |-> NoRow],
            copy |-> [r \in Runs |-> NoRow]]

ReconcilerState == [pc     : {"resting", "looping", "signalling", "deleting"},
                    todo   : SUBSET Runs,            \* not looked at yet
                    at     : Runs \union {NoRow},    \* the one in work
                    loaded : [Runs -> Row \union {NoRow}],
                    copy   : [Runs -> Row \union {NoRow}]]

ReconcilerTypeOK == rec \in [Reconcilers -> ReconcilerState]
ReconcilerInit   == rec = [c \in Reconcilers |-> Resting]

-----------------------------------------------------------------------------

ReconcileSelect(c) ==
    /\ rec[c].pc = "resting"
    /\ Active # {}
    /\ LET copies == [r \in Runs |-> IF r \in Active THEN rows[r] ELSE NoRow] IN
       rec' = [rec EXCEPT ![c] = [pc |-> "looping", todo |-> Active, at |-> NoRow,
                                  loaded |-> copies, copy |-> copies]]
    /\ UNCHANGED <<storeVars, clusterVars>>

CodeUnlessSet(row, code) == IF row.code = "none" THEN code ELSE row.code

\* The decision for a Job that is not active any more.
Verdict(row, phase) ==
    LET asked == row.cancel # "no" IN
    IF phase = "succeeded"
    THEN [row EXCEPT !.status = "SUCCESS", !.finished = TRUE]
    ELSE [row EXCEPT
            !.status = IF asked THEN "CANCELLED" ELSE "FAILED",
            !.finished = TRUE,
            !.code = CodeUnlessSet(row, IF asked THEN "RUN_CANCELLED"
                                        ELSE IF phase = "failed" THEN "JOB_FAILED"
                                        ELSE "JOB_MISSING")]

\* Mutant of HardStop: the delete path taken for the end of a cancel only.
HardStopAsCancel(row) ==
    [row EXCEPT !.status = "CANCELLED", !.finished = TRUE,
                !.code = "RUN_CANCELLED"]

\* The decision that deletes an active Job.
HardStop(row) ==
    [row EXCEPT
        !.status = IF row.cancel # "no" THEN "CANCELLED" ELSE "FAILED",
        !.finished = TRUE,
        !.code = IF row.cancel # "no" THEN "RUN_CANCELLED" ELSE "STUCK_TIMEOUT"]

\* Mutants of AfterExamine: a stuck run is interrupted first, like a
\* cancelled one; the stuck timeout is never checked.
AfterExamineSignalStuck(row, phase) ==
    IF phase # "active" \/ (row.cancel = "no" /\ row.fresh) THEN "looping"
    ELSE "signalling"

AfterExamineNoStuck(row, phase) ==
    IF phase # "active" \/ row.cancel = "no" THEN "looping" ELSE "signalling"

\* Only an active Job takes more calls: a cancelled run's is signalled, a
\* silent one's deleted.  A cancelled run is not looked at for silence.
AfterExamine(row, phase) ==
    IF phase # "active" THEN "looping"
    ELSE IF row.cancel # "no" THEN "signalling"
    ELSE IF ~row.fresh THEN "deleting"
    ELSE "looping"

\* get_job_phase of one row, and what follows from it for that row.
Examine(c, r) ==
    LET row == rec[c].loaded[r]
        phase == GetJobPhase(r)
    IN  /\ rec[c].pc = "looping"
        /\ r \in rec[c].todo
        /\ rec' = [rec EXCEPT
              ![c].todo = @ \ {r},
              ![c].at = IF phase = "active" THEN r ELSE NoRow,
              ![c].pc = AfterExamine(row, phase),
              ![c].copy[r] = IF phase = "active" THEN @ ELSE Verdict(row, phase)]
        /\ UNCHANGED <<storeVars, clusterVars>>

\* Mutant of AfterReSignal: the grace period never ends.
AfterReSignalPatient(row) == "looping"

AfterReSignal(row) == IF row.cancel = "overdue" THEN "deleting" ELSE "looping"

\* The signal is repeated in every tick of the grace period; what it raises
\* is logged and ignored.
ReSignal(c) ==
    LET r == rec[c].at IN
    /\ rec[c].pc = "signalling"
    /\ \/ SignalRunJobSigint(r) /\ UNCHANGED faults
       \/ Fault /\ UNCHANGED clusterVars
    /\ rec' = [rec EXCEPT ![c].pc = AfterReSignal(rec[c].loaded[r])]
    /\ UNCHANGED <<rows, created, locks>>

\* delete_run_job; when it fails the run is ended in the table all the same.
DeleteJob(c) ==
    LET r == rec[c].at IN
    /\ rec[c].pc = "deleting"
    /\ \/ DeleteRunJob(r) /\ UNCHANGED faults
       \/ Fault /\ UNCHANGED clusterVars
    /\ rec' = [rec EXCEPT ![c].pc = "looping",
                          ![c].copy[r] = HardStop(rec[c].loaded[r])]
    /\ UNCHANGED <<rows, created, locks>>

Changed(c) == {r \in Runs : rec[c].copy[r] # rec[c].loaded[r]}

\* One UPDATE that matches no row (StaleDataError) loses the whole tick.
ReconcileCommit(c) ==
    /\ rec[c].pc = "looping"
    /\ rec[c].todo = {}
    /\ \A r \in Changed(c) : ~Locked(r)
    /\ rows' = IF \A r \in Changed(c) : Exists(r)
               THEN [r \in Runs |->
                        IF r \in Changed(c)
                        THEN Flush(rows[r], rec[c].loaded[r], rec[c].copy[r])
                        ELSE rows[r]]
               ELSE rows
    /\ rec' = [rec EXCEPT ![c] = Resting]
    /\ UNCHANGED <<created, locks, faults, clusterVars>>

\* A crash, a failed commit, or an exception of get_job_phase or
\* get_pod_diagnostic, which nothing below the loop catches.
ReconcileAbort(c) ==
    /\ rec[c].pc # "resting"
    /\ Fault
    /\ rec' = [rec EXCEPT ![c] = Resting]
    /\ UNCHANGED <<rows, created, locks, clusterVars>>

ReconcilerStep(c) ==
    \/ ReconcileSelect(c) \/ ReSignal(c) \/ DeleteJob(c) \/ ReconcileCommit(c)
    \/ \E r \in Runs : Examine(c, r)

ReconcilerNext == \E c \in Reconcilers : ReconcilerStep(c) \/ ReconcileAbort(c)
=============================================================================
