---------------------------- MODULE RunArtifacts ----------------------------
(***************************************************************************)
(* The life of a run's objects: the operator's requests (RunStorage) and   *)
(* the pods (JobEntrypoint) around one table and one object store.  Of     *)
(* the status machinery, which RunLifecycle models, only what the two see  *)
(* is left: a Job is started, statuses arrive, a run is cancelled, its pod *)
(* is signalled, and its Job is deleted.                                   *)
(***************************************************************************)
EXTENDS JobEntrypoint

vars == <<storageVars, podVars>>

-----------------------------------------------------------------------------
(* The rest of the operator.                                               *)

othersStorage == <<objects, born, request, cleanup, faults, erased, torn>>

\* The queue worker creates the Job; its pod's container starts.
StartPod(r) ==
    /\ at[r] = "none"
    /\ Exists(r)
    /\ rows[r].status = "QUEUED"
    /\ at' = [at EXCEPT ![r] = "input"]
    /\ parentOf' = [parentOf EXCEPT ![r] = rows[r].parent]
    /\ UNCHANGED <<child, cancelled, files, doomed, outcome, killed, storageVars>>

\* A status of the PDE or a verdict of the reconciler.
StatusChanges(r, s) ==
    /\ Exists(r)
    /\ at[r] # "none"
    /\ rows[r].status # s
    /\ rows' = [rows EXCEPT ![r].status = s]
    /\ UNCHANGED <<othersStorage, podVars>>

\* cancel_run: a run without a Job is over, one with a Job is signalled.
CancelRun(r) ==
    /\ Exists(r)
    /\ rows[r].status \notin TERMINAL_STATUSES
    /\ ~rows[r].cancel
    /\ rows' = [rows EXCEPT ![r].cancel = TRUE,
                            ![r].status = IF at[r] = "none" THEN "CANCELLED" ELSE @]
    /\ UNCHANGED <<othersStorage, podVars>>

\* The signal of cancel_run, and the reconciler's, repeated every tick.
SignalCancelled(r) == Exists(r) /\ rows[r].cancel /\ Sigint(r)

\* The reconciler deletes a Job: the grace period is over or the run stuck.
DeleteJob(r) == Exists(r) /\ Sigterm(r)

-----------------------------------------------------------------------------

Init == StorageInit /\ PodInit

OperatorNext ==
    \/ /\ \/ ClientNext \/ OperatorCrash
          \/ \E x \in Servers : RequestStep(x) \/ RequestLost(x)
       /\ UNCHANGED podVars
    \/ \E r \in Runs : \/ StartPod(r) \/ CancelRun(r)
                       \/ \E s \in StatusValues : StatusChanges(r, s)

PodNext ==
    \E r \in Runs :
        \/ PodStep(r) \/ FetchBreaks(r) \/ UploadBreaks(r)
        \/ ChildEnds(r)
        \/ \E h \in Handlers, kind \in Kinds : Deliver(h, r, kind)
        \/ SignalCancelled(r) \/ DeleteJob(r) \/ Sigkill(r)

Next == OperatorNext \/ PodNext

Spec == Init /\ [][Next]_vars

\* The pod runs, a PDE that was interrupted ends, the API serves what it has
\* accepted, and the reconciler repeats the signal in every tick.
Fairness ==
    /\ \A r \in Followed : /\ WF_vars(PodStep(r))
                           /\ WF_vars(child[r] = "interrupted" /\ ChildEnds(r))
                           /\ WF_vars(SignalCancelled(r))
    /\ \A x \in Handlers : WF_vars(RequestStep(x) /\ UNCHANGED podVars)

FairSpec == Spec /\ Fairness

-----------------------------------------------------------------------------
(* Safety.                                                                 *)

TypeOK == StorageTypeOK /\ PodTypeOK

\* A run in the table has its input in the object store, so that its pod
\* can start and it can be retried; only a delete on its way from the
\* objects to the row, or one that was lost there, is an exception.
RowHasInput ==
    \A r \in Runs :
        Exists(r) /\ "input" \notin objects[r] =>
            \/ r \in torn
            \/ \E x \in Servers : Serves(x, "deleteRow") /\ WorksOn(x, r)

\* The encrypted input, with the run's secrets, does not outlive the run:
\* once nobody works on a run that has no row, its input is gone too,
\* unless something failed on the way.
InputGoesWithRow ==
    \A r \in Runs :
        /\ ~Exists(r)
        /\ "input" \in objects[r]
        /\ \A x \in Servers : ~WorksOn(x, r)
        => faults > 0

\* state_location is not set without the state being there, or erased by a
\* delete since.
StateLocationIsThere ==
    \A r \in Runs : Exists(r) /\ rows[r].state => \/ "state" \in objects[r]
                                                  \/ r \in erased

\* A pod that dies before its pipeline has started was stopped, or its own
\* run or the parent it was to go on from has been deleted meanwhile, or
\* a request failed: every run that was accepted can start.
StartsUnlessErased ==
    \A r \in Runs :
        at[r] = "ended" /\ child[r] = "none" =>
            \/ killed[r] \/ faults > 0
            \/ Exists(r) /\ rows[r].cancel
            \/ r \in erased \/ parentOf[r] \in erased

\* "Jobs must archive after execute (including cancel) so cancelled runs
\* stay retryable": when a pod has run its pipeline and ended, its state
\* is recorded, unless it was killed, its run deleted, or something failed.
ArchivedUnlessKilled ==
    \A r \in Runs :
        at[r] = "ended" /\ child[r] # "none" =>
            \/ Exists(r) /\ rows[r].state
            \/ killed[r] \/ faults > 0 \/ r \in erased

\* A run the cleanup picked and could not delete costs a failure each: one
\* failure does not keep the cleanup from the runs after it.
FailureSkipsOneRun ==
    ~Busy(Cleaner) /\ cleanup.todo = {} =>
        Cardinality({r \in cleanup.picked : Exists(r)}) <= faults

-----------------------------------------------------------------------------
(* Liveness.                                                               *)

\* A run cancelled while its pipeline runs ends, and ends with its state
\* stored (so that it can be retried), unless it is killed or deleted or
\* something fails.
CancelLeavesState ==
    \A r \in Runs :
        Exists(r) /\ rows[r].cancel /\ at[r] = "wait" ~>
            \/ at[r] = "ended" /\ Exists(r) /\ rows[r].state
            \/ killed[r] \/ faults > 0 \/ r \in erased

-----------------------------------------------------------------------------
(* Refinement.                                                             *)

\* The entrypoint with its signal windows implements the pod the operator's
\* model assumes: a signal before the handlers are installed either ends
\* the pod or is not noticed, and a pod asked to stop never succeeds.
PodSeen == [r \in Runs |->
    CASE at[r] \in {"none", "ended"} -> at[r]
      [] at[r] = "input"             -> "pending"
      [] OTHER -> IF cancelled[r] THEN "signalled" ELSE "running"]

Contract == INSTANCE PodContract WITH pod <- PodSeen, outcome <- outcome

ImplementsPodContract == Contract!ContractSpec
=============================================================================
