----------------------------- MODULE JobService -----------------------------
(***************************************************************************)
(* JobService's calls to the Kubernetes API, and the Job and pod they act  *)
(* on.  A run has at most one Job at a time because its name is derived    *)
(* from the run id.  backoffLimit 0 and restartPolicy Never: the pod's     *)
(* end is the Job's end; the Job object goes ttlSecondsAfterFinished       *)
(* later.  Deleting the Job (propagation Background) lets a running pod    *)
(* live on through its termination grace, still posting to the operator.   *)
(***************************************************************************)
EXTENDS RunStore

VARIABLES job,   \* "none", "active", "succeeded" or "failed"
          pod,   \* "none", "pending", "running" or "signalled"
          launches   \* history: how often each run's Job was created

clusterVars == <<job, pod, launches>>

JobPhases == {"none", "active", "succeeded", "failed"}
PodStates == {"none", "pending", "running", "signalled"}

ClusterTypeOK == /\ job \in [Runs -> JobPhases]
                 /\ pod \in [Runs -> PodStates]
                 /\ launches \in [Runs -> Nat]

ClusterInit == /\ job = [r \in Runs |-> "none"]
               /\ pod = [r \in Runs |-> "none"]
               /\ launches = [r \in Runs |-> 0]

-----------------------------------------------------------------------------
(* The calls of the operator.                                              *)

CreateRunJob(r) ==
    /\ job[r] = "none"
    /\ job' = [job EXCEPT ![r] = "active"]
    /\ pod' = [pod EXCEPT ![r] = "pending"]
    /\ launches' = [launches EXCEPT ![r] = @ + 1]

\* JobCreationError: 409 when a Job of that name exists, or any API error.
CreateRunJobRefused(r) ==
    /\ \/ job[r] # "none" /\ UNCHANGED faults
       \/ Fault
    /\ UNCHANGED clusterVars

\* Mutant of GetJobPhase: a Job without a status yet is taken for missing.
GetJobPhaseStatusNeeded(r) ==
    IF job[r] = "none" \/ (job[r] = "active" /\ pod[r] = "pending")
    THEN "missing" ELSE job[r]

GetJobPhase(r) == IF job[r] = "none" THEN "missing" ELSE job[r]

\* find_job_pod, then kill -INT 1.  Without a pod there is nobody to signal;
\* exec into a pending or finished pod raises JobSignalError.
SignalRunJobSigint(r) ==
    /\ pod' = [pod EXCEPT ![r] = IF pod[r] = "running" THEN "signalled" ELSE @]
    /\ UNCHANGED <<job, launches>>

\* A missing Job (404) counts as deleted.  A running container gets SIGTERM,
\* which the entrypoint treats like SIGINT; one that never started is gone.
\* An entrypoint still fetching its input has no handler and goes on.
DeleteRunJob(r) ==
    /\ job' = [job EXCEPT ![r] = "none"]
    /\ \/ /\ pod[r] \in {"running", "signalled"}
          /\ pod' = [pod EXCEPT ![r] = "signalled"]
       \/ /\ pod[r] \in {"none", "pending"}
          /\ \E left \in {"none", pod[r]} : pod' = [pod EXCEPT ![r] = left]
    /\ UNCHANGED launches

-----------------------------------------------------------------------------
(* The cluster.                                                            *)

\* fetch_run_input answers only when the run's row exists; otherwise the
\* entrypoint dies and PodEnds is all that is left.
PodStarts(r) ==
    /\ pod[r] = "pending"
    /\ Exists(r)
    /\ pod' = [pod EXCEPT ![r] = "running"]
    /\ UNCHANGED <<job, launches, storeVars>>

PodEnds(r) ==
    /\ pod[r] # "none"
    /\ pod' = [pod EXCEPT ![r] = "none"]
    /\ \E end \in {"succeeded", "failed"} :
          /\ pod[r] = "pending" => end = "failed"
          /\ job' = [job EXCEPT ![r] = IF job[r] = "active" THEN end ELSE @]
    /\ UNCHANGED <<launches, storeVars>>

JobExpires(r) ==
    /\ job[r] \in {"succeeded", "failed"}
    /\ job' = [job EXCEPT ![r] = "none"]
    /\ UNCHANGED <<pod, launches, storeVars>>
=============================================================================
