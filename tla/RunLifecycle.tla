---------------------------- MODULE RunLifecycle ----------------------------
(***************************************************************************)
(* The life of a run: the API, the queue workers, the reconcilers and the  *)
(* cluster, over one runs table.  A single process runs all the components *)
(* of a replica, but every await is a switch, so the composition is an     *)
(* interleaving; losing a process is losing its components' steps one by   *)
(* one.  Jobs, pods and time take steps of their own.                      *)
(***************************************************************************)
EXTENDS QueueService, RunService, JobReconciler

VARIABLE resurrected   \* history: runs that left a terminal status again

vars == <<storeVars, clusterVars, queueVars, handler, rec, resurrected>>

TypeOK == /\ StoreTypeOK /\ ClusterTypeOK
          /\ QueueTypeOK /\ RequestTypeOK /\ ReconcilerTypeOK
          /\ resurrected \subseteq Runs

Init == /\ StoreInit /\ ClusterInit /\ QueueInit /\ RequestInit /\ ReconcilerInit
        /\ resurrected = {}

-----------------------------------------------------------------------------

Resurrects(r) == Terminal(r) /\ Exists(r)' /\ ~Terminal(r)'

Record == resurrected' = resurrected \union {r \in Runs : Resurrects(r)}

\* Ages are read by the reconciler only; without one they stand still.
TimePasses(r) == /\ Reconcilers # {}
                 /\ StatusGoesStale(r) \/ GraceElapses(r)
                 /\ UNCHANGED clusterVars

Environment ==
    \E r \in Runs : PodStarts(r) \/ PodEnds(r) \/ JobExpires(r) \/ TimePasses(r)

OfWorkers     == UNCHANGED <<handler, rec>>        /\ Record
OfHandlers    == UNCHANGED <<queueVars, rec>>      /\ Record
OfReconcilers == UNCHANGED <<queueVars, handler>>  /\ Record
OfEnvironment == UNCHANGED <<queueVars, handler, rec>> /\ Record

Next == \/ QueueNext      /\ OfWorkers
        \/ RequestNext    /\ OfHandlers
        \/ ReconcilerNext /\ OfReconcilers
        \/ Environment    /\ OfEnvironment

Spec == Init /\ [][Next]_vars

\* A loop that polls and a request that was accepted go on until they fail.
\* Pipelines end, unless their pod never starts: then nothing is posted, and
\* the status goes stale.  Time passes; Kubernetes removes finished Jobs.
\* Fairness of a request is strong because PostgreSQL hands a row lock to the
\* transaction that waits for it before a later tick can select the row.
PipelineEnds(r) == pod[r] # "pending" /\ PodEnds(r)

Fairness ==
    /\ \A w \in Workers     : WF_vars(WorkerStep(w) /\ OfWorkers)
    /\ \A h \in Handlers    : SF_vars(RequestStep(h) /\ OfHandlers)
    /\ \A c \in Reconcilers : WF_vars(ReconcilerStep(c) /\ OfReconcilers)
    /\ \A r \in Runs : /\ WF_vars(PipelineEnds(r) /\ OfEnvironment)
                       /\ WF_vars(JobExpires(r) /\ OfEnvironment)
                       /\ WF_vars(TimePasses(r) /\ OfEnvironment)

FairSpec == Spec /\ Fairness

-----------------------------------------------------------------------------
(* Admission                                                               *)

\* MAX_CONCURRENT_RUNS bounds the runs that hold a slot: each replica's
\* worker adds at most the limit, and only a run that came back from a
\* terminal status escapes the count.  With one replica it is the limit.
CapPerReplica ==
    QueueEnabled /\ MaxConcurrent > 0 =>
        Cardinality(Active \ resurrected)
            <= Cardinality(Workers) * MaxConcurrent

\* A run is launched again only for a launch whose commit was lost: neither
\* two workers nor two ticks start the same run, whatever the API does to
\* its row in between.
OneLaunchPerCommit ==
    \A r \in Runs : launches[r] <= 1 + lost[r]

\* A started run is supervised: a run that says NOT_STARTED or IN_PROGRESS
\* without a Job name is invisible to the queue and to the reconciler, and
\* only the loss of a worker's commit leaves one.
UnsupervisedOnlyAfterLoss ==
    \A r \in Runs :
        /\ Exists(r)
        /\ rows[r].status \in {"NOT_STARTED", "IN_PROGRESS"}
        /\ ~rows[r].job
        => lost[r] > 0

\* "Admission only moves QUEUED to NOT_STARTED when a Job is created": the
\* step that names a run's Job finds it QUEUED, whatever a cancel or a late
\* status did since the worker selected it.
AdmissionOnlyFromQueue ==
    [][\A r \in Runs :
          /\ Exists(r) /\ Exists(r)'
          /\ ~rows[r].job /\ rows'[r].job
          => /\ rows[r].status = "QUEUED"
             /\ rows'[r].status = "NOT_STARTED"
             /\ launches[r] > 0]_vars

\* The abstract queue: a run is over once it is terminal for the first time,
\* or past the queue without a supervised Job.
BeingCreated(r) == \E h \in Handlers : /\ handler[h] # NoRequest
                                       /\ handler[h].run = r
                                       /\ handler[h].op = "create"

AdmissionPhase ==
    [r \in Runs |->
        IF created[r] = 0 \/ BeingCreated(r) THEN "new"
        ELSE IF r \in Waiting THEN "waiting"
        ELSE IF HoldsSlot(r) /\ r \notin resurrected THEN "started"
        ELSE "over"]

\* The slots of the whole operator: each replica gives away the limit.
AllSlots == IF MaxConcurrent <= 0 THEN Cardinality(Runs)
            ELSE Cardinality(Workers) * MaxConcurrent

Admission == INSTANCE AdmissionControl
                WITH Run <- Runs, Slots <- AllSlots,
                     phase <- AdmissionPhase

\* With the queue enabled the rows behave like the abstract queue, however
\* many replicas work it: one start per run, out of the queue, and never
\* more started than the replicas may start; with one it is the limit.
ImplementsAdmissionControl == Admission!Spec

\* A waiting run does not wait for ever, although slots only come back when
\* the reconciler ends the runs that hold them, and ticks fail.  One thing
\* stops the queue: the Job of a lost commit whose pod never starts.  Nobody
\* supervises that Job; while it is there every tick selects its run first
\* and is refused, and the run keeps its place before all younger ones.
Orphaned(r) == lost[r] > 0 /\ job[r] = "active" /\ pod[r] = "pending"

BehindOrphan(r) ==
    \E q \in Waiting : Orphaned(q) /\ created[q] <= created[r]

QueuedRunLeavesQueue ==
    \A r \in Runs : (r \in Waiting) ~> (r \notin Waiting \/ BehindOrphan(r))

-----------------------------------------------------------------------------
(* Supervision                                                             *)

\* Whoever makes a run terminal, from however old a copy, sets finished_at,
\* and nobody sets it otherwise: it stands in the rows of the runs that are
\* over, and of those that were and came back.
FinishedStamped ==
    \A r \in Runs :
        Exists(r) =>
            (rows[r].finished <=> Terminal(r) \/ r \in resurrected)

\* One thing alone brings a run back that was over: a status its pod posted,
\* which differs from the one the request had loaded.  Workers, reconcilers,
\* cancels and reports never do, however old the copies they write.
StatusPosted(h, r) == /\ Serves(h, "status")
                      /\ handler[h].run = r
                      /\ handler[h].arg \in StatusValues
                      /\ handler[h].arg # handler[h].loaded.status
                      /\ handler[h].arg = rows'[r].status
                      /\ handler'[h] = NoRequest

RevivedOnlyByStatus ==
    [][\A r \in Runs :
          Resurrects(r) => \E h \in Handlers : StatusPosted(h, r)]_vars

\* The reconciler ends a run only when its Job is over or was deleted (or
\* could not be): no decision is so stale that the Job lives again.
HardStopped(c, r) == rec[c].copy[r].code \in {"STUCK_TIMEOUT", "RUN_CANCELLED"}

VerdictOnlyOnDeadJob ==
    [][\A c \in Reconcilers, r \in Runs :
          /\ rec'[c].pc = "resting" /\ rec[c].pc # "resting"
          /\ r \in Changed(c) /\ ~Terminal(r) /\ Terminal(r)'
          => job[r] # "active" \/ (faults > 0 /\ HardStopped(c, r))]_vars

\* The finish code of a cancelled run is only given to a run whose cancel
\* was requested, and the request is never forgotten.
CancelCodeOnlyOnRequest ==
    \A r \in Runs :
        Exists(r) /\ rows[r].code = "RUN_CANCELLED" => rows[r].cancel # "no"

\* A pod is interrupted only for a cancelled run, or with its Job deleted.
SignalledOnlyOnRequest ==
    \A r \in Runs :
        pod[r] = "signalled" /\ Exists(r) =>
            rows[r].cancel # "no" \/ job[r] # "active"

\* A cancel that was accepted ends the run, also when the pod ignores the
\* signal, the signal is lost or statuses keep coming.
CancelEndsRun ==
    \A r \in Runs :
        (HoldsSlot(r) /\ rows[r].cancel # "no") ~> ~HoldsSlot(r)

\* Every supervised run ends and then stays ended, even when late statuses
\* bring it back for a while, and even when its pod never starts.
SupervisedRunSettles ==
    \A r \in Runs : HoldsSlot(r) ~> [](~HoldsSlot(r))

-----------------------------------------------------------------------------
(* What the documentation says and the code does not keep.                 *)

\* "SUCCESS / FAILED / CANCELLED: terminal".
TerminalIsFinal ==
    [][\A r \in Runs : Terminal(r) /\ Exists(r)'
                       => rows'[r].status = rows[r].status]_vars

\* "CANCELLED: Terminal -- cooperative cancel finished": the run's Job is
\* over, or at least its pod was interrupted.
CancelledMeansInterrupted ==
    \A r \in Runs :
        Exists(r) /\ rows[r].status = "CANCELLED" =>
            ~(job[r] = "active" /\ pod[r] \in {"pending", "running"})
=============================================================================
