--------------------------- MODULE AdmissionProofs ---------------------------
(***************************************************************************)
(* Which run is launched, how often, and what the queue, the pod and the   *)
(* reconciler may therefore rely on.                                       *)
(***************************************************************************)
EXTENDS RowProofs

-----------------------------------------------------------------------------
(* Locks.  A row that a worker selected is its own until the tick ends: no *)
(* other worker has it, and nobody changes it.                             *)

Sorted(tick) == /\ tick.todo \intersect (tick.started \union tick.rejected) = {}
                /\ tick.started \intersect tick.rejected = {}

LocksInv ==
    /\ \A v, w \in Workers : v # w => locks[v] \intersect locks[w] = {}
    /\ \A w \in Workers : locks[w] \subseteq Waiting
    /\ \A w \in Workers : Sorted(worker[w])

\* What others do leaves locked rows alone.
LockedStay == /\ UNCHANGED <<locks, queueVars>>
              /\ \A r \in Runs : Locked(r) => rows'[r] = rows[r]

LEMMA RequestsLeaveLocked ==
    ASSUME TypeInv, RowInv, LocksInv, RequestNext, OfHandlers
    PROVE  LockedStay
<1>1. PICK h \in Handlers :
         RequestArrives(h) \/ RequestStep(h) \/ RequestLost(h)
  BY DEF RequestNext
<1>2. CASE UNCHANGED <<rows, locks>>
  BY <1>2 DEF LockedStay, OfHandlers, queueVars
<1>3. CASE CreateCommit(h)
  <2>1. Creating(h)
    BY <1>3 DEF CreateCommit, Creating, Serves
  <2>2. ~Exists(handler[h].run)
    BY <2>1 DEF RowInv, IdsUsedOnce
  <2>3. \A r \in Runs : Locked(r) => r # handler[h].run
    BY <2>2 DEF Locked, LocksInv, Waiting
  <2> QED BY <1>3, <2>3 DEF CreateCommit, LockedStay, OfHandlers, queueVars,
                            TypeInv, TypeOK, StoreTypeOK
<1>4. CASE CancelCommit(h) \/ ReportCommit(h) \/ DeleteCommit(h) \/ StatusCommit(h)
  <2>1. CanCommit(h) /\ UNCHANGED locks
    BY <1>4 DEF CancelCommit, ReportCommit, DeleteCommit, StatusCommit
  <2>2. \E row : rows' = [rows EXCEPT ![handler[h].run] = row]
    BY <1>4 DEF CancelCommit, ReportCommit, DeleteCommit, StatusCommit, Write
  <2> QED BY <2>1, <2>2 DEF CanCommit, LockedStay, OfHandlers, queueVars,
                            TypeInv, TypeOK, StoreTypeOK
<1>5. CASE RequestArrives(h) \/ RequestLost(h)
  BY <1>2, <1>5 DEF RequestArrives, RequestLost, CreateBegin, CancelBegin,
                    DeleteBegin, StatusBegin, ReportBegin, storeVars
<1>6. CASE CreateStartsJob(h) \/ CreateRefused(h) \/ CancelSignal(h)
  BY <1>2, <1>6 DEF CreateStartsJob, CreateRefused, CancelSignal, storeVars
<1> QED BY <1>1, <1>3, <1>4, <1>5, <1>6 DEF RequestStep

LEMMA ReconcilersLeaveLocked ==
    ASSUME TypeInv, ReconcilerNext, OfReconcilers
    PROVE  LockedStay
<1>1. PICK c \in Reconcilers : ReconcilerStep(c) \/ ReconcileAbort(c)
  BY DEF ReconcilerNext
<1>2. CASE ReconcileCommit(c)
  BY <1>2 DEF ReconcileCommit, LockedStay, OfReconcilers, TypeInv, TypeOK, StoreTypeOK
<1>3. CASE ~ReconcileCommit(c)
  BY <1>1, <1>3 DEF ReconcilerStep, ReconcileSelect, Examine, ReSignal, DeleteJob,
                    ReconcileAbort, LockedStay, OfReconcilers, storeVars
<1> QED BY <1>2, <1>3

LEMMA EnvironmentLeavesLocked ==
    ASSUME TypeInv, LocksInv, Environment, OfEnvironment
    PROVE  LockedStay
<1>1. PICK r \in Runs : \/ PodStarts(r) \/ PodEnds(r) \/ JobExpires(r)
                        \/ TimePasses(r)
  BY DEF Environment
<1>2. CASE TimePasses(r)
  <2>1. rows[r].job /\ UNCHANGED locks /\ \E row : rows' = [rows EXCEPT ![r] = row]
    BY <1>2 DEF TimePasses, StatusGoesStale, GraceElapses, HoldsSlot
  <2>2. ~Locked(r)
    BY <2>1 DEF Locked, LocksInv, Waiting
  <2> QED BY <2>1, <2>2 DEF LockedStay, OfEnvironment, TypeInv, TypeOK, StoreTypeOK
<1>3. CASE ~TimePasses(r)
  BY <1>1, <1>3 DEF PodStarts, PodEnds, JobExpires, LockedStay, OfEnvironment, storeVars
<1> QED BY <1>2, <1>3

LEMMA LocksInit == Init => LocksInv
BY DEF Init, StoreInit, QueueInit, LocksInv, Idle, Sorted

LEMMA LocksStep ==
    ASSUME TypeInv, TypeInv', RowInv, LocksInv, [Next]_vars
    PROVE  LocksInv'
<1>1. CASE LockedStay
  <2>1. \A w \in Workers : locks[w] \subseteq Runs
    BY DEF TypeInv, TypeOK, StoreTypeOK
  <2> QED BY <1>1, <2>1 DEF LockedStay, LocksInv, Locked, Waiting, Exists, queueVars
<1>2. CASE UNCHANGED vars
  BY <1>1, <1>2 DEF LockedStay, vars, storeVars, queueVars
<1>3. CASE QueueNext /\ OfWorkers
  <2> USE DEF TypeInv, TypeOK, StoreTypeOK, QueueTypeOK
  <2>1. PICK w \in Workers : WorkerStep(w) \/ AbortTick(w)
    BY <1>3 DEF QueueNext
  <2>2. worker[w] \in WorkerState
    OBVIOUS
  <2>3. CASE CountSlots(w) \/ SelectNothing(w)
    <3>1. /\ Sorted(worker'[w]) /\ UNCHANGED <<rows, locks>>
          /\ \A v \in Workers \ {w} : worker'[v] = worker[v]
      <4>1. CASE CountSlots(w)
        BY <4>1 DEF CountSlots, Idle, Sorted, storeVars
      <4>2. CASE SelectNothing(w)
        BY <4>2 DEF SelectNothing, Idle, Sorted, storeVars
      <4> QED BY <2>3, <4>1, <4>2
    <3> QED BY <3>1 DEF LocksInv, Waiting, Exists
  <2>4. CASE SelectQueued(w)
    <3>1. PICK S \in SUBSET Runs :
             /\ IsSelection(w, S)
             /\ locks' = [locks EXCEPT ![w] = S]
             /\ worker' = [worker EXCEPT ![w].pc = "admitting", ![w].todo = S]
             /\ UNCHANGED rows
      BY <2>4 DEF SelectQueued
    <3>2. S \subseteq Waiting /\ \A v \in Workers : locks[v] \intersect S = {}
      BY <3>1 DEF IsSelection, Locked
    <3>3. worker[w].started = {} /\ worker[w].rejected = {}
      BY <2>4 DEF SelectQueued, LocksHeld
    <3>4. /\ worker'[w].started = {} /\ worker'[w].rejected = {}
          /\ \A v \in Workers \ {w} : worker'[v] = worker[v]
      BY <2>2, <3>1, <3>3 DEF WorkerState
    <3>5. locks'[w] = S /\ \A v \in Workers \ {w} : locks'[v] = locks[v]
      BY <3>1
    <3>6. \A v \in Workers : Sorted(worker'[v])
      BY <3>4 DEF LocksInv, Sorted
    <3>7. \A v, u \in Workers : v # u => locks'[v] \intersect locks'[u] = {}
      BY <3>2, <3>5 DEF LocksInv
    <3>8. \A v \in Workers : locks'[v] \subseteq Waiting'
      BY <3>1, <3>2, <3>5 DEF LocksInv, Waiting, Exists
    <3> QED BY <3>6, <3>7, <3>8 DEF LocksInv
  <2>5. CASE CommitTick(w)
    <3>1. /\ \A r \in Runs : rows'[r] = AdmittedRow(w, r)
          /\ locks'[w] = {} /\ \A v \in Workers \ {w} : locks'[v] = locks[v]
          /\ Sorted(worker'[w])
          /\ \A v \in Workers \ {w} : worker'[v] = worker[v]
      BY <2>5 DEF CommitTick, Idle, Sorted
    <3>2. \A r \in Runs \ locks[w] : rows'[r] = rows[r]
      BY <3>1 DEF AdmittedRow, LocksHeld
    <3>3. \A v \in Workers \ {w} : locks[v] \subseteq Runs \ locks[w]
      BY DEF LocksInv
    <3>4. \A v \in Workers : locks'[v] \subseteq Waiting'
      BY <3>1, <3>2, <3>3 DEF LocksInv, Waiting, Exists
    <3> QED BY <3>1, <3>4 DEF LocksInv
  <2>6. CASE AbortTick(w)
    <3>1. /\ locks'[w] = {} /\ \A v \in Workers \ {w} : locks'[v] = locks[v]
          /\ Sorted(worker'[w])
          /\ \A v \in Workers \ {w} : worker'[v] = worker[v]
          /\ UNCHANGED rows
      BY <2>6 DEF AbortTick, Idle, Sorted
    <3> QED BY <3>1 DEF LocksInv, Waiting, Exists
  <2>7. ASSUME NEW r \in Runs,
               AdmitStarts(w, r) \/ AdmitRefused(w, r) \/ ProfileMissing(w, r)
        PROVE  LocksInv'
    <3>1. UNCHANGED <<rows, locks>> /\ r \in worker[w].todo
      BY <2>7 DEF AdmitStarts, AdmitRefused, ProfileMissing, storeVars, IsNext
    <3>2. /\ worker'[w].todo = worker[w].todo \ {r}
          /\ \/ /\ worker'[w].started = worker[w].started
                /\ worker'[w].rejected \subseteq worker[w].rejected \union {r}
             \/ /\ worker'[w].started = worker[w].started \union {r}
                /\ worker'[w].rejected = worker[w].rejected
          /\ \A v \in Workers \ {w} : worker'[v] = worker[v]
      BY <2>2, <2>7 DEF AdmitStarts, AdmitRefused, ProfileMissing, WorkerState
    <3>3. \A v \in Workers : Sorted(worker'[v])
      BY <3>1, <3>2 DEF LocksInv, Sorted
    <3> QED BY <3>1, <3>3 DEF LocksInv, Waiting, Exists
  <2> QED BY <2>1, <2>3, <2>4, <2>5, <2>6, <2>7 DEF WorkerStep
<1> QED BY <1>1, <1>2, <1>3, RequestsLeaveLocked, ReconcilersLeaveLocked,
           EnvironmentLeavesLocked DEF Next

-----------------------------------------------------------------------------
(* What one step can do to a request, to a Job, to a tick and to a row.    *)

Launches(r) == \/ \E w \in Workers : AdmitStarts(w, r)
               \/ \E h \in Handlers : CreateStartsJob(h) /\ handler[h].run = r

\* Without a launch a Job does not come back, and a pod only goes on.
Unlaunched(r) ==
    /\ launches'[r] = launches[r]
    /\ job'[r] = "active" => job[r] = "active"
    /\ pod'[r] # "none" => pod[r] # "none"
    /\ pod'[r] = "pending" => pod[r] = "pending"
    /\ pod'[r] = "running" => pod[r] = "running" \/ (pod[r] = "pending" /\ Exists(r))
    /\ pod'[r] = "signalled" => pod[r] \in {"running", "signalled"}

LEMMA CallsLaunchNothing ==
    ASSUME ClusterTypeOK, NEW r \in Runs,
           \/ SignalRunJobSigint(r) \/ DeleteRunJob(r) \/ UNCHANGED clusterVars,
           NEW q \in Runs
    PROVE  Unlaunched(q)
BY DEF ClusterTypeOK, SignalRunJobSigint, DeleteRunJob, clusterVars, Unlaunched

LEMMA ClusterMoves ==
    ASSUME TypeInv, [Next]_vars, NEW r \in Runs
    PROVE  Unlaunched(r) \/ Launches(r)
<1> USE DEF TypeInv, TypeOK
<1>1. CASE UNCHANGED clusterVars
  BY <1>1 DEF clusterVars, Unlaunched
<1>2. CASE UNCHANGED vars
  BY <1>1, <1>2 DEF vars
<1>3. CASE QueueNext
  <2>1. ASSUME NEW w \in Workers, NEW q \in Runs, AdmitStarts(w, q)
        PROVE  Unlaunched(r) \/ Launches(r)
    <3>1. CASE q = r
      BY <2>1, <3>1 DEF Launches
    <3>2. CASE q # r
      BY <2>1, <3>2 DEF AdmitStarts, CreateRunJob, ClusterTypeOK, Unlaunched
    <3> QED BY <3>1, <3>2
  <2> QED
    BY <1>1, <1>3, <2>1 DEF QueueNext, WorkerStep, CountSlots, SelectQueued, SelectNothing,
       CommitTick, AbortTick, AdmitRefused, CreateRunJobRefused, ProfileMissing
<1>4. CASE RequestNext
  <2>1. PICK h \in Handlers : RequestArrives(h) \/ RequestStep(h) \/ RequestLost(h)
    BY <1>4 DEF RequestNext
  <2>2. CASE CreateStartsJob(h)
    <3>1. handler[h].run \in Runs
      BY <2>2, ServedIsRequest DEF CreateStartsJob, Serves, NoRequest
    <3>2. CASE handler[h].run = r
      BY <2>2, <3>2 DEF Launches
    <3>3. CASE handler[h].run # r
      BY <2>2, <3>1, <3>3 DEF CreateStartsJob, CreateRunJob, ClusterTypeOK, Unlaunched
    <3> QED BY <3>2, <3>3
  <2>3. CASE CancelSignal(h)
    <3>1. handler[h].run \in Runs
      BY <2>3, ServedIsRequest DEF CancelSignal, Serves, NoRequest
    <3> QED BY <2>3, <3>1, CallsLaunchNothing DEF CancelSignal
  <2>4. CASE RequestArrives(h) \/ RequestLost(h)
    BY <1>1, <2>4 DEF RequestArrives, CreateBegin, CancelBegin, DeleteBegin, StatusBegin,
       ReportBegin, RequestLost
  <2>5. CASE RequestStep(h) /\ ~CreateStartsJob(h) /\ ~CancelSignal(h)
    BY <1>1, <2>5 DEF RequestStep, CreateRefused, CreateRunJobRefused, CreateCommit,
       CancelCommit, DeleteCommit, StatusCommit, ReportCommit
  <2> QED BY <2>1, <2>2, <2>3, <2>4, <2>5
<1>5. CASE ReconcilerNext
  <2>1. PICK c \in Reconcilers : ReconcilerStep(c) \/ ReconcileAbort(c)
    BY <1>5 DEF ReconcilerNext
  <2>2. CASE ReSignal(c) \/ DeleteJob(c)
    <3>1. rec[c].at \in Runs
      BY <2>2 DEF ReSignal, DeleteJob, CopiesLoaded
    <3> QED BY <2>2, <3>1, CallsLaunchNothing DEF ReSignal, DeleteJob
  <2>3. CASE ~(ReSignal(c) \/ DeleteJob(c))
    BY <1>1, <2>1, <2>3 DEF ReconcilerStep, ReconcileSelect, Examine, ReconcileCommit,
       ReconcileAbort
  <2> QED BY <2>2, <2>3
<1>6. CASE Environment
  <2>1. PICK q \in Runs : PodStarts(q) \/ PodEnds(q) \/ JobExpires(q) \/ TimePasses(q)
    BY <1>6 DEF Environment
  <2>2. CASE PodStarts(q)
    BY <2>2 DEF PodStarts, ClusterTypeOK, Unlaunched
  <2>3. CASE PodEnds(q)
    BY <2>3 DEF PodEnds, ClusterTypeOK, Unlaunched
  <2>4. CASE JobExpires(q)
    BY <2>4 DEF JobExpires, ClusterTypeOK, Unlaunched
  <2>5. CASE TimePasses(q)
    BY <1>1, <2>5 DEF TimePasses
  <2> QED BY <2>1, <2>2, <2>3, <2>4, <2>5
<1> QED BY <1>2, <1>3, <1>4, <1>5, <1>6 DEF Next

\* A run a worker has started stays started until the tick is committed, and
\* then its row is named, or lost.
BeingStarted(r) == \E w \in Workers : r \in worker[w].started

TickMoves(r) ==
    /\ lost'[r] >= lost[r]
    /\ BeingStarted(r)' => BeingStarted(r) \/ \E w \in Workers : AdmitStarts(w, r)
    /\ BeingStarted(r) /\ ~BeingStarted(r)' =>
          \/ lost'[r] = lost[r] + 1
          \/ rows'[r].job

LEMMA TicksMove ==
    ASSUME TypeInv, TypeInv', LocksInv, [Next]_vars, NEW r \in Runs
    PROVE  TickMoves(r)
<1> USE DEF TypeInv, TypeOK, QueueTypeOK
<1>1. CASE UNCHANGED queueVars
  BY <1>1 DEF queueVars, TickMoves, BeingStarted
<1>2. CASE QueueNext
  <2>1. PICK w \in Workers : WorkerStep(w) \/ AbortTick(w)
    BY <1>2 DEF QueueNext
  <2>2. worker[w] \in WorkerState
    OBVIOUS
  <2>3. CASE \/ CountSlots(w) \/ SelectNothing(w) \/ SelectQueued(w)
             \/ \E q \in Runs : AdmitRefused(w, q) \/ ProfileMissing(w, q)
    <3>1. UNCHANGED lost /\ \A v \in Workers \ {w} : worker'[v] = worker[v]
      BY <2>3 DEF CountSlots, SelectNothing, SelectQueued, AdmitRefused, ProfileMissing
    <3>2. worker'[w].started = worker[w].started
      <4>1. CASE CountSlots(w) \/ SelectNothing(w)
        <5>1. worker[w].started = {}
          BY <4>1 DEF CountSlots, SelectNothing, LocksHeld
        <5>2. worker'[w].started = {}
          <6>1. CASE CountSlots(w)
            BY <6>1 DEF CountSlots, Idle
          <6>2. CASE SelectNothing(w)
            BY <6>2 DEF SelectNothing, Idle
          <6> QED BY <4>1, <6>1, <6>2
        <5> QED BY <5>1, <5>2
      <4>2. CASE SelectQueued(w)
        BY <2>2, <4>2 DEF SelectQueued, WorkerState
      <4>3. CASE \E q \in Runs : AdmitRefused(w, q) \/ ProfileMissing(w, q)
        BY <2>2, <4>3 DEF AdmitRefused, ProfileMissing, WorkerState
      <4> QED BY <2>3, <4>1, <4>2, <4>3
    <3> QED BY <3>1, <3>2 DEF TickMoves, BeingStarted
  <2>4. ASSUME NEW q \in Runs, AdmitStarts(w, q) PROVE TickMoves(r)
    <3>1. /\ UNCHANGED lost /\ \A v \in Workers \ {w} : worker'[v] = worker[v]
          /\ worker'[w].started = worker[w].started \union {q}
      BY <2>2, <2>4 DEF AdmitStarts, WorkerState
    <3> QED BY <2>4, <3>1 DEF TickMoves, BeingStarted
  <2>5. CASE CommitTick(w)
    <3>1. /\ UNCHANGED lost /\ \A v \in Workers \ {w} : worker'[v] = worker[v]
          /\ worker'[w].started = {} /\ rows'[r] = AdmittedRow(w, r)
      BY <2>5 DEF CommitTick, Idle
    <3>2. ASSUME r \in worker[w].started PROVE rows'[r].job
      <4>1. rows[r] \in Row
        BY <3>2 DEF LocksHeld, Exists, StoreTypeOK
      <4>2. rows'[r] = [rows[r] EXCEPT !.job = TRUE, !.status = "NOT_STARTED", !.fresh = TRUE]
        BY <3>1, <3>2 DEF AdmittedRow, LocksInv, Sorted
      <4> QED BY <4>1, <4>2 DEF Row
    <3> QED BY <3>1, <3>2 DEF TickMoves, BeingStarted
  <2>6. CASE AbortTick(w)
    <3>1. /\ lost'[r] = IF r \in worker[w].started THEN lost[r] + 1 ELSE lost[r]
          /\ \A v \in Workers \ {w} : worker'[v] = worker[v]
          /\ worker'[w].started = {}
      BY <2>6 DEF AbortTick, Idle
    <3> QED BY <3>1 DEF TickMoves, BeingStarted
  <2> QED BY <2>1, <2>3, <2>4, <2>5, <2>6 DEF WorkerStep
<1> QED BY <1>1, <1>2 DEF Next, OfHandlers, OfReconcilers, OfEnvironment, vars

\* A request goes on with the run and the row it has, ends, or is a new one.
Carried(h) == /\ handler'[h].run = handler[h].run
              /\ handler'[h].loaded = handler[h].loaded

RequestMoves(h) ==
    \/ handler'[h] \in {handler[h], NoRequest}
    \/ /\ Serves(h, "create") /\ CreateRunJob(handler[h].run) /\ ~QueueEnabled
       /\ handler'[h].op = "createdJob" /\ handler'[h].run = handler[h].run
       /\ handler'[h].loaded.job /\ ~handler'[h].loaded.finished
    \/ /\ CancelCommit(h) /\ Carried(h) /\ handler'[h].op = "signal"
    \/ \E r \in Runs :
          /\ handler[h] = NoRequest /\ handler'[h].run = r
          /\ UNCHANGED <<rows, clusterVars>>
          /\ \/ /\ created[r] = 0 /\ handler'[h].op = "create"
                /\ handler'[h].loaded = NewRow
             \/ /\ Exists(r) /\ handler'[h].op \in {"cancel", "delete", "status", "report"}
                /\ handler'[h].loaded = rows[r]
                /\ handler'[h].op = "cancel" => rows[r].cancel = "no"
                /\ handler'[h].op = "status" =>
                      PodPosts(r) /\ handler'[h].arg \in StatusValues

LEMMA RequestsMove ==
    ASSUME TypeInv, [Next]_vars, NEW h \in Handlers
    PROVE  RequestMoves(h)
<1> USE DEF TypeInv, TypeOK, RequestTypeOK
<1>1. CASE handler'[h] = handler[h]
  BY <1>1 DEF RequestMoves
<1>2. CASE handler'[h] # handler[h]
  <2>1. RequestNext
    BY <1>2 DEF Next, OfWorkers, OfReconcilers, OfEnvironment, vars
  <2>2. PICK g \in Handlers : RequestArrives(g) \/ RequestStep(g) \/ RequestLost(g)
    BY <2>1 DEF RequestNext
  <2>3. g = h
    <3>1. Done(g) \/ Goto(g, "signal") \/ (\E op, r, row, arg : Begin(g, op, r, row, arg))
      BY <2>2 DEF RequestArrives, CreateBegin, CancelBegin, DeleteBegin, StatusBegin,
         ReportBegin, RequestStep, CreateStartsJob, CreateRefused, CreateCommit,
         CancelCommit, CancelSignal, DeleteCommit, StatusCommit, ReportCommit, RequestLost
    <3> QED BY <1>2, <3>1 DEF Done, Goto, Begin
  <2>4. CASE Done(h)
    BY <2>4 DEF Done, RequestMoves
  <2>5. CASE RequestArrives(h)
    <3>1. PICK r \in Runs :
             \/ CreateBegin(h, r) \/ CancelBegin(h, r) \/ DeleteBegin(h, r)
             \/ \E s \in StatusValues : StatusBegin(h, r, s)
             \/ \E code \in ReportCodes : ReportBegin(h, r, code)
      BY <2>5 DEF RequestArrives
    <3>2. handler[h] = NoRequest /\ UNCHANGED <<rows, clusterVars>>
      BY <3>1 DEF CreateBegin, CancelBegin, DeleteBegin, StatusBegin, ReportBegin,
                  Arrives, storeVars
    <3>3. CASE CreateBegin(h, r)
      BY <3>2, <3>3 DEF CreateBegin, Begin, RequestMoves
    <3>4. CASE CancelBegin(h, r) \/ DeleteBegin(h, r)
      BY <3>2, <3>4 DEF CancelBegin, DeleteBegin, Begin, RequestMoves
    <3>5. CASE \E s \in StatusValues : StatusBegin(h, r, s)
      BY <3>2, <3>5 DEF StatusBegin, Begin, RequestMoves
    <3>6. CASE \E code \in ReportCodes : ReportBegin(h, r, code)
      BY <3>2, <3>6 DEF ReportBegin, Begin, RequestMoves
    <3> QED BY <3>1, <3>3, <3>4, <3>5, <3>6
  <2>6. CASE CreateStartsJob(h)
    BY <2>6 DEF CreateStartsJob, Begin, NewRow, RequestMoves
  <2>7. CASE CancelCommit(h) /\ Goto(h, "signal")
    <3>1. handler[h] \in Request
      BY <2>7, ServedIsRequest DEF CancelCommit, Serves, NoRequest
    <3>2. handler'[h] = [handler[h] EXCEPT !.op = "signal"]
      BY <2>7 DEF Goto
    <3> QED BY <2>7, <3>1, <3>2 DEF Request, RequestMoves, Carried
  <2> QED
    BY <2>2, <2>3, <2>4, <2>5, <2>6, <2>7 DEF RequestStep, RequestLost, CreateRefused,
       CreateCommit, CancelCommit, CancelSignal, DeleteCommit, StatusCommit, ReportCommit
<1> QED BY <1>1, <1>2

-----------------------------------------------------------------------------
(* Launches.                                                               *)

\* finished_at is set together with the status that ends the run, for good.
Finishes(loaded, copy) ==
    /\ loaded.finished => copy.finished
    /\ copy.finished /\ ~loaded.finished
          => copy.status \in TERMINAL_STATUSES \ {loaded.status}

\* What the reconciler makes of a copy: it never takes the Job's name away,
\* and a status it writes is a verdict on a run that was not over.
CopyOK(loaded, copy) ==
    /\ loaded.job /\ copy.job
    /\ loaded.status \notin TERMINAL_STATUSES
    /\ copy.cancel = loaded.cancel
    /\ copy.status # loaded.status => copy.status \in TERMINAL_STATUSES
    /\ Finishes(loaded, copy)

LaunchInv ==
    /\ \A r \in Runs :
          /\ launches[r] <= 1 + lost[r]
          /\ Exists(r) /\ ~rows[r].job /\ ~BeingStarted(r) => launches[r] <= lost[r]
          /\ BeingStarted(r) => launches[r] > 0
          /\ pod[r] # "none" => launches[r] > 0
          /\ created[r] = 0 => launches[r] = 0
    /\ \A h \in Handlers :
          /\ Busy(h) => RowSound(handler[h].loaded)
          /\ Serves(h, "create") => /\ launches[handler[h].run] = 0
                                    /\ handler[h].loaded = NewRow
          /\ Serves(h, "createdJob") => /\ handler[h].loaded.job
                                        /\ ~handler[h].loaded.finished
          /\ Serves(h, "status") => /\ launches[handler[h].run] > 0
                                    /\ handler[h].arg \in StatusValues
    /\ \A c \in Reconcilers, r \in Runs :
          rec[c].loaded[r] # NoRow => CopyOK(rec[c].loaded[r], rec[c].copy[r])

LEMMA LaunchInit == Init => LaunchInv
BY DEF Init, StoreInit, ClusterInit, QueueInit, RequestInit, ReconcilerInit, LaunchInv,
       Exists, BeingStarted, Idle, Serves, Busy, NoRequest, Resting

\* What one step can do to a row.
Edited(r) ==
    /\ Exists(r) /\ rows'[r] \in Row /\ ~Locked(r)
    /\ rows'[r].job = rows[r].job
    /\ rows'[r].cancel \in {rows[r].cancel, "asked", "overdue"}
    /\ Finishes(rows[r], rows'[r])
    /\ \/ rows'[r].status \in {rows[r].status} \union TERMINAL_STATUSES
       \/ launches[r] > 0 /\ \E h \in Handlers : StatusPosted(h, r)

RowMoves(r) ==
    \/ rows'[r] \in {rows[r], NoRow}
    \/ Edited(r)
    \/ \E h \in Handlers : /\ Creating(h) /\ handler[h].run = r
                           /\ CreateCommit(h) /\ rows'[r] = handler[h].loaded
    \/ \E w \in Workers : /\ r \in locks[w] /\ CommitTick(w)
                          /\ rows'[r] = AdmittedRow(w, r)

LEMMA FlushKeeps ==
    ASSUME NEW current \in Row, NEW loaded \in Row, NEW copy \in Row,
           copy.job = loaded.job, copy.cancel \in {loaded.cancel, "asked"}
    PROVE  /\ Flush(current, loaded, copy) \in Row
           /\ Flush(current, loaded, copy).cancel \in {current.cancel, "asked"}
           /\ Flush(current, loaded, copy).job = current.job
           /\ \/ Flush(current, loaded, copy).status = current.status
              \/ /\ Flush(current, loaded, copy).status = copy.status
                 /\ copy.status # loaded.status
<1> DEFINE new == Flush(current, loaded, copy)
<1>1. new \in Row
  BY FlushIsRow
<1>2. /\ new.job = Column(current.job, loaded.job, copy.job)
      /\ new.status = Column(current.status, loaded.status, copy.status)
  BY DEF Flush
<1> HIDE DEF new
<1>3. /\ new.job = current.job
      /\ \/ new.status = current.status
         \/ new.status = copy.status /\ copy.status # loaded.status
  BY <1>2 DEF Column
<1>4. new.cancel \in {current.cancel, "asked"}
  BY DEF new, Flush, Column
<1> QED BY <1>1, <1>3, <1>4 DEF new

LEMMA FlushFinishes ==
    ASSUME NEW current \in Row, NEW loaded \in Row, NEW copy \in Row,
           RowSound(current), Finishes(loaded, copy)
    PROVE  Finishes(current, Flush(current, loaded, copy))
<1> DEFINE new == Flush(current, loaded, copy)
<1>1. /\ new.finished = Column(current.finished, loaded.finished, copy.finished)
      /\ new.status = Column(current.status, loaded.status, copy.status)
  BY DEF Flush
<1> HIDE DEF new
<1>2. Finishes(current, new)
  BY <1>1 DEF Finishes, Column, RowSound, Row
<1> QED BY <1>2 DEF new

LEMMA StatusCopyKeepsJob ==
    ASSUME NEW row \in Row, RowSound(row), NEW s
    PROVE  /\ StatusCopy(row, s).job = row.job /\ StatusCopy(row, s).cancel = row.cancel
           /\ StatusCopy(row, s).status \in {row.status, s}
           /\ Finishes(row, StatusCopy(row, s))
BY DEF StatusCopy, Row, RowSound, Finishes

LEMMA WriteEdits ==
    ASSUME TypeInv, RowInv, NEW h \in Handlers, Busy(h), NEW copy \in Row,
           Finishes(handler[h].loaded, copy), copy.job = handler[h].loaded.job,
           copy.cancel \in {handler[h].loaded.cancel, "asked"},
           copy.status = handler[h].loaded.status \/ copy.status \in TERMINAL_STATUSES,
           CanCommit(h), Write(h, copy), NEW r \in Runs
    PROVE  RowMoves(r)
<1> DEFINE q == handler[h].run
           row == Flush(rows[q], handler[h].loaded, copy)
<1>1. q \in Runs /\ handler[h].loaded \in Row
  BY ServedIsRequest DEF Busy, TypeInv, TypeOK
<1>2. rows' = [rows EXCEPT ![q] = IF Exists(q) THEN row ELSE NoRow]
  BY DEF Write
<1>3. CASE r = q /\ Exists(r)
  <2>1. rows[q] \in Row /\ RowSound(rows[q])
    BY <1>1, <1>3 DEF Exists, TypeInv, TypeOK, StoreTypeOK, RowInv, RowsSound
  <2>2. /\ row \in Row /\ row.job = rows[q].job
        /\ row.cancel \in {rows[q].cancel, "asked"}
        /\ row.status \in {rows[q].status} \union TERMINAL_STATUSES
        /\ Finishes(rows[q], row)
    BY <1>1, <2>1, FlushKeeps, FlushFinishes
  <2>3. rows'[r] = row
    BY <1>1, <1>2, <1>3 DEF TypeInv, TypeOK, StoreTypeOK
  <2> QED BY <1>3, <2>2, <2>3 DEF RowMoves, Edited, CanCommit
<1>4. CASE ~(r = q /\ Exists(r))
  BY <1>1, <1>2, <1>4 DEF RowMoves, Exists, TypeInv, TypeOK, StoreTypeOK
<1> QED BY <1>3, <1>4

LEMMA RowsMove ==
    ASSUME TypeInv, TypeInv', RowInv, LocksInv, LaunchInv, [Next]_vars, NEW r \in Runs
    PROVE  RowMoves(r)
<1> USE DEF TypeInv, TypeOK, StoreTypeOK
<1>1. CASE rows'[r] = rows[r]
  BY <1>1 DEF RowMoves
<1>2. ASSUME NEW w \in Workers, CommitTick(w) PROVE RowMoves(r)
  <2>1. rows'[r] = AdmittedRow(w, r)
    BY <1>2 DEF CommitTick
  <2>2. CASE r \in locks[w]
    BY <1>2, <2>1, <2>2 DEF RowMoves
  <2>3. CASE r \notin locks[w]
    BY <1>1, <2>1, <2>3 DEF AdmittedRow, LocksHeld
  <2> QED BY <2>2, <2>3
<1>3. CASE RequestNext
  <2>1. PICK h \in Handlers : RequestArrives(h) \/ RequestStep(h) \/ RequestLost(h)
    BY <1>3 DEF RequestNext
  <2>2. CASE CreateCommit(h)
    <3>1. Creating(h) /\ handler[h] # NoRequest
      BY <2>2 DEF CreateCommit, Serves, Creating, NoRequest
    <3>2. handler[h].run \in Runs
      BY <3>1, ServedIsRequest
    <3> QED BY <2>2, <3>1, <3>2 DEF CreateCommit, RowMoves
  <2>3. CASE CancelCommit(h)
    <3>1. Busy(h) /\ handler[h].loaded \in Row /\ RowSound(handler[h].loaded)
      BY <2>3, ServedIsRequest DEF CancelCommit, Serves, Busy, NoRequest, LaunchInv
    <3>2. LET copy == CancelledCopy(handler[h].loaded) IN
          /\ copy \in Row /\ copy.job = handler[h].loaded.job
          /\ copy.cancel = "asked"
          /\ copy.status \in {handler[h].loaded.status} \union TERMINAL_STATUSES
          /\ Finishes(handler[h].loaded, copy)
      BY <3>1, RequestCopiesAreRows
         DEF CancelledCopy, Row, RowSound, Finishes, TERMINAL_STATUSES
    <3> QED BY <2>3, <3>1, <3>2, WriteEdits DEF CancelCommit
  <2>4. CASE ReportCommit(h)
    <3>1. Busy(h) /\ handler[h].loaded \in Row /\ handler[h].arg \in ReportCodes
      BY <2>4, ServedIsRequest DEF ReportCommit, Serves, Busy, NoRequest, ReportArgs
    <3>2. LET copy == ReportCopy(handler[h].loaded, handler[h].arg) IN
          /\ copy \in Row /\ copy.job = handler[h].loaded.job
          /\ copy.cancel = handler[h].loaded.cancel
          /\ copy.status = handler[h].loaded.status
          /\ Finishes(handler[h].loaded, copy)
      BY <3>1, RequestCopiesAreRows DEF ReportCopy, Row, Finishes
    <3> QED BY <2>4, <3>1, <3>2, WriteEdits DEF ReportCommit
  <2>5. CASE DeleteCommit(h)
    BY <2>5 DEF DeleteCommit, RowMoves
  <2>6. CASE StatusCommit(h)
    <3> DEFINE q == handler[h].run
               copy == StatusCopy(handler[h].loaded, handler[h].arg)
               flushed == Flush(rows[q], handler[h].loaded, copy)
    <3>1. Serves(h, "status") /\ Busy(h) /\ CanCommit(h)
      BY <2>6 DEF StatusCommit, Serves, Busy, NoRequest
    <3>2. q \in Runs /\ handler[h].loaded \in Row /\ RowSound(handler[h].loaded)
      BY <3>1, ServedIsRequest DEF Busy, LaunchInv
    <3>3. /\ copy \in Row /\ copy.job = handler[h].loaded.job
          /\ copy.cancel = handler[h].loaded.cancel
          /\ copy.status \in {handler[h].loaded.status, handler[h].arg}
          /\ Finishes(handler[h].loaded, copy)
      BY <3>2, RequestCopiesAreRows, StatusCopyKeepsJob
    <3>4. rows' = [rows EXCEPT ![q] =
                     IF Exists(q) THEN [flushed EXCEPT !.fresh = TRUE] ELSE NoRow]
      BY <2>6 DEF StatusCommit
    <3> HIDE DEF copy
    <3>5. CASE r = q /\ Exists(r)
      <4> HIDE DEF q
      <4>6. rows[q] \in Row /\ RowSound(rows[q])
        BY <3>2, <3>5 DEF Exists, RowInv, RowsSound
      <4>1. /\ flushed \in Row /\ flushed.job = rows[q].job
            /\ flushed.cancel \in {rows[q].cancel, "asked"}
            /\ \/ flushed.status = rows[q].status
               \/ /\ flushed.status = handler[h].arg
                  /\ handler[h].arg # handler[h].loaded.status
            /\ Finishes(rows[q], flushed)
        BY <3>2, <3>3, <4>6, FlushKeeps, FlushFinishes
      <4>2. rows'[r] = [flushed EXCEPT !.fresh = TRUE]
        BY <3>2, <3>4, <3>5
      <4> HIDE DEF flushed
      <4>3. /\ rows'[r] \in Row /\ rows'[r].job = rows[r].job
            /\ rows'[r].cancel \in {rows[r].cancel, "asked"}
            /\ \/ rows'[r].status = rows[r].status
               \/ /\ rows'[r].status = handler[h].arg
                  /\ handler[h].arg # handler[h].loaded.status
            /\ Finishes(rows[r], rows'[r])
        BY <3>5, <4>1, <4>2 DEF Row, Finishes
      <4>4. /\ launches[r] > 0 /\ ~Locked(r) /\ handler[h].arg \in StatusValues
            /\ handler'[h] = NoRequest
        BY <2>6, <3>1, <3>5 DEF LaunchInv, CanCommit, StatusCommit, Done, RequestTypeOK, q
      <4>5. \/ rows'[r].status = rows[r].status
            \/ StatusPosted(h, r)
        BY <3>1, <3>5, <4>3, <4>4 DEF StatusPosted, q
      <4> QED BY <3>5, <4>3, <4>4, <4>5 DEF RowMoves, Edited
    <3>6. CASE ~(r = q /\ Exists(r))
      BY <3>2, <3>4, <3>6 DEF RowMoves, Exists
    <3> QED BY <3>5, <3>6
  <2>7. CASE UNCHANGED rows
    BY <1>1, <2>7
  <2> QED
    BY <2>1, <2>2, <2>3, <2>4, <2>5, <2>6, <2>7 DEF RequestArrives, CreateBegin,
       CancelBegin, DeleteBegin, StatusBegin, ReportBegin, RequestStep, CreateStartsJob,
       CreateRefused, CancelSignal, RequestLost, storeVars
<1>4. CASE ReconcilerNext
  <2>1. PICK c \in Reconcilers : ReconcilerStep(c) \/ ReconcileAbort(c)
    BY <1>4 DEF ReconcilerNext
  <2>2. CASE ReconcileCommit(c) /\ rows'[r] # rows[r]
    <3> DEFINE loaded == rec[c].loaded[r]
               copy   == rec[c].copy[r]
    <3>1. /\ r \in Changed(c) /\ Exists(r) /\ ~Locked(r)
          /\ rows'[r] = Flush(rows[r], loaded, copy)
      BY <2>2 DEF ReconcileCommit
    <3>2. /\ loaded \in Row /\ copy \in Row /\ rows[r] \in Row
          /\ loaded # NoRow /\ RowSound(rows[r])
      BY <3>1, RowAssumption DEF Changed, CopiesLoaded, ReconcilerTypeOK, ReconcilerState,
                                 Exists, RowInv, RowsSound
    <3>3. /\ copy.job = loaded.job /\ copy.cancel = loaded.cancel
          /\ copy.status = loaded.status \/ copy.status \in TERMINAL_STATUSES
          /\ Finishes(loaded, copy)
      BY <3>2 DEF LaunchInv, CopyOK, Row
    <3> HIDE DEF loaded, copy
    <3>4. /\ rows'[r] \in Row /\ rows'[r].job = rows[r].job
          /\ rows'[r].cancel \in {rows[r].cancel, "asked"}
          /\ \/ rows'[r].status = rows[r].status
             \/ rows'[r].status = copy.status /\ copy.status # loaded.status
      BY <3>1, <3>2, <3>3, FlushKeeps
    <3>5. Finishes(rows[r], rows'[r])
      BY <3>1, <3>2, <3>3, FlushFinishes
    <3>6. /\ rows'[r] \in Row /\ rows'[r].job = rows[r].job
          /\ rows'[r].cancel \in {rows[r].cancel, "asked"}
          /\ rows'[r].status \in {rows[r].status} \union TERMINAL_STATUSES
          /\ Finishes(rows[r], rows'[r])
      BY <3>3, <3>4, <3>5
    <3> QED BY <3>1, <3>6 DEF RowMoves, Edited
  <2>3. CASE ~ReconcileCommit(c)
    BY <1>1, <2>1, <2>3 DEF ReconcilerStep, ReconcileSelect, Examine, ReSignal, DeleteJob,
       ReconcileAbort, storeVars
  <2> QED BY <1>1, <2>2, <2>3
<1>5. CASE Environment
  <2>1. PICK q \in Runs : PodStarts(q) \/ PodEnds(q) \/ JobExpires(q) \/ TimePasses(q)
    BY <1>5 DEF Environment
  <2>2. CASE TimePasses(q) /\ rows'[r] # rows[r]
    <3>1. /\ r = q /\ HoldsSlot(r) /\ rows[r] \in Row
          /\ \/ rows'[r] = [rows[r] EXCEPT !.fresh = FALSE]
             \/ rows'[r] = [rows[r] EXCEPT !.cancel = "overdue"]
      BY <2>2 DEF TimePasses, StatusGoesStale, GraceElapses, HoldsSlot, Exists
    <3>2. ~Locked(r)
      BY <3>1 DEF HoldsSlot, Locked, LocksInv, Waiting
    <3>3. /\ rows'[r] \in Row /\ rows'[r].job = rows[r].job
          /\ rows'[r].cancel \in {rows[r].cancel, "overdue"}
          /\ rows'[r].status = rows[r].status
          /\ Finishes(rows[r], rows'[r])
      BY <3>1 DEF Row, Finishes
    <3> QED BY <3>1, <3>2, <3>3 DEF RowMoves, Edited, HoldsSlot
  <2>3. CASE ~TimePasses(q)
    BY <1>1, <2>1, <2>3 DEF PodStarts, PodEnds, JobExpires, storeVars
  <2> QED BY <1>1, <2>2, <2>3
<1>6. CASE QueueNext
  BY <1>1, <1>2, <1>6 DEF QueueNext, WorkerStep, CountSlots, SelectQueued, SelectNothing,
     AdmitStarts, AdmitRefused, ProfileMissing, AbortTick, storeVars
<1> QED BY <1>1, <1>3, <1>4, <1>5, <1>6 DEF Next, vars, storeVars

\* A worker launches a waiting run that nobody has started.
LEMMA AdmittedIsWaiting ==
    ASSUME TypeInv, LocksInv, NEW w \in Workers, NEW r \in Runs, AdmitStarts(w, r)
    PROVE  r \in Waiting /\ ~BeingStarted(r) /\ CreateRunJob(r) /\ BeingStarted(r)'
<1>1. r \in worker[w].todo /\ CreateRunJob(r)
  BY DEF AdmitStarts, IsNext
<1>2. r \in locks[w] /\ r \notin worker[w].started
  BY <1>1 DEF TypeInv, LocksHeld, LocksInv, Sorted
<1>3. \A v \in Workers : worker[v].started \subseteq locks[v]
  BY DEF TypeInv, LocksHeld
<1>4. worker[w] \in WorkerState
  BY DEF TypeInv, TypeOK, QueueTypeOK
<1>5. worker'[w].started = worker[w].started \union {r}
  BY <1>4 DEF AdmitStarts, WorkerState, TypeInv, TypeOK, QueueTypeOK
<1> QED BY <1>1, <1>2, <1>3, <1>5 DEF LocksInv, BeingStarted

\* A launch is one launch, of a run that has an id.
LEMMA LaunchCounts ==
    ASSUME TypeInv, RowInv, LocksInv, NEW r \in Runs, Launches(r)
    PROVE  launches'[r] = launches[r] + 1 /\ created[r] # 0
<1>1. CASE \E w \in Workers : AdmitStarts(w, r)
  BY <1>1, AdmittedIsWaiting
     DEF CreateRunJob, Waiting, RowInv, IdsUsedOnce, TypeInv, TypeOK, ClusterTypeOK
<1>2. ASSUME NEW h \in Handlers, CreateStartsJob(h), handler[h].run = r
      PROVE  launches'[r] = launches[r] + 1 /\ created[r] # 0
  BY <1>2 DEF CreateStartsJob, CreateRunJob, Serves, Creating, RowInv, IdsUsedOnce,
              TypeInv, TypeOK, ClusterTypeOK
<1> QED BY <1>1, <1>2 DEF Launches

\* An id stays drawn.
LEMMA IdsStayDrawn ==
    ASSUME TypeInv, [Next]_vars, NEW r \in Runs, created'[r] = 0
    PROVE  created[r] = 0
<1>1. CASE UNCHANGED created
  BY <1>1
<1>2. CASE RequestNext
  <2>1. PICK h \in Handlers : RequestArrives(h) \/ RequestStep(h) \/ RequestLost(h)
    BY <1>2 DEF RequestNext
  <2>2. ASSUME NEW q \in Runs, CreateBegin(h, q) PROVE created[r] = 0
    BY <2>2 DEF CreateBegin, TypeInv, TypeOK, StoreTypeOK
  <2> QED
    BY <1>1, <2>1, <2>2 DEF RequestArrives, CancelBegin, DeleteBegin, StatusBegin,
       ReportBegin, RequestStep, CreateStartsJob, CreateRefused, CreateCommit,
       CancelCommit, CancelSignal, DeleteCommit, StatusCommit, ReportCommit,
       RequestLost, storeVars
<1>3. CASE QueueNext
  BY <1>1, <1>3 DEF QueueNext, WorkerStep, CountSlots, SelectQueued, SelectNothing,
     CommitTick, AbortTick, AdmitStarts, AdmitRefused, ProfileMissing, storeVars
<1>4. CASE ReconcilerNext
  <2>1. PICK c \in Reconcilers : ReconcilerStep(c) \/ ReconcileAbort(c)
    BY <1>4 DEF ReconcilerNext
  <2> QED BY <1>1, <2>1 DEF ReconcilerStep, ReconcileSelect, Examine, ReSignal, DeleteJob,
             ReconcileCommit, ReconcileAbort, storeVars
<1>5. CASE Environment
  BY <1>1, <1>5 DEF Environment, PodStarts, PodEnds, JobExpires, TimePasses,
     StatusGoesStale, GraceElapses, storeVars
<1> QED BY <1>1, <1>2, <1>3, <1>4, <1>5 DEF Next, vars, storeVars

\* A copy of the reconciler is loaded from a row, decided upon, or dropped.
LEMMA VerdictKeepsJob ==
    ASSUME NEW row \in Row, row.job, row.status \notin TERMINAL_STATUSES
    PROVE  /\ \A phase : CopyOK(row, Verdict(row, phase))
           /\ CopyOK(row, HardStop(row))
BY DEF Row, CopyOK, Finishes, Verdict, HardStop, TERMINAL_STATUSES

CopyMoves(c, r) ==
    \/ /\ rec'[c].loaded[r] = rec[c].loaded[r]
       /\ \/ rec'[c].copy[r] = rec[c].copy[r]
          \/ /\ rec[c].loaded[r] # NoRow /\ job[r] # "active" /\ UNCHANGED clusterVars
             /\ \E phase : rec'[c].copy[r] = Verdict(rec[c].loaded[r], phase)
          \/ /\ rec[c].loaded[r] # NoRow
             /\ job'[r] # "active" \/ faults' = faults + 1
             /\ rec'[c].copy[r] = HardStop(rec[c].loaded[r])
    \/ /\ HoldsSlot(r) /\ UNCHANGED <<rows, clusterVars>>
       /\ rec'[c].loaded[r] = rows[r] /\ rec'[c].copy[r] = rows[r]
    \/ rec'[c].loaded[r] = NoRow

LEMMA CopiesMove ==
    ASSUME TypeInv, [Next]_vars, NEW c \in Reconcilers, NEW r \in Runs
    PROVE  CopyMoves(c, r)
<1> USE DEF TypeInv, TypeOK, ReconcilerTypeOK
<1>1. CASE rec'[c] = rec[c]
  BY <1>1 DEF CopyMoves
<1>2. CASE rec'[c] # rec[c]
  <2>1. ReconcilerNext
    BY <1>2 DEF Next, OfWorkers, OfHandlers, OfEnvironment, vars
  <2>2. PICK d \in Reconcilers : ReconcilerStep(d) \/ ReconcileAbort(d)
    BY <2>1 DEF ReconcilerNext
  <2>3. rec[d] \in ReconcilerState
    OBVIOUS
  <2>4. CASE ReconcileSelect(d)
    <3>1. CASE c = d
      BY <2>4, <3>1 DEF ReconcileSelect, CopyMoves, Active, storeVars
    <3>2. CASE c # d
      BY <1>2, <2>4, <3>2 DEF ReconcileSelect
    <3> QED BY <3>1, <3>2
  <2>5. ASSUME NEW q \in Runs, Examine(d, q) PROVE CopyMoves(c, r)
    <3> DEFINE phase == GetJobPhase(q)
               copy == IF phase = "active" THEN rec[d].copy[q]
                                           ELSE Verdict(rec[d].loaded[q], phase)
    <3>1. /\ rec'[d].loaded = rec[d].loaded
          /\ rec'[d].copy = [rec[d].copy EXCEPT ![q] = copy]
          /\ \A e \in Reconcilers \ {d} : rec'[e] = rec[e]
      <4>1. rec' = [rec EXCEPT ![d] = [rec[d] EXCEPT
                       !.todo = @ \ {q},
                       !.at = IF phase = "active" THEN q ELSE NoRow,
                       !.pc = AfterExamine(rec[d].loaded[q], phase),
                       !.copy[q] = copy]]
        BY <2>5, ExamineUpdates
      <4> HIDE DEF copy, phase
      <4> QED BY <2>3, <4>1 DEF ReconcilerState
    <3>2. c = d
      BY <1>2, <3>1
    <3>3. UNCHANGED clusterVars /\ rec[d].loaded[q] # NoRow
      BY <2>5 DEF Examine, CopiesLoaded
    <3>4. phase # "active" => job[q] # "active"
      BY DEF GetJobPhase
    <3>5. CASE r = q /\ phase # "active"
      <4>1. rec'[c].copy[r] = Verdict(rec[c].loaded[r], phase)
        BY <2>3, <3>1, <3>2, <3>5 DEF ReconcilerState
      <4> HIDE DEF phase
      <4> QED BY <3>1, <3>2, <3>3, <3>4, <3>5, <4>1 DEF CopyMoves
    <3>6. CASE ~(r = q /\ phase # "active")
      <4>1. rec'[c].copy[r] = rec[c].copy[r]
        BY <2>3, <3>1, <3>2, <3>6 DEF ReconcilerState
      <4> QED BY <3>1, <3>2, <4>1 DEF CopyMoves
    <3> QED BY <3>5, <3>6
  <2>6. CASE ReSignal(d)
    BY <2>3, <2>6 DEF ReSignal, CopyMoves, ReconcilerState
  <2>7. CASE DeleteJob(d)
    <3> DEFINE q    == rec[d].at
               copy == HardStop(rec[d].loaded[q])
    <3>1. q \in Runs /\ rec[d].loaded[q] # NoRow
      BY <2>7 DEF DeleteJob, CopiesLoaded
    <3>2. /\ rec'[d].loaded = rec[d].loaded
          /\ rec'[d].copy = [rec[d].copy EXCEPT ![q] = copy]
          /\ \A e \in Reconcilers \ {d} : rec'[e] = rec[e]
      BY <2>3, <2>7, <3>1 DEF DeleteJob, ReconcilerState
    <3>3. c = d
      BY <1>2, <3>2
    <3>4. job'[q] # "active" \/ faults' = faults + 1
      BY <2>7, <3>1 DEF DeleteJob, DeleteRunJob, Fault, ClusterTypeOK
    <3> HIDE DEF copy
    <3>5. CASE r = q
      BY <2>3, <3>1, <3>2, <3>3, <3>4, <3>5 DEF CopyMoves, ReconcilerState, copy
    <3>6. CASE r # q
      BY <2>3, <3>1, <3>2, <3>3, <3>6 DEF CopyMoves, ReconcilerState
    <3> QED BY <3>5, <3>6
  <2>8. CASE ReconcileCommit(d) \/ ReconcileAbort(d)
    <3>1. rec' = [rec EXCEPT ![d] = Resting]
      BY <2>8 DEF ReconcileCommit, ReconcileAbort
    <3> QED BY <1>2, <3>1 DEF Resting, CopyMoves
  <2> QED BY <2>2, <2>4, <2>5, <2>6, <2>7, <2>8 DEF ReconcilerStep
<1> QED BY <1>1, <1>2

LEMMA LaunchStep ==
    ASSUME TypeInv, TypeInv', RowInv, LocksInv, LaunchInv, [Next]_vars
    PROVE  LaunchInv'
<1> USE DEF TypeInv, TypeOK
<1>1. /\ launches \in [Runs -> Nat] /\ launches' \in [Runs -> Nat]
      /\ lost \in [Runs -> Nat] /\ lost' \in [Runs -> Nat]
  BY DEF ClusterTypeOK, QueueTypeOK
<1>2. ASSUME NEW r \in Runs
      PROVE  /\ Unlaunched(r) \/ Launches(r)
             /\ launches'[r] >= launches[r] /\ lost'[r] >= lost[r]
             /\ Launches(r) => launches'[r] > 0
  BY <1>1, ClusterMoves, LaunchCounts, TicksMove DEF Unlaunched, TickMoves
<1>3. ASSUME NEW r \in Runs
      PROVE  launches'[r] <= 1 + lost'[r]
  <2>1. CASE Unlaunched(r)
    BY <1>1, <1>2, <2>1 DEF LaunchInv, Unlaunched
  <2>2. ASSUME NEW w \in Workers, AdmitStarts(w, r) PROVE launches'[r] <= 1 + lost'[r]
    <3>1. launches[r] <= lost[r]
      BY <2>2, AdmittedIsWaiting DEF Waiting, LaunchInv
    <3> QED BY <1>1, <1>2, <2>2, <3>1, LaunchCounts DEF Launches
  <2>3. ASSUME NEW h \in Handlers, CreateStartsJob(h), handler[h].run = r
        PROVE  launches'[r] <= 1 + lost'[r]
    <3>1. launches[r] = 0
      BY <2>3 DEF CreateStartsJob, LaunchInv
    <3> QED BY <1>1, <1>2, <2>3, <3>1, LaunchCounts DEF Launches
  <2> QED BY <1>2, <2>1, <2>2, <2>3 DEF Launches
<1>4. ASSUME NEW r \in Runs, Exists(r)', ~rows'[r].job, ~BeingStarted(r)'
      PROVE  launches'[r] <= lost'[r]
  <2>1. Unlaunched(r)
    <3>1. ASSUME NEW h \in Handlers, CreateStartsJob(h), handler[h].run = r PROVE FALSE
      BY <1>4, <3>1 DEF CreateStartsJob, Serves, Creating, RowInv, IdsUsedOnce, Exists,
                        storeVars
    <3> QED BY <1>2, <1>4, <3>1, AdmittedIsWaiting DEF Launches
  <2>2. CASE BeingStarted(r)
    <3>1. lost'[r] = lost[r] + 1
      BY <1>4, <2>2, TicksMove DEF TickMoves
    <3> QED BY <1>1, <2>1, <3>1 DEF Unlaunched, LaunchInv
  <2>3. CASE ~BeingStarted(r)
    <3> SUFFICES launches[r] <= lost[r]
      BY <1>1, <1>2, <2>1 DEF Unlaunched
    <3>1. CASE Exists(r) /\ ~rows[r].job
      BY <2>3, <3>1 DEF LaunchInv
    <3>2. ASSUME NEW h \in Handlers, Creating(h), handler[h].run = r,
                 CreateCommit(h), rows'[r] = handler[h].loaded
          PROVE  launches[r] <= lost[r]
      BY <1>1, <1>4, <3>2 DEF CreateCommit, LaunchInv
    <3>3. CASE \E w \in Workers : r \in locks[w]
      BY <2>3, <3>3 DEF LocksInv, Waiting, LaunchInv
    <3> QED BY <1>4, <3>1, <3>2, <3>3, RowsMove DEF RowMoves, Edited, Exists
  <2> QED BY <2>2, <2>3
<1>5. ASSUME NEW r \in Runs
      PROVE  /\ BeingStarted(r)' => launches'[r] > 0
             /\ pod'[r] # "none" => launches'[r] > 0
             /\ created'[r] = 0 => launches'[r] = 0
  <2>1. BeingStarted(r)' => launches'[r] > 0
    BY <1>1, <1>2, TicksMove DEF TickMoves, Launches, LaunchInv
  <2>2. pod'[r] # "none" => launches'[r] > 0
    BY <1>1, <1>2 DEF Unlaunched, LaunchInv
  <2>3. created'[r] = 0 => launches'[r] = 0
    BY <1>2, IdsStayDrawn, LaunchCounts DEF Unlaunched, LaunchInv
  <2> QED BY <2>1, <2>2, <2>3
<1>6. ASSUME NEW h \in Handlers
      PROVE  /\ Serves(h, "create")' => /\ launches'[handler'[h].run] = 0
                                        /\ handler'[h].loaded = NewRow
             /\ Serves(h, "createdJob")' =>
                   handler'[h].loaded.job /\ ~handler'[h].loaded.finished
             /\ Serves(h, "status")' => /\ launches'[handler'[h].run] > 0
                                        /\ handler'[h].arg \in StatusValues
  <2>1. RequestMoves(h)
    BY RequestsMove
  <2>2. CASE handler'[h] = NoRequest
    BY <2>2 DEF NoRequest, Serves
  <2>3. CASE handler'[h] = handler[h] /\ handler[h] # NoRequest
    <3>1. handler[h].run \in Runs
      BY <2>3, ServedIsRequest
    <3>2. Serves(h, "status")' => /\ launches'[handler'[h].run] > 0
                                  /\ handler'[h].arg \in StatusValues
      BY <1>1, <1>2, <2>3, <3>1 DEF Serves, LaunchInv
    <3>3. ASSUME Serves(h, "create")
          PROVE  launches'[handler[h].run] = 0
      <4>1. ~Exists(handler[h].run) /\ launches[handler[h].run] = 0
        BY <3>3 DEF Serves, Creating, RowInv, IdsUsedOnce, LaunchInv
      <4>2. ~(\E w \in Workers : AdmitStarts(w, handler[h].run))
        BY <3>1, <4>1, AdmittedIsWaiting DEF Waiting
      <4>3. ASSUME NEW g \in Handlers, CreateStartsJob(g), handler[g].run = handler[h].run
            PROVE  FALSE
        <5>1. g = h
          BY <2>3, <3>3, <4>3 DEF CreateStartsJob, Serves, Creating, Busy, NoRequest, RowInv,
                                  IdsUsedOnce
        <5>2. handler'[h].op = "createdJob"
          BY <4>3, <5>1 DEF CreateStartsJob, Begin, RequestTypeOK
        <5> QED BY <2>3, <3>3, <5>2 DEF Serves
      <4> QED BY <1>2, <3>1, <4>1, <4>2, <4>3 DEF Launches, Unlaunched
    <3> QED BY <2>3, <3>2, <3>3 DEF Serves, LaunchInv
  <2>4. CASE handler'[h].op \in {"createdJob", "signal"} /\ handler'[h] # handler[h]
    BY <2>1, <2>4 DEF RequestMoves, Serves, NoRequest
  <2>5. ASSUME NEW r \in Runs,
               handler'[h].run = r, UNCHANGED <<rows, clusterVars>>,
               \/ /\ created[r] = 0 /\ handler'[h].op = "create"
                  /\ handler'[h].loaded = NewRow
               \/ /\ Exists(r) /\ handler'[h].op \in {"cancel", "delete", "status", "report"}
                  /\ handler'[h].op = "status" =>
                        PodPosts(r) /\ handler'[h].arg \in StatusValues
        PROVE  /\ Serves(h, "create")' => /\ launches'[handler'[h].run] = 0
                                          /\ handler'[h].loaded = NewRow
               /\ Serves(h, "createdJob")' =>
                   handler'[h].loaded.job /\ ~handler'[h].loaded.finished
               /\ Serves(h, "status")' => /\ launches'[handler'[h].run] > 0
                                        /\ handler'[h].arg \in StatusValues
    BY <2>5 DEF Serves, LaunchInv, PodPosts, clusterVars
  <2> QED BY <2>1, <2>2, <2>3, <2>4, <2>5 DEF RequestMoves
<1>7. ASSUME NEW c \in Reconcilers, NEW r \in Runs, rec'[c].loaded[r] # NoRow
      PROVE  CopyOK(rec'[c].loaded[r], rec'[c].copy[r])
  <2>1. CopyMoves(c, r)
    BY CopiesMove
  <2>2. rec[c].loaded[r] # NoRow => rec[c].loaded[r] \in Row
    BY DEF ReconcilerTypeOK, ReconcilerState
  <2>3. HoldsSlot(r) => CopyOK(rows[r], rows[r])
    BY DEF HoldsSlot, CopyOK, Finishes
  <2>4. rec[c].loaded[r] # NoRow =>
           /\ CopyOK(rec[c].loaded[r], rec[c].copy[r])
           /\ \A phase : CopyOK(rec[c].loaded[r], Verdict(rec[c].loaded[r], phase))
           /\ CopyOK(rec[c].loaded[r], HardStop(rec[c].loaded[r]))
    BY <2>2, VerdictKeepsJob DEF LaunchInv, CopyOK
  <2> QED BY <1>7, <2>1, <2>3, <2>4 DEF CopyMoves
<1>8. ASSUME NEW h \in Handlers, Busy(h)' PROVE RowSound(handler'[h].loaded)
  <2>1. RequestMoves(h)
    BY RequestsMove
  <2>2. Creating(h)' => RowSound(handler'[h].loaded)
    BY RowStep DEF RowInv, IdsUsedOnce
  <2>3. \A r \in Runs : Exists(r) => RowSound(rows[r])
    BY DEF RowInv, RowsSound
  <2>4. CASE handler'[h] = handler[h] \/ (CancelCommit(h) /\ Carried(h))
    BY <1>8, <2>4 DEF LaunchInv, Busy, Carried, CancelCommit, Serves, NoRequest
  <2> QED BY <1>8, <2>1, <2>2, <2>3, <2>4 DEF RequestMoves, Busy, Creating
<1> QED BY <1>3, <1>4, <1>5, <1>6, <1>7, <1>8 DEF LaunchInv

LaunchIInv == TypeInv /\ RowInv /\ LocksInv /\ LaunchInv

LEMMA LaunchInvariant == Spec => []LaunchIInv
<1>1. Init => LaunchIInv
  BY TypeInit, RowInit, LocksInit, LaunchInit DEF LaunchIInv
<1>2. LaunchIInv /\ [Next]_vars => LaunchIInv'
  BY TypeStep, RowStep, LocksStep, LaunchStep DEF LaunchIInv
<1> QED BY <1>1, <1>2, PTL DEF Spec

\* No number of workers and ticks launches a run twice: every launch but one
\* was lost with its tick.
THEOREM RunsAreLaunchedOnce == Spec => []OneLaunchPerCommit
<1>1. LaunchIInv => OneLaunchPerCommit
  BY DEF LaunchIInv, LaunchInv, OneLaunchPerCommit
<1> QED BY <1>1, LaunchInvariant, PTL

\* Only a row that a worker has launched and locked is given a Job.
LEMMA NamesComeFromQueue ==
    ASSUME TypeInv, TypeInv', RowInv, LocksInv, LaunchInv, [Next]_vars,
           NEW r \in Runs, Exists(r), Exists(r)', ~rows[r].job, rows'[r].job
    PROVE  /\ rows[r].status = "QUEUED" /\ rows'[r].status = "NOT_STARTED"
           /\ BeingStarted(r)
<1> USE DEF TypeInv, TypeOK, StoreTypeOK
<1>1. rows[r] \in Row
  BY DEF Exists
<1>2. ~ \E h \in Handlers : Creating(h) /\ handler[h].run = r
  BY DEF RowInv, IdsUsedOnce
<1>3. PICK w \in Workers : r \in locks[w] /\ rows'[r] = AdmittedRow(w, r)
  BY <1>2, RowsMove DEF RowMoves, Edited, Exists
<1>4. r \in worker[w].started
  BY <1>1, <1>3 DEF AdmittedRow, Row
<1>5. rows'[r] = [rows[r] EXCEPT !.job = TRUE, !.status = "NOT_STARTED", !.fresh = TRUE]
  BY <1>3, <1>4 DEF AdmittedRow, LocksInv, Sorted
<1>6. r \in Waiting
  BY <1>3 DEF LocksInv
<1> QED BY <1>1, <1>4, <1>5, <1>6 DEF Row, Waiting, BeingStarted

\* "Admission only moves QUEUED to NOT_STARTED when a Job is created": no
\* cancel and no late status that came since the selection is written over.
THEOREM AdmissionIsFromQueue == Spec => AdmissionOnlyFromQueue
<1> DEFINE FromQueue ==
       \A r \in Runs :
          /\ Exists(r) /\ Exists(r)'
          /\ ~rows[r].job /\ rows'[r].job
          => /\ rows[r].status = "QUEUED"
             /\ rows'[r].status = "NOT_STARTED"
             /\ launches[r] > 0
<1>1. LaunchIInv /\ LaunchIInv' /\ [Next]_vars => [FromQueue]_vars
  BY NamesComeFromQueue DEF LaunchIInv, LaunchInv
<1> QED BY <1>1, LaunchInvariant, PTL DEF Spec, AdmissionOnlyFromQueue

\* A run past the queue without a Job's name was launched by a lost tick:
\* there is no other pod to post a status for it.
LEMMA UnsupervisedStep ==
    ASSUME TypeInv, TypeInv', RowInv, LocksInv, LaunchInv, UnsupervisedOnlyAfterLoss,
           [Next]_vars
    PROVE  UnsupervisedOnlyAfterLoss'
<1> USE DEF TypeInv, TypeOK, StoreTypeOK
<1> DEFINE Adrift(row) == row.status \in {"NOT_STARTED", "IN_PROGRESS"} /\ ~row.job
<1> SUFFICES ASSUME NEW r \in Runs, Exists(r)', Adrift(rows'[r])
             PROVE  lost'[r] > 0
  BY DEF UnsupervisedOnlyAfterLoss
<1>1. lost[r] \in Nat /\ lost'[r] \in Nat /\ launches[r] \in Nat /\ lost'[r] >= lost[r]
  BY TicksMove DEF QueueTypeOK, ClusterTypeOK, TickMoves
<1>2. CASE Exists(r) /\ Adrift(rows[r])
  BY <1>1, <1>2 DEF UnsupervisedOnlyAfterLoss
<1>3. CASE Edited(r) /\ ~Adrift(rows[r])
  <2>1. Exists(r) /\ ~rows[r].job /\ ~Locked(r) /\ launches[r] > 0
    BY <1>3 DEF Edited, TERMINAL_STATUSES
  <2>2. ~BeingStarted(r)
    BY <2>1 DEF BeingStarted, Locked, LocksHeld
  <2> QED BY <1>1, <2>1, <2>2 DEF LaunchInv
<1>4. ASSUME NEW h \in Handlers, Creating(h), CreateCommit(h), rows'[r] = handler[h].loaded
      PROVE  FALSE
  BY <1>4 DEF CreateCommit, LaunchInv, NewRow
<1>5. ASSUME NEW w \in Workers, r \in locks[w], rows'[r] = AdmittedRow(w, r)
      PROVE  FALSE
  <2>1. r \in Waiting /\ rows[r] \in Row
    BY <1>5 DEF LocksInv, Waiting, Exists
  <2> QED BY <1>5, <2>1 DEF AdmittedRow, Waiting, Row, LocksInv, Sorted
<1>6. RowMoves(r)
  BY RowsMove
<1>7. CASE rows'[r] = rows[r]
  BY <1>2, <1>7 DEF Exists
<1>8. Edited(r) => lost'[r] > 0
  BY <1>2, <1>3 DEF Edited
<1> HIDE DEF Adrift
<1> QED BY <1>4, <1>5, <1>6, <1>7, <1>8 DEF RowMoves, Exists

\* A started run is supervised: the one way to a run past the queue that has
\* no Job's name is the loss of a worker's commit.
THEOREM StartedRunsAreSupervised == Spec => []UnsupervisedOnlyAfterLoss
<1>1. Init => UnsupervisedOnlyAfterLoss
  BY DEF Init, StoreInit, UnsupervisedOnlyAfterLoss, Exists
<1>2. LaunchIInv /\ LaunchIInv' /\ UnsupervisedOnlyAfterLoss /\ [Next]_vars
         => UnsupervisedOnlyAfterLoss'
  BY UnsupervisedStep DEF LaunchIInv
<1> QED BY <1>1, <1>2, LaunchInvariant, PTL DEF Spec
=============================================================================
