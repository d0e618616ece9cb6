-------------------------- MODULE SupervisionProofs --------------------------
(***************************************************************************)
(* What signals and verdicts rest on.  Both are given long after the row   *)
(* was read; they are right all the same because a requested cancel is     *)
(* never taken back, and because a run that has its Job's name is never    *)
(* launched again: a Job that was seen dead stays dead.  And what the end  *)
(* of a run rests on: only a posted status can undo it.                    *)
(***************************************************************************)
EXTENDS AdmissionProofs

-----------------------------------------------------------------------------
(* Columns that go one way.                                                *)

LEMMA CancelAndNameStay ==
    ASSUME TypeInv, TypeInv', RowInv, LocksInv, LaunchInv, [Next]_vars,
           NEW r \in Runs, Exists(r), Exists(r)'
    PROVE  /\ rows[r].cancel # "no" => rows'[r].cancel # "no"
           /\ rows[r].job => rows'[r].job
<1> USE DEF TypeInv, TypeOK, StoreTypeOK
<1>1. rows[r] \in Row /\ RowMoves(r)
  BY RowsMove DEF Exists
<1>2. ~ \E h \in Handlers : Creating(h) /\ handler[h].run = r
  BY DEF RowInv, IdsUsedOnce
<1>3. ASSUME NEW w \in Workers, r \in locks[w], rows'[r] = AdmittedRow(w, r)
      PROVE  rows'[r].cancel = rows[r].cancel /\ ~rows[r].job
  <2>1. AdmittedRow(w, r).cancel = rows[r].cancel
    BY <1>1 DEF AdmittedRow, Row
  <2> QED BY <1>3, <2>1 DEF LocksInv, Waiting
<1>4. CASE rows'[r] = rows[r]
  BY <1>4
<1>5. CASE Edited(r)
  BY <1>5 DEF Edited
<1> QED BY <1>1, <1>2, <1>3, <1>4, <1>5 DEF RowMoves, Exists

\* A row appears by the commit of the request that creates it.
LEMMA RowsAppear ==
    ASSUME TypeInv, TypeInv', RowInv, LocksInv, LaunchInv, [Next]_vars,
           NEW r \in Runs, ~Exists(r), Exists(r)'
    PROVE  \E h \in Handlers : Creating(h) /\ handler[h].run = r
<1>1. RowMoves(r)
  BY RowsMove
<1>2. ~ \E w \in Workers : r \in locks[w]
  BY DEF LocksInv, Waiting
<1> QED BY <1>1, <1>2 DEF RowMoves, Edited, Exists

\* A run that has a copy somewhere in the reconciler is not launched.
LEMMA LoadedNotLaunched ==
    ASSUME TypeInv, RowInv, LocksInv, NEW r \in Runs, Launches(r)
    PROVE  /\ Exists(r) => ~rows[r].job
           /\ Exists(r) \/ \A c \in Reconcilers : rec[c].loaded[r] = NoRow
           /\ pod'[r] = "pending"
<1>1. CASE \E w \in Workers : AdmitStarts(w, r)
  BY <1>1, AdmittedIsWaiting
     DEF Waiting, CreateRunJob, TypeInv, TypeOK, ClusterTypeOK
<1>2. ASSUME NEW h \in Handlers, CreateStartsJob(h), handler[h].run = r
      PROVE  /\ ~Exists(r) /\ \A c \in Reconcilers : rec[c].loaded[r] = NoRow
             /\ pod'[r] = "pending"
  BY <1>2 DEF CreateStartsJob, CreateRunJob, Serves, Creating, RowInv, IdsUsedOnce,
              TypeInv, TypeOK, ClusterTypeOK
<1> QED BY <1>1, <1>2 DEF Launches

LEMMA FaultsGrow ==
    ASSUME TypeInv, [Next]_vars
    PROVE  faults' >= faults
<1>1. faults \in Nat
  BY FaultsAssumption DEF TypeInv, TypeOK, StoreTypeOK
<1>2. (Fault => faults' >= faults) /\ (UNCHANGED faults => faults' >= faults)
  BY <1>1 DEF Fault
<1>3. CASE RequestNext
  <2>1. PICK h \in Handlers : RequestArrives(h) \/ RequestStep(h) \/ RequestLost(h)
    BY <1>3 DEF RequestNext
  <2> QED
    BY <1>2, <2>1 DEF RequestArrives, CreateBegin, CancelBegin, DeleteBegin, StatusBegin,
       ReportBegin, RequestStep, CreateStartsJob, CreateRefused, CreateRunJobRefused,
       CreateCommit, CancelCommit, CancelSignal, DeleteCommit, StatusCommit, ReportCommit,
       RequestLost, storeVars
<1>4. CASE QueueNext
  BY <1>2, <1>4 DEF QueueNext, WorkerStep, CountSlots, SelectQueued, SelectNothing,
     CommitTick, AbortTick, AdmitStarts, AdmitRefused, CreateRunJobRefused,
     ProfileMissing, storeVars
<1>5. CASE ReconcilerNext
  <2>1. PICK c \in Reconcilers : ReconcilerStep(c) \/ ReconcileAbort(c)
    BY <1>5 DEF ReconcilerNext
  <2> QED BY <1>2, <2>1 DEF ReconcilerStep, ReconcileSelect, Examine, ReSignal, DeleteJob,
             ReconcileCommit, ReconcileAbort, storeVars
<1>6. CASE Environment
  BY <1>2, <1>6 DEF Environment, PodStarts, PodEnds, JobExpires, TimePasses,
     StatusGoesStale, GraceElapses, storeVars
<1> QED BY <1>2, <1>3, <1>4, <1>5, <1>6 DEF Next, vars, storeVars

-----------------------------------------------------------------------------
(* Verdicts.                                                               *)

\* The reconciler ended the run as if its Job had been deleted.
DeletedInVain(c, r) == rec[c].copy[r] = HardStop(rec[c].loaded[r])

VerdictInv ==
    \A c \in Reconcilers, r \in Runs :
        rec[c].loaded[r] # NoRow =>
            /\ Exists(r) => rows[r].job
            /\ rec[c].copy[r] # rec[c].loaded[r] =>
                  job[r] # "active" \/ (faults > 0 /\ DeletedInVain(c, r))

LEMMA HardStopCode ==
    ASSUME NEW row \in Row
    PROVE  HardStop(row).code \in {"STUCK_TIMEOUT", "RUN_CANCELLED"}
BY DEF HardStop, Row

LEMMA VerdictStep ==
    ASSUME LaunchIInv, LaunchIInv', VerdictInv, [Next]_vars
    PROVE  VerdictInv'
<1> USE DEF LaunchIInv
<1>1. /\ faults \in Nat /\ faults' \in Nat /\ faults' >= faults
  BY FaultsAssumption, FaultsGrow DEF TypeInv, TypeOK, StoreTypeOK
<1> SUFFICES ASSUME NEW c \in Reconcilers, NEW r \in Runs, rec'[c].loaded[r] # NoRow
             PROVE  /\ Exists(r)' => rows'[r].job
                    /\ rec'[c].copy[r] # rec'[c].loaded[r] =>
                          job'[r] # "active" \/ (faults' > 0 /\ DeletedInVain(c, r)')
  BY DEF VerdictInv
<1>2. CopyMoves(c, r)
  BY CopiesMove
<1>3. CASE rec[c].loaded[r] = NoRow
  <2>1. rows'[r] = rows[r] /\ HoldsSlot(r) /\ rec'[c].copy[r] = rec'[c].loaded[r]
    <3>1. rec[c].copy[r] = NoRow
      BY <1>3 DEF TypeInv, CopiesLoaded
    <3> QED BY <1>2, <1>3, <3>1 DEF CopyMoves
  <2> QED BY <2>1 DEF HoldsSlot, Exists
<1>4. CASE rec[c].loaded[r] # NoRow
  <2>1. Exists(r)' => rows'[r].job
    <3>1. CASE Exists(r)
      BY <1>4, <3>1, CancelAndNameStay DEF VerdictInv
    <3>2. CASE ~Exists(r)
      BY <1>4, <3>2, RowsAppear DEF RowInv, IdsUsedOnce
    <3> QED BY <3>1, <3>2
  <2>2. job'[r] = "active" => job[r] = "active"
    BY <1>4, ClusterMoves, LoadedNotLaunched DEF Unlaunched, VerdictInv
  <2>3. CASE /\ rec'[c].loaded[r] = rec[c].loaded[r]
             /\ rec'[c].copy[r] = rec[c].copy[r]
    BY <1>1, <1>4, <2>1, <2>2, <2>3 DEF VerdictInv, DeletedInVain
  <2>4. CASE job[r] # "active"
    BY <2>1, <2>2, <2>4
  <2>5. CASE /\ job'[r] # "active" \/ faults' = faults + 1
             /\ rec'[c].copy[r] = HardStop(rec[c].loaded[r])
             /\ rec'[c].loaded[r] = rec[c].loaded[r]
    BY <1>1, <2>1, <2>5 DEF DeletedInVain
  <2>6. CASE rec'[c].copy[r] = rec'[c].loaded[r]
    BY <2>1, <2>6
  <2> QED BY <1>2, <2>3, <2>4, <2>5, <2>6 DEF CopyMoves
<1> QED BY <1>3, <1>4

LEMMA VerdictInvariant == Spec => []VerdictInv
<1>1. Init => VerdictInv
  BY DEF Init, ReconcilerInit, Resting, VerdictInv
<1>2. LaunchIInv /\ LaunchIInv' /\ VerdictInv /\ [Next]_vars => VerdictInv'
  BY VerdictStep
<1> QED BY <1>1, <1>2, LaunchInvariant, PTL DEF Spec

\* However many calls old a decision of the reconciler is when it is
\* committed, the Job it ends the run for is not alive, unless the call that
\* was to delete it failed.
THEOREM VerdictsAreOnDeadJobs == Spec => VerdictOnlyOnDeadJob
<1> DEFINE OnDeadJob ==
       \A c \in Reconcilers, r \in Runs :
          /\ rec'[c].pc = "resting" /\ rec[c].pc # "resting"
          /\ r \in Changed(c) /\ ~Terminal(r) /\ Terminal(r)'
          => job[r] # "active" \/ (faults > 0 /\ HardStopped(c, r))
<1>1. TypeInv /\ VerdictInv => OnDeadJob
  BY HardStopCode DEF TypeInv, TypeOK, ReconcilerTypeOK, ReconcilerState, CopiesLoaded,
                      VerdictInv, DeletedInVain, HardStopped, Changed
<1>2. LaunchIInv => TypeInv
  BY DEF LaunchIInv
<1>3. TypeInv /\ VerdictInv /\ [Next]_vars => [OnDeadJob]_vars
  BY <1>1
<1> QED BY <1>2, <1>3, LaunchInvariant, VerdictInvariant, PTL DEF Spec, VerdictOnlyOnDeadJob

-----------------------------------------------------------------------------
(* Signals.                                                                *)

SignalInv ==
    /\ \A h \in Handlers :
          /\ Serves(h, "cancel") => handler[h].loaded.cancel = "no"
          /\ Serves(h, "signal") /\ Exists(handler[h].run) =>
                rows[handler[h].run].cancel # "no"
          /\ Creating(h) => pod[handler[h].run] \in {"none", "pending"}
    /\ \A c \in Reconcilers :
          rec[c].pc = "signalling" => rec[c].loaded[rec[c].at].cancel # "no"
    /\ SignalledOnlyOnRequest

LEMMA SignalInit == Init => SignalInv
BY DEF Init, StoreInit, ClusterInit, RequestInit, ReconcilerInit, SignalInv,
       SignalledOnlyOnRequest, Serves, Creating, NoRequest, Resting

\* A running pod is interrupted by a request, by the reconciler, or with its Job.
LEMMA PodsInterrupted ==
    ASSUME TypeInv, [Next]_vars, NEW r \in Runs, pod[r] = "running", pod'[r] = "signalled"
    PROVE  \/ job'[r] # "active"
           \/ /\ UNCHANGED rows
              /\ \/ \E h \in Handlers : Serves(h, "signal") /\ handler[h].run = r
                 \/ \E c \in Reconcilers : rec[c].pc = "signalling" /\ rec[c].at = r
<1> USE DEF TypeInv, TypeOK, ClusterTypeOK
<1>1. ~ UNCHANGED clusterVars
  BY DEF clusterVars
<1>2. CASE RequestNext
  <2>1. PICK h \in Handlers : RequestArrives(h) \/ RequestStep(h) \/ RequestLost(h)
    BY <1>2 DEF RequestNext
  <2>2. CASE CreateStartsJob(h)
    BY <2>2 DEF CreateStartsJob, CreateRunJob
  <2>3. CASE CancelSignal(h)
    <3>1. SignalRunJobSigint(handler[h].run) /\ UNCHANGED rows /\ Serves(h, "signal")
      BY <1>1, <2>3 DEF CancelSignal
    <3>2. handler[h].run = r
      BY <3>1 DEF SignalRunJobSigint
    <3> QED BY <3>1, <3>2
  <2> QED
    BY <1>1, <2>1, <2>2, <2>3 DEF RequestArrives, CreateBegin, CancelBegin, DeleteBegin,
       StatusBegin, ReportBegin, RequestStep, CreateRefused, CreateRunJobRefused,
       CreateCommit, CancelCommit, DeleteCommit, StatusCommit, ReportCommit, RequestLost
<1>3. CASE ReconcilerNext
  <2>1. PICK c \in Reconcilers : ReconcilerStep(c) \/ ReconcileAbort(c)
    BY <1>3 DEF ReconcilerNext
  <2>2. CASE ReSignal(c)
    <3>1. SignalRunJobSigint(rec[c].at) /\ UNCHANGED rows /\ rec[c].pc = "signalling"
      BY <1>1, <2>2 DEF ReSignal
    <3>2. rec[c].at = r
      BY <3>1 DEF SignalRunJobSigint
    <3> QED BY <3>1, <3>2
  <2>3. CASE DeleteJob(c)
    <3>1. DeleteRunJob(rec[c].at) /\ rec[c].at \in Runs
      BY <1>1, <2>3 DEF DeleteJob, CopiesLoaded
    <3>2. rec[c].at = r
      BY <3>1 DEF DeleteRunJob
    <3> QED BY <3>1, <3>2 DEF DeleteRunJob
  <2> QED BY <1>1, <2>1, <2>2, <2>3 DEF ReconcilerStep, ReconcileSelect, Examine,
             ReconcileCommit, ReconcileAbort
<1>4. CASE QueueNext
  BY <1>1, <1>4 DEF QueueNext, WorkerStep, CountSlots, SelectQueued, SelectNothing,
     CommitTick, AbortTick, AdmitStarts, CreateRunJob, AdmitRefused, CreateRunJobRefused,
     ProfileMissing
<1>5. CASE Environment
  BY <1>1, <1>5 DEF Environment, PodStarts, PodEnds, JobExpires, TimePasses
<1> QED BY <1>1, <1>2, <1>3, <1>4, <1>5 DEF Next, vars

\* The reconciler turns to signalling for a copy that was asked to stop.
LEMMA TurnsToSignal ==
    ASSUME TypeInv, [Next]_vars, NEW c \in Reconcilers, rec'[c].pc = "signalling"
    PROVE  \/ rec'[c] = rec[c]
           \/ rec'[c].loaded[rec'[c].at].cancel # "no"
<1> USE DEF TypeInv, TypeOK, ReconcilerTypeOK
<1> SUFFICES ASSUME rec'[c] # rec[c] PROVE rec'[c].loaded[rec'[c].at].cancel # "no"
  OBVIOUS
<1>1. ReconcilerNext
  BY DEF Next, OfWorkers, OfHandlers, OfEnvironment, vars
<1>2. PICK d \in Reconcilers : ReconcilerStep(d) \/ ReconcileAbort(d)
  BY <1>1 DEF ReconcilerNext
<1>3. rec[d] \in ReconcilerState
  OBVIOUS
<1>4. c = d
  BY <1>2 DEF ReconcilerStep, ReconcileSelect, Examine, ReSignal, DeleteJob,
     ReconcileCommit, ReconcileAbort
<1>5. CASE ReconcileSelect(c) \/ ReconcileCommit(c) \/ ReconcileAbort(c)
  <2>1. rec'[c].pc \in {"looping", "resting"}
    <3>1. CASE ReconcileSelect(c)
      BY <3>1 DEF ReconcileSelect
    <3>2. CASE ReconcileCommit(c) \/ ReconcileAbort(c)
      BY <3>2 DEF ReconcileCommit, ReconcileAbort, Resting
    <3> QED BY <1>5, <3>1, <3>2
  <2> QED BY <2>1
<1>6. CASE ReSignal(c)
  BY <1>3, <1>4, <1>6 DEF ReSignal, AfterReSignal, ReconcilerState
<1>7. CASE DeleteJob(c)
  BY <1>3, <1>4, <1>7 DEF DeleteJob, ReconcilerState
<1>8. ASSUME NEW q \in Runs, Examine(c, q)
      PROVE  rec'[c].loaded[rec'[c].at].cancel # "no"
  <2> DEFINE row   == rec[c].loaded[q]
             phase == GetJobPhase(q)
             copy  == IF phase = "active" THEN rec[c].copy[q] ELSE Verdict(row, phase)
  <2>1. rec' = [rec EXCEPT ![c] = [rec[c] EXCEPT
                   !.todo = @ \ {q},
                   !.at = IF phase = "active" THEN q ELSE NoRow,
                   !.pc = AfterExamine(row, phase),
                   !.copy[q] = copy]]
    BY <1>8, ExamineUpdates
  <2> HIDE DEF copy, row, phase
  <2>2. /\ rec'[c].loaded = rec[c].loaded
        /\ rec'[c].at = IF phase = "active" THEN q ELSE NoRow
        /\ rec'[c].pc = AfterExamine(row, phase)
    BY <1>3, <1>4, <2>1 DEF ReconcilerState
  <2>3. phase = "active" /\ row.cancel # "no"
    BY <2>2 DEF AfterExamine
  <2> QED BY <2>2, <2>3 DEF row
<1> QED BY <1>2, <1>4, <1>5, <1>6, <1>7, <1>8 DEF ReconcilerStep

\* The commit of a cancel leaves the request in the row.
LEMMA CancelIsWritten ==
    ASSUME TypeInv, NEW h \in Handlers, CancelCommit(h), handler[h].loaded.cancel = "no",
           rows'[handler[h].run] # NoRow
    PROVE  rows'[handler[h].run].cancel # "no"
<1> DEFINE r    == handler[h].run
           copy == CancelledCopy(handler[h].loaded)
<1>1. r \in Runs /\ handler[h].loaded \in Row
  BY ServedIsRequest DEF CancelCommit, Serves, NoRequest, TypeInv, TypeOK
<1>2. copy.cancel = "asked"
  BY <1>1 DEF CancelledCopy, Row
<1>3. rows' = [rows EXCEPT ![r] = IF Exists(r) THEN Flush(rows[r], handler[h].loaded, copy)
                                               ELSE NoRow]
  BY DEF CancelCommit, Write
<1> HIDE DEF copy
<1>4. Flush(rows[r], handler[h].loaded, copy).cancel = "asked"
  BY <1>2 DEF Flush, Column
<1> QED BY <1>1, <1>3, <1>4 DEF TypeInv, TypeOK, StoreTypeOK

LEMMA SignalStep ==
    ASSUME LaunchIInv, LaunchIInv', SignalInv, [Next]_vars
    PROVE  SignalInv'
<1> USE DEF LaunchIInv
<1>1. ASSUME NEW h \in Handlers, Creating(h)'
      PROVE  pod'[handler'[h].run] \in {"none", "pending"}
  <2>1. CASE handler'[h] = handler[h]
    <3>1. handler[h].run \in Runs /\ Creating(h)
      BY <1>1, <2>1, ServedIsRequest DEF Creating, NoRequest, TypeInv, TypeOK
    <3>2. pod'[handler[h].run] \in PodStates
      BY <3>1 DEF TypeInv, TypeOK, ClusterTypeOK
    <3>3. pod[handler[h].run] \in {"none", "pending"} /\ ~Exists(handler[h].run)
      BY <3>1 DEF SignalInv, RowInv, IdsUsedOnce
    <3> QED BY <2>1, <3>1, <3>2, <3>3, ClusterMoves, LoadedNotLaunched
            DEF Unlaunched, PodStates
  <2>2. CASE CreateRunJob(handler[h].run) /\ handler'[h].run = handler[h].run /\ Serves(h, "create")
    <3>1. handler[h].run \in Runs
      BY <2>2, ServedIsRequest DEF Serves, NoRequest, TypeInv, TypeOK
    <3> QED BY <2>2, <3>1 DEF CreateRunJob, TypeInv, TypeOK, ClusterTypeOK
  <2>3. ASSUME NEW r \in Runs, created[r] = 0, UNCHANGED clusterVars, handler'[h].run = r
        PROVE  pod'[handler'[h].run] \in {"none", "pending"}
    BY <2>3 DEF LaunchInv, clusterVars
  <2> QED BY <1>1, <2>1, <2>2, <2>3, RequestsMove DEF RequestMoves, Creating, NoRequest
<1>2. ASSUME NEW h \in Handlers, Serves(h, "cancel")'
      PROVE  handler'[h].loaded.cancel = "no"
  BY <1>2, RequestsMove DEF RequestMoves, Serves, SignalInv, NoRequest
<1>3. ASSUME NEW h \in Handlers, Serves(h, "signal")', rows'[handler'[h].run] # NoRow
      PROVE  rows'[handler'[h].run].cancel # "no"
  <2>1. CASE handler'[h] = handler[h]
    <3>1. handler[h].run \in Runs /\ Busy(h) /\ Serves(h, "signal") /\ ~Creating(h)
      BY <1>3, <2>1, ServedIsRequest DEF Busy, Serves, Creating, NoRequest, TypeInv, TypeOK
    <3>2. Exists(handler[h].run)
      BY <1>3, <2>1, <3>1, RowsAppear DEF RowInv, IdsUsedOnce, Exists
    <3> QED BY <1>3, <2>1, <3>1, <3>2, CancelAndNameStay DEF SignalInv, Exists
  <2>2. CASE CancelCommit(h) /\ Carried(h)
    BY <1>3, <2>2, CancelIsWritten DEF CancelCommit, SignalInv, Carried
  <2> QED BY <1>3, <2>1, <2>2, RequestsMove DEF RequestMoves, Serves, NoRequest
<1>4. ASSUME NEW c \in Reconcilers, rec'[c].pc = "signalling"
      PROVE  rec'[c].loaded[rec'[c].at].cancel # "no"
  BY <1>4, TurnsToSignal DEF SignalInv
<1>5. ASSUME NEW r \in Runs, pod'[r] = "signalled", Exists(r)'
      PROVE  rows'[r].cancel # "no" \/ job'[r] # "active"
  <2>1. Unlaunched(r)
    BY <1>5, ClusterMoves, LoadedNotLaunched
  <2>2. pod[r] \in {"running", "signalled"}
    BY <1>5, <2>1 DEF Unlaunched
  <2>3. Exists(r)
    BY <1>5, <2>2, RowsAppear DEF SignalInv
  <2>4. rows[r].cancel # "no" => rows'[r].cancel # "no"
    BY <1>5, <2>3, CancelAndNameStay
  <2>5. CASE pod[r] = "signalled"
    BY <2>1, <2>3, <2>4, <2>5 DEF SignalInv, SignalledOnlyOnRequest, Unlaunched
  <2>6. CASE pod[r] = "running"
    <3>1. ASSUME NEW c \in Reconcilers, rec[c].pc = "signalling", rec[c].at = r
          PROVE  rows[r].cancel # "no"
      <4>1. rec[c].loaded[r] # NoRow /\ rec[c].loaded[r].cancel # "no"
        BY <3>1 DEF SignalInv, TypeInv, CopiesLoaded
      <4> QED BY <2>3, <4>1 DEF RowInv, CopiesLag, Lags
    <3>2. ASSUME NEW h \in Handlers, Serves(h, "signal"), handler[h].run = r
          PROVE  rows[r].cancel # "no"
      BY <2>3, <3>2 DEF SignalInv
    <3> QED BY <1>5, <2>4, <2>6, <3>1, <3>2, PodsInterrupted
  <2> QED BY <2>2, <2>5, <2>6
<1> QED BY <1>1, <1>2, <1>3, <1>4, <1>5 DEF SignalInv, SignalledOnlyOnRequest, Exists

\* A pod is interrupted only for a cancelled run, or with its Job deleted,
\* by however old a copy: a request to cancel is never taken back.
THEOREM SignalsAreRequested == Spec => []SignalledOnlyOnRequest
<1>1. SignalInv => SignalledOnlyOnRequest
  BY DEF SignalInv
<1>2. LaunchIInv /\ LaunchIInv' /\ SignalInv /\ [Next]_vars => SignalInv'
  BY SignalStep
<1> QED BY <1>1, <1>2, SignalInit, LaunchInvariant, PTL DEF Spec

-----------------------------------------------------------------------------
(* Runs that are over, and those that come back.                           *)

\* A run that was over and came back is no new run.
RevivedKnown ==
    /\ \A r \in resurrected : created[r] # 0
    /\ \A h \in Handlers : Creating(h) => handler[h].run \notin resurrected

EndInv == FinishedStamped /\ RevivedKnown

LEMMA EndInit == Init => EndInv
BY DEF Init, StoreInit, RequestInit, EndInv, FinishedStamped, RevivedKnown, Exists,
       Creating, NoRequest

\* Only the posting of a status takes a row out of a terminal status.
LEMMA RevivalIsPosted ==
    ASSUME TypeInv, TypeInv', RowInv, LocksInv, LaunchInv, [Next]_vars,
           NEW r \in Runs, Resurrects(r)
    PROVE  \E h \in Handlers : StatusPosted(h, r)
<1>1. /\ Exists(r) /\ rows[r].status \in TERMINAL_STATUSES
      /\ Exists(r)' /\ rows'[r].status \notin TERMINAL_STATUSES
  BY DEF Resurrects, Terminal
<1>2. ~ \E h \in Handlers : Creating(h) /\ handler[h].run = r
  BY <1>1 DEF RowInv, IdsUsedOnce
<1>3. ~ \E w \in Workers : r \in locks[w]
  BY <1>1 DEF LocksInv, Waiting, TERMINAL_STATUSES
<1>4. Edited(r)
  BY <1>1, <1>2, <1>3, RowsMove DEF RowMoves, Exists
<1> QED BY <1>1, <1>4 DEF Edited

LEMMA ResurrectedGrows ==
    ASSUME TypeInv, [Next]_vars
    PROVE  resurrected' = resurrected \union {r \in Runs : Resurrects(r)}
<1>1. CASE UNCHANGED vars
  <2>1. UNCHANGED <<rows, resurrected>>
    BY <1>1 DEF vars, storeVars
  <2> QED BY <2>1 DEF Resurrects, Terminal, Exists
<1> QED BY <1>1 DEF Next, OfWorkers, OfHandlers, OfReconcilers, OfEnvironment, Record

LEMMA RevivedStayKnown ==
    ASSUME TypeInv, TypeInv', RowInv, LocksInv, LaunchInv, RevivedKnown, [Next]_vars
    PROVE  RevivedKnown'
<1>1. resurrected' = resurrected \union {r \in Runs : Resurrects(r)}
  BY ResurrectedGrows
<1>2. \A r \in Runs : Resurrects(r) =>
         /\ Exists(r) /\ created[r] # 0
         /\ \A h \in Handlers : Creating(h) => handler[h].run # r
  BY DEF Resurrects, Terminal, RowInv, IdsUsedOnce
<1>3. \A r \in resurrected : r \in Runs
  BY DEF TypeInv, TypeOK
<1>4. ASSUME NEW r \in resurrected' PROVE created'[r] # 0
  BY <1>1, <1>2, <1>3, <1>4, IdsStayDrawn DEF RevivedKnown
<1>5. ASSUME NEW h \in Handlers, Creating(h)'
      PROVE  handler'[h].run \notin resurrected'
  <2>1. \/ Creating(h) /\ handler'[h].run = handler[h].run
        \/ created[handler'[h].run] = 0
    BY <1>5, RequestsMove DEF RequestMoves, Creating, Serves, NoRequest
  <2> QED BY <1>1, <1>2, <2>1 DEF RevivedKnown
<1> QED BY <1>4, <1>5 DEF RevivedKnown

LEMMA FinishedStep ==
    ASSUME TypeInv, TypeInv', RowInv, RowInv', LocksInv, LaunchInv, EndInv, [Next]_vars
    PROVE  FinishedStamped'
<1> USE DEF TypeInv, TypeOK, StoreTypeOK
<1> SUFFICES ASSUME NEW r \in Runs, Exists(r)'
             PROVE  rows'[r].finished <=> Terminal(r)' \/ r \in resurrected'
  BY DEF FinishedStamped
<1>1. r \in resurrected' <=> r \in resurrected \/ Resurrects(r)
  BY ResurrectedGrows
<1>2. Terminal(r)' => rows'[r].finished
  BY DEF RowInv, RowsSound, RowSound, Terminal, Exists
<1>3. CASE Exists(r) /\ Finishes(rows[r], rows'[r])
  <2>1. rows[r].finished <=> Terminal(r) \/ r \in resurrected
    BY <1>3 DEF EndInv, FinishedStamped
  <2>2. /\ rows[r].finished => rows'[r].finished
        /\ rows'[r].finished => rows[r].finished \/ Terminal(r)'
    BY <1>3 DEF Finishes, Terminal, Exists
  <2>3. Terminal(r) /\ ~Terminal(r)' => Resurrects(r)
    BY DEF Resurrects
  <2>4. Resurrects(r) => Terminal(r)
    BY DEF Resurrects
  <2> QED BY <1>1, <1>2, <1>3, <2>1, <2>2, <2>3, <2>4
<1>4. CASE rows'[r] = rows[r]
  BY <1>3, <1>4 DEF Exists, Finishes
<1>5. CASE Edited(r)
  BY <1>3, <1>5 DEF Edited
<1>6. ASSUME NEW h \in Handlers, Creating(h), handler[h].run = r,
             CreateCommit(h), rows'[r] = handler[h].loaded
      PROVE  rows'[r].finished <=> Terminal(r)' \/ r \in resurrected'
  <2>1. r \notin resurrected /\ ~Exists(r)
    BY <1>6 DEF EndInv, RevivedKnown, RowInv, IdsUsedOnce
  <2>2. ~Resurrects(r)
    BY <2>1 DEF Resurrects, Terminal
  <2>3. ~rows'[r].finished
    BY <1>6 DEF CreateCommit, LaunchInv, NewRow
  <2> QED BY <1>1, <1>2, <2>1, <2>2, <2>3
<1>7. ASSUME NEW w \in Workers, r \in locks[w], rows'[r] = AdmittedRow(w, r)
      PROVE  Exists(r) /\ Finishes(rows[r], rows'[r])
  <2>1. r \in Waiting /\ Exists(r) /\ rows[r] \in Row
    BY <1>7 DEF LocksInv, Waiting, Exists
  <2> QED BY <1>7, <2>1 DEF AdmittedRow, Finishes, Waiting, Row, TERMINAL_STATUSES
<1> QED BY <1>3, <1>4, <1>5, <1>6, <1>7, RowsMove DEF RowMoves, Exists

\* However old the copies are that are written over each other, finished_at
\* stands exactly in the rows of runs that are over, or were and came back.
THEOREM FinishedIsStamped == Spec => []FinishedStamped
<1>1. Init => EndInv
  BY EndInit
<1>2. LaunchIInv /\ LaunchIInv' /\ EndInv /\ [Next]_vars => EndInv'
  BY FinishedStep, RevivedStayKnown DEF LaunchIInv, EndInv
<1>3. EndInv => FinishedStamped
  BY DEF EndInv
<1> QED BY <1>1, <1>2, <1>3, LaunchInvariant, PTL DEF Spec

\* A run that is over comes back only by a status its pod posted and the row
\* did not have when the request loaded it: neither a worker, a reconciler,
\* a cancel nor a report ever undoes an end with the copy it carries.
THEOREM StatusesAloneRevive == Spec => RevivedOnlyByStatus
<1> DEFINE Posted == \A r \in Runs :
                        Resurrects(r) => \E h \in Handlers : StatusPosted(h, r)
<1>1. LaunchIInv /\ LaunchIInv' /\ [Next]_vars => [Posted]_vars
  BY RevivalIsPosted DEF LaunchIInv
<1> QED BY <1>1, LaunchInvariant, PTL DEF Spec, RevivedOnlyByStatus
-----------------------------------------------------------------------------
(* Cancelled runs whose pod works on.                                      *)

\* What CancelledMeansInterrupted excludes.
Unheeded(r) == /\ Exists(r) /\ rows[r].status = "CANCELLED"
               /\ job[r] = "active" /\ pod[r] \in {"pending", "running"}

\* A cancel that had loaded the row without its Job, although a worker has
\* named it since, or has lost the commit that would have.
CancelledBlindly(h, r) ==
    /\ Serves(h, "cancel") /\ handler[h].run = r /\ handler'[h] = NoRequest
    /\ ~handler[h].loaded.job
    /\ rows[r].job \/ lost[r] > 0

\* The end of a grace period whose deletion of the Job failed.
StoppedInVain(c, r) ==
    /\ faults > 0
    /\ r \in Changed(c) /\ rec[c].copy[r].code = "RUN_CANCELLED"
    /\ rec'[c] = Resting

\* A run is CANCELLED over a Job that nobody has told only by a cancel that
\* did not see the Job, by a status that the pod itself posts, or by a hard
\* stop that failed.
UnheededOnlyByRace ==
    [][\A r \in Runs :
          ~Unheeded(r) /\ Unheeded(r)' =>
             \/ \E h \in Handlers : CancelledBlindly(h, r) \/ StatusPosted(h, r)
             \/ \E c \in Reconcilers : StoppedInVain(c, r)]_vars

\* Who writes CANCELLED into a row that did not have it.
CancelWrites(h, r) == /\ CancelCommit(h) /\ handler[h].run = r
                      /\ ~handler[h].loaded.job

VerdictWrites(c, r) == /\ ReconcileCommit(c) /\ r \in Changed(c)
                       /\ rec[c].copy[r].status = "CANCELLED"

LEMMA FlushedStatus ==
    ASSUME NEW current, NEW loaded, NEW copy,
           Flush(current, loaded, copy).status # current.status
    PROVE  /\ Flush(current, loaded, copy).status = copy.status
           /\ copy.status # loaded.status
BY DEF Flush, Column

LEMMA WhoCancels ==
    ASSUME TypeInv, TypeInv', RowInv, LocksInv, LaunchInv, [Next]_vars,
           NEW r \in Runs, Exists(r), Exists(r)',
           rows[r].status # "CANCELLED", rows'[r].status = "CANCELLED"
    PROVE  \/ \E h \in Handlers : CancelWrites(h, r) \/ StatusPosted(h, r)
           \/ \E c \in Reconcilers : VerdictWrites(c, r)
<1> USE DEF TypeInv, TypeOK, StoreTypeOK
<1>1. rows' # rows
  OBVIOUS
<1>2. ASSUME NEW h \in Handlers, Busy(h), NEW copy, Write(h, copy)
      PROVE  /\ handler[h].run = r
             /\ copy.status = "CANCELLED" /\ handler[h].loaded.status # "CANCELLED"
  <2>1. handler[h].run = r /\ rows'[r] = Flush(rows[r], handler[h].loaded, copy)
    BY <1>2 DEF Write, Exists
  <2> QED BY <2>1, FlushedStatus
<1>3. CASE RequestNext
  <2>1. PICK h \in Handlers : RequestArrives(h) \/ RequestStep(h) \/ RequestLost(h)
    BY <1>3 DEF RequestNext
  <2>2. CASE CancelCommit(h)
    <3>1. Busy(h) /\ handler[h].loaded \in Row
      BY <2>2, ServedIsRequest DEF CancelCommit, Serves, Busy, NoRequest
    <3>2. /\ handler[h].run = r
          /\ CancelledCopy(handler[h].loaded).status = "CANCELLED"
          /\ handler[h].loaded.status # "CANCELLED"
      BY <1>2, <2>2, <3>1 DEF CancelCommit
    <3>3. ~handler[h].loaded.job
      BY <3>1, <3>2 DEF CancelledCopy, Row
    <3> QED BY <2>2, <3>2, <3>3 DEF CancelWrites
  <2>3. CASE ReportCommit(h)
    <3>1. Busy(h) /\ handler[h].loaded \in Row
      BY <2>3, ServedIsRequest DEF ReportCommit, Serves, Busy, NoRequest
    <3>2. ReportCopy(handler[h].loaded, handler[h].arg).status = handler[h].loaded.status
      BY <3>1 DEF ReportCopy, Row
    <3> QED BY <1>2, <2>3, <3>1, <3>2 DEF ReportCommit
  <2>4. CASE StatusCommit(h)
    <3> DEFINE copy    == StatusCopy(handler[h].loaded, handler[h].arg)
               flushed == Flush(rows[r], handler[h].loaded, copy)
    <3>1. Serves(h, "status") /\ Busy(h) /\ handler[h].loaded \in Row
      BY <2>4, ServedIsRequest DEF StatusCommit, Serves, Busy, NoRequest
    <3>2. handler[h].run = r /\ rows'[r] = [flushed EXCEPT !.fresh = TRUE]
      BY <2>4 DEF StatusCommit, Exists
    <3>3. rows'[r].status = flushed.status
      BY <3>2 DEF Flush
    <3> HIDE DEF copy
    <3>4. copy.status = "CANCELLED" /\ copy.status # handler[h].loaded.status
      BY <3>3, FlushedStatus
    <3>5. copy.status \in {handler[h].loaded.status, handler[h].arg}
      BY <3>1, StatusCopyKeepsJob DEF copy, LaunchInv
    <3>6. handler[h].arg = "CANCELLED" /\ handler[h].loaded.status # "CANCELLED"
      BY <3>4, <3>5
    <3>7. handler[h].arg \in StatusValues /\ handler'[h] = NoRequest
      BY <2>4, <3>1 DEF LaunchInv, StatusCommit, Done, RequestTypeOK
    <3> QED BY <3>1, <3>2, <3>6, <3>7 DEF StatusPosted
  <2>5. CASE CreateCommit(h)
    <3>1. Creating(h)
      BY <2>5 DEF CreateCommit, Serves, Creating
    <3>2. handler[h].run # r
      BY <3>1 DEF RowInv, IdsUsedOnce
    <3> QED BY <2>5, <3>2 DEF CreateCommit
  <2>6. CASE DeleteCommit(h)
    BY <2>6 DEF DeleteCommit, Exists
  <2> QED
    BY <1>1, <2>1, <2>2, <2>3, <2>4, <2>5, <2>6 DEF RequestArrives, CreateBegin,
       CancelBegin, DeleteBegin, StatusBegin, ReportBegin, RequestStep, CreateStartsJob,
       CreateRefused, CancelSignal, RequestLost, storeVars
<1>4. CASE ReconcilerNext
  <2>1. PICK c \in Reconcilers : ReconcilerStep(c) \/ ReconcileAbort(c)
    BY <1>4 DEF ReconcilerNext
  <2>2. CASE ReconcileCommit(c)
    <3>1. /\ r \in Changed(c)
          /\ rows'[r] = Flush(rows[r], rec[c].loaded[r], rec[c].copy[r])
      BY <2>2 DEF ReconcileCommit
    <3> QED BY <2>2, <3>1, FlushedStatus DEF VerdictWrites
  <2>3. CASE ~ReconcileCommit(c)
    BY <1>1, <2>1, <2>3 DEF ReconcilerStep, ReconcileSelect, Examine, ReSignal, DeleteJob,
       ReconcileAbort, storeVars
  <2> QED BY <2>2, <2>3
<1>5. CASE Environment
  <2>1. PICK q \in Runs : PodStarts(q) \/ PodEnds(q) \/ JobExpires(q) \/ TimePasses(q)
    BY <1>5 DEF Environment
  <2>2. CASE TimePasses(q)
    <3>1. \/ rows'[r] = [rows[r] EXCEPT !.fresh = FALSE]
          \/ rows'[r] = [rows[r] EXCEPT !.cancel = "overdue"]
          \/ rows'[r] = rows[r]
      BY <2>2 DEF TimePasses, StatusGoesStale, GraceElapses
    <3>2. rows[r] \in Row
      BY DEF Exists
    <3>3. rows'[r].status = rows[r].status
      BY <3>1, <3>2 DEF Row
    <3> QED BY <3>3
  <2> QED BY <1>1, <2>1, <2>2 DEF PodStarts, PodEnds, JobExpires, storeVars
<1>6. CASE QueueNext
  <2>1. ASSUME NEW w \in Workers, CommitTick(w) PROVE FALSE
    <3>1. rows'[r] = AdmittedRow(w, r) /\ rows[r] \in Row
      BY <2>1 DEF CommitTick, Exists
    <3>2. rows'[r].status \in {rows[r].status, "NOT_STARTED", "FAILED"}
      BY <3>1 DEF AdmittedRow, Row
    <3> QED BY <3>2
  <2> QED
    BY <1>1, <1>6, <2>1 DEF QueueNext, WorkerStep, CountSlots, SelectQueued, SelectNothing,
       AdmitStarts, AdmitRefused, ProfileMissing, AbortTick, storeVars
<1> QED BY <1>1, <1>3, <1>4, <1>5, <1>6 DEF Next, vars, storeVars

\* The Job and the pod of an unheeded run, and its row, were there before.
LEMMA UnheededWasAlive ==
    ASSUME LaunchIInv, LaunchIInv', [Next]_vars, NEW r \in Runs, Unheeded(r)'
    PROVE  Exists(r) /\ job[r] = "active" /\ pod[r] \in {"pending", "running"}
<1> USE DEF LaunchIInv
<1>1. Exists(r)' /\ rows'[r].status = "CANCELLED" /\ job'[r] = "active"
  BY DEF Unheeded, Exists
<1>2. Exists(r)
  <2> SUFFICES ASSUME ~Exists(r) PROVE FALSE
    OBVIOUS
  <2>1. PICK h \in Handlers : /\ Creating(h) /\ handler[h].run = r
                              /\ CreateCommit(h) /\ rows'[r] = handler[h].loaded
    <3>1. RowMoves(r)
      BY RowsMove
    <3>2. ~ \E w \in Workers : r \in locks[w]
      BY DEF LocksInv, Waiting
    <3> QED BY <1>1, <3>1, <3>2 DEF RowMoves, Edited, Exists
  <2>2. /\ Busy(h) /\ RowSound(handler[h].loaded)
        /\ ~handler[h].loaded.finished
    BY <2>1 DEF Creating, Serves, Busy, NoRequest, LaunchInv, NewRow
  <2> QED BY <1>1, <2>1, <2>2 DEF RowSound, TERMINAL_STATUSES
<1>3. Unlaunched(r)
  <2>1. ASSUME NEW w \in Workers, AdmitStarts(w, r) PROVE FALSE
    BY <1>1, <2>1, AdmittedIsWaiting DEF AdmitStarts, storeVars, Waiting
  <2>2. ASSUME NEW h \in Handlers, CreateStartsJob(h), handler[h].run = r PROVE FALSE
    BY <1>2, <2>2 DEF CreateStartsJob, Serves, Creating, RowInv, IdsUsedOnce
  <2> QED BY <2>1, <2>2, ClusterMoves DEF Launches
<1>4. pod[r] \in {"pending", "running"}
  BY <1>3 DEF Unlaunched, Unheeded
<1> QED BY <1>1, <1>2, <1>3, <1>4 DEF Unlaunched

LEMMA UnheededStep ==
    ASSUME LaunchIInv, LaunchIInv', VerdictInv, [Next]_vars,
           NEW r \in Runs, ~Unheeded(r), Unheeded(r)'
    PROVE  \/ \E h \in Handlers : CancelledBlindly(h, r) \/ StatusPosted(h, r)
           \/ \E c \in Reconcilers : StoppedInVain(c, r)
<1> USE DEF LaunchIInv
<1>1. Exists(r) /\ job[r] = "active" /\ pod[r] \in {"pending", "running"}
  BY UnheededWasAlive
<1>2. /\ rows[r].status # "CANCELLED"
      /\ Exists(r)' /\ rows'[r].status = "CANCELLED"
  BY <1>1 DEF Unheeded, Exists
<1>3. ASSUME NEW h \in Handlers, CancelWrites(h, r)
      PROVE  CancelledBlindly(h, r)
  <2>1. Serves(h, "cancel") /\ handler[h].run = r /\ ~handler[h].loaded.job
    BY <1>3 DEF CancelWrites, CancelCommit
  <2>2. handler'[h] = NoRequest /\ ~Locked(r)
    BY <1>3, <2>1 DEF CancelWrites, CancelCommit, Done, CanCommit,
                      TypeInv, TypeOK, RequestTypeOK
  <2>3. ~BeingStarted(r)
    BY <2>2 DEF BeingStarted, Locked, TypeInv, LocksHeld
  <2>4. rows[r].job \/ lost[r] > 0
    <3>1. launches[r] > 0 /\ (~rows[r].job => launches[r] <= lost[r])
      BY <1>1, <2>3 DEF LaunchInv
    <3>2. launches[r] \in Nat /\ lost[r] \in Nat
      BY DEF TypeInv, TypeOK, ClusterTypeOK, QueueTypeOK
    <3> QED BY <3>1, <3>2
  <2> QED BY <2>1, <2>2, <2>4 DEF CancelledBlindly
<1>4. ASSUME NEW c \in Reconcilers, VerdictWrites(c, r)
      PROVE  StoppedInVain(c, r)
  <2>1. /\ r \in Changed(c) /\ rec[c].copy[r].status = "CANCELLED"
        /\ rec'[c] = Resting
    BY <1>4 DEF VerdictWrites, ReconcileCommit, TypeInv, TypeOK, ReconcilerTypeOK
  <2>2. rec[c].loaded[r] \in Row /\ rec[c].loaded[r] # NoRow
    BY <2>1 DEF Changed, TypeInv, TypeOK, CopiesLoaded, ReconcilerTypeOK, ReconcilerState
  <2>3. faults > 0 /\ rec[c].copy[r] = HardStop(rec[c].loaded[r])
    BY <1>1, <2>1, <2>2 DEF VerdictInv, DeletedInVain, Changed
  <2>4. rec[c].copy[r].code = "RUN_CANCELLED"
    BY <2>1, <2>2, <2>3 DEF HardStop, Row
  <2> QED BY <2>1, <2>3, <2>4 DEF StoppedInVain
<1> QED BY <1>1, <1>2, <1>3, <1>4, WhoCancels

\* Without a failed deletion, and as long as the pod does not say so itself,
\* a cancel that read its row before the worker's commit is the one way to
\* a run that is CANCELLED and works on, for any number of replicas.
THEOREM UnheededOnlyByRacingCancel == Spec => UnheededOnlyByRace
<1> DEFINE Race == \A r \in Runs :
                      ~Unheeded(r) /\ Unheeded(r)' =>
                         \/ \E h \in Handlers : CancelledBlindly(h, r) \/ StatusPosted(h, r)
                         \/ \E c \in Reconcilers : StoppedInVain(c, r)
<1>1. LaunchIInv /\ LaunchIInv' /\ VerdictInv /\ [Next]_vars => [Race]_vars
  BY UnheededStep
<1> QED BY <1>1, LaunchInvariant, VerdictInvariant, PTL DEF Spec, UnheededOnlyByRace
=============================================================================
