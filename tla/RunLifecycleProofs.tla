------------------------- MODULE RunLifecycleProofs -------------------------
EXTENDS RunLifecycle, FiniteSetTheorems, TLAPS

-----------------------------------------------------------------------------
(* The copies the services compute from a row are rows.                    *)

\* What a commit leaves is a row.
LEMMA FlushIsRow ==
    ASSUME NEW current \in Row, NEW loaded \in Row, NEW copy \in Row
    PROVE  Flush(current, loaded, copy) \in Row
BY DEF Flush, Column, Row

\* So are the copies of the requests.
LEMMA RequestCopiesAreRows ==
    ASSUME NEW row \in Row
    PROVE  /\ CancelledCopy(row) \in Row
           /\ \A s : StatusCopy(row, s) \in Row
           /\ \A code \in ReportCodes : ReportCopy(row, code) \in Row
<1>1. CancelledCopy(row) \in Row
  BY DEF CancelledCopy, Row, Statuses
<1>2. ASSUME NEW s PROVE StatusCopy(row, s) \in Row
  BY DEF StatusCopy, Row
<1>3. ASSUME NEW code \in ReportCodes PROVE ReportCopy(row, code) \in Row
  BY DEF ReportCopy, Row
<1> QED BY <1>1, <1>2, <1>3

\* So are the decisions of the reconciler.
LEMMA DecisionsAreRows ==
    ASSUME NEW row \in Row
    PROVE  /\ \A phase : Verdict(row, phase) \in Row
           /\ HardStop(row) \in Row
<1>1. ASSUME NEW phase PROVE Verdict(row, phase) \in Row
  BY DEF Verdict, CodeUnlessSet, Row, Statuses, OperatorFinishCodes
<1>2. HardStop(row) \in Row
  BY DEF HardStop, Row, Statuses, OperatorFinishCodes
<1> QED BY <1>1, <1>2

\* So is a row that got older.
LEMMA AgedRowsAreRows ==
    ASSUME NEW row \in Row
    PROVE  /\ [row EXCEPT !.fresh = FALSE] \in Row
           /\ [row EXCEPT !.cancel = "overdue"] \in Row
           /\ [row EXCEPT !.fresh = TRUE] \in Row
BY DEF Row

\* So is what a tick of the queue worker makes of a row that exists.
LEMMA AdmittedRowIsRow ==
    ASSUME NEW w, NEW r, rows[r] \in Row
    PROVE  AdmittedRow(w, r) \in Row
BY DEF AdmittedRow, Row, Statuses

\* The row of a new run is a row, with or without a Job.
LEMMA NewRowsAreRows ==
    /\ NewRow \in Row
    /\ [NewRow EXCEPT !.job = TRUE, !.status = "NOT_STARTED"] \in Row
BY DEF NewRow, Row, Statuses

\* The free slots are a natural number: Runs is finite.
LEMMA FreeSlotsIsNat == FreeSlots \in Nat
<1>1. Active \subseteq Runs
  BY DEF Active
<1>2. Cardinality(Runs) \in Nat /\ Cardinality(Active) \in Nat
  BY <1>1, RunsFinite, FS_Subset, FS_CardinalityType
<1> QED
  BY <1>2, MaxConcurrentAssumption DEF FreeSlots

-----------------------------------------------------------------------------
(* Type correctness.  TypeOK is not inductive: that a handler writes a row *)
(* and not NoRow depends on who may delete it, and when.                   *)

ReportArgs ==
    \A h \in Handlers : Serves(h, "report") => handler[h].arg \in ReportCodes

\* What a worker is about to write is locked, and what is locked is there.
LocksHeld ==
    \A w \in Workers :
        /\ worker[w].pc # "admitting" => locks[w] = {}
        /\ worker[w].todo \union worker[w].started \union worker[w].rejected
              \subseteq locks[w]
        /\ \A r \in locks[w] : Exists(r)

\* The rows a reconciler works on are rows it loaded.
CopiesLoaded ==
    \A c \in Reconcilers :
        /\ \A r \in rec[c].todo : rec[c].loaded[r] # NoRow
        /\ rec[c].pc \in {"signalling", "deleting"} =>
              rec[c].at \in Runs /\ rec[c].loaded[rec[c].at] # NoRow
        /\ \A r \in Runs : rec[c].loaded[r] = NoRow <=> rec[c].copy[r] = NoRow

TypeInv == TypeOK /\ ReportArgs /\ LocksHeld /\ CopiesLoaded

LEMMA TypeInit == Init => TypeInv
<1> SUFFICES ASSUME Init PROVE TypeInv
  OBVIOUS
<1> USE DEF Init, StoreInit, ClusterInit, QueueInit, RequestInit, ReconcilerInit
<1>1. StoreTypeOK /\ ClusterTypeOK /\ resurrected \subseteq Runs
  BY FaultsAssumption DEF StoreTypeOK, ClusterTypeOK, JobPhases, PodStates
<1>2. QueueTypeOK /\ LocksHeld
  BY DEF QueueTypeOK, WorkerState, Idle, LocksHeld
<1>3. RequestTypeOK /\ ReportArgs
  BY DEF RequestTypeOK, ReportArgs, NoRequest, Serves
<1>4. ReconcilerTypeOK /\ CopiesLoaded
  BY DEF ReconcilerTypeOK, ReconcilerState, Resting, CopiesLoaded
<1> QED
  BY <1>1, <1>2, <1>3, <1>4 DEF TypeInv, TypeOK

\* The calls to the cluster keep its type.
LEMMA ClusterCallsTyped ==
    ASSUME ClusterTypeOK, NEW r \in Runs,
           \/ CreateRunJob(r) \/ SignalRunJobSigint(r) \/ DeleteRunJob(r)
           \/ UNCHANGED clusterVars
    PROVE  ClusterTypeOK'
BY DEF ClusterTypeOK, CreateRunJob, SignalRunJobSigint, DeleteRunJob,
       clusterVars, JobPhases, PodStates

\* A fault is counted up to its bound.
LEMMA FaultTyped ==
    ASSUME faults \in 0..MaxFaults, Fault \/ UNCHANGED faults
    PROVE  faults' \in 0..MaxFaults
BY FaultsAssumption DEF Fault

LEMMA QueueTyped ==
    ASSUME TypeInv, QueueNext, OfWorkers
    PROVE  TypeInv'
<1> USE DEF TypeInv, TypeOK
<1>1. RequestTypeOK' /\ ReconcilerTypeOK' /\ ReportArgs' /\ CopiesLoaded'
  BY DEF OfWorkers, RequestTypeOK, ReconcilerTypeOK, ReportArgs, Serves,
         CopiesLoaded
<1>2. (resurrected \subseteq Runs)'
  BY DEF OfWorkers, Record
<1> DEFINE Typed == StoreTypeOK' /\ ClusterTypeOK' /\ QueueTypeOK' /\ LocksHeld'
<1> SUFFICES Typed
  BY <1>1, <1>2
<1>3. PICK w \in Workers : WorkerStep(w) \/ AbortTick(w)
  BY DEF QueueNext
<1>4. CASE CountSlots(w)
  <2>1. StoreTypeOK' /\ ClusterTypeOK'
    BY <1>4 DEF CountSlots, StoreTypeOK, ClusterTypeOK, storeVars, clusterVars
  <2>2. QueueTypeOK'
    BY <1>4, FreeSlotsIsNat DEF CountSlots, QueueTypeOK, WorkerState, Idle
  <2>3. LocksHeld'
    BY <1>4 DEF CountSlots, LocksHeld, Exists, storeVars, QueueTypeOK,
                WorkerState, Idle
  <2> QED BY <2>1, <2>2, <2>3
<1>5. CASE SelectQueued(w)
  <2>1. PICK S \in SUBSET Runs :
           /\ IsSelection(w, S)
           /\ locks' = [locks EXCEPT ![w] = S]
           /\ worker' = [worker EXCEPT ![w].pc = "admitting", ![w].todo = S]
    BY <1>5 DEF SelectQueued
  <2>2. StoreTypeOK' /\ ClusterTypeOK'
    BY <1>5, <2>1 DEF SelectQueued, StoreTypeOK, ClusterTypeOK, clusterVars
  <2>3. QueueTypeOK'
    <3>1. UNCHANGED lost
      BY <1>5 DEF SelectQueued
    <3>2. [worker[w] EXCEPT !.pc = "admitting", !.todo = S] \in WorkerState
      BY DEF QueueTypeOK, WorkerState
    <3>3. worker' = [worker EXCEPT ![w] =
                        [worker[w] EXCEPT !.pc = "admitting", !.todo = S]]
      BY <2>1 DEF QueueTypeOK
    <3> QED BY <3>1, <3>2, <3>3 DEF QueueTypeOK
  <2>4. \A r \in S : Exists(r)
    BY <2>1 DEF IsSelection, Waiting
  <2>5. LocksHeld'
    BY <1>5, <2>1, <2>4 DEF SelectQueued, LocksHeld, Exists, QueueTypeOK,
                            WorkerState, StoreTypeOK
  <2> QED BY <2>2, <2>3, <2>5
<1>6. CASE SelectNothing(w)
  BY <1>6 DEF SelectNothing, StoreTypeOK, ClusterTypeOK, storeVars,
              clusterVars, QueueTypeOK, WorkerState, Idle, LocksHeld, Exists
<1>7. CASE CommitTick(w)
  <2>1. ClusterTypeOK'
    BY <1>7 DEF CommitTick, ClusterTypeOK, clusterVars
  <2>2. \A r \in Runs : AdmittedRow(w, r) \in Row \union {NoRow}
                        /\ (Exists(r) => AdmittedRow(w, r) # NoRow)
    <3> TAKE r \in Runs
    <3>1. CASE Exists(r)
      BY <3>1, AdmittedRowIsRow, RowAssumption DEF Exists, StoreTypeOK
    <3>2. CASE ~Exists(r)
      BY <3>2 DEF AdmittedRow, LocksHeld, Exists, StoreTypeOK
    <3> QED BY <3>1, <3>2
  <2>3. StoreTypeOK' /\ QueueTypeOK'
    BY <1>7, <2>2 DEF CommitTick, StoreTypeOK, QueueTypeOK, WorkerState, Idle
  <2>4. LocksHeld'
    BY <1>7, <2>2 DEF CommitTick, LocksHeld, Exists, StoreTypeOK, QueueTypeOK,
                      WorkerState, Idle
  <2> QED BY <2>1, <2>3, <2>4
<1>8. CASE AbortTick(w)
  <2>1. StoreTypeOK' /\ ClusterTypeOK'
    BY <1>8, FaultTyped DEF AbortTick, StoreTypeOK, ClusterTypeOK, clusterVars
  <2>2. QueueTypeOK'
    BY <1>8 DEF AbortTick, QueueTypeOK, WorkerState, Idle
  <2>3. LocksHeld'
    BY <1>8 DEF AbortTick, LocksHeld, Exists, StoreTypeOK, QueueTypeOK,
                WorkerState, Idle
  <2> QED BY <2>1, <2>2, <2>3
<1>9. ASSUME NEW r \in Runs, AdmitStarts(w, r) PROVE Typed
  <2>1. StoreTypeOK' /\ ClusterTypeOK'
    BY <1>9, ClusterCallsTyped DEF AdmitStarts, StoreTypeOK, storeVars
  <2>2. QueueTypeOK'
    <3> DEFINE next == [worker[w] EXCEPT !.todo = @ \ {r}, !.started = @ \union {r}]
    <3>1. worker[w] \in WorkerState
      BY DEF QueueTypeOK
    <3>2. worker' = [worker EXCEPT ![w] = next] /\ UNCHANGED lost
      BY <1>9 DEF AdmitStarts, QueueTypeOK
    <3>3. next \in WorkerState
      BY <3>1 DEF WorkerState
    <3> QED BY <3>2, <3>3 DEF QueueTypeOK
  <2>3. LocksHeld'
    BY <1>9 DEF AdmitStarts, IsNext, LocksHeld, Exists, storeVars, QueueTypeOK,
                WorkerState
  <2> QED BY <2>1, <2>2, <2>3
<1>10. ASSUME NEW r \in Runs, AdmitRefused(w, r) PROVE Typed
  <2>1. StoreTypeOK' /\ ClusterTypeOK'
    BY <1>10, ClusterCallsTyped, FaultTyped
       DEF AdmitRefused, CreateRunJobRefused, StoreTypeOK
  <2>2. QueueTypeOK'
    BY <1>10 DEF AdmitRefused, QueueTypeOK, WorkerState
  <2>3. LocksHeld'
    BY <1>10 DEF AdmitRefused, IsNext, LocksHeld, Exists, QueueTypeOK,
                 WorkerState
  <2> QED BY <2>1, <2>2, <2>3
<1>11. ASSUME NEW r \in Runs, ProfileMissing(w, r) PROVE Typed
  <2>1. StoreTypeOK' /\ ClusterTypeOK'
    BY <1>11 DEF ProfileMissing, StoreTypeOK, ClusterTypeOK, storeVars,
                 clusterVars
  <2>2. QueueTypeOK'
    <3> DEFINE next == [worker[w] EXCEPT !.todo = @ \ {r}, !.rejected = @ \union {r}]
    <3>1. worker[w] \in WorkerState
      BY DEF QueueTypeOK
    <3>2. worker' = [worker EXCEPT ![w] = next] /\ UNCHANGED lost
      BY <1>11 DEF ProfileMissing, QueueTypeOK
    <3>3. next \in WorkerState
      BY <3>1 DEF WorkerState
    <3> QED BY <3>2, <3>3 DEF QueueTypeOK
  <2>3. LocksHeld'
    BY <1>11 DEF ProfileMissing, IsNext, LocksHeld, Exists, storeVars,
                 QueueTypeOK, WorkerState
  <2> QED BY <2>1, <2>2, <2>3
<1> QED
  BY <1>3, <1>4, <1>5, <1>6, <1>7, <1>8, <1>9, <1>10, <1>11 DEF WorkerStep

\* A commit of a handler leaves rows, and takes none away.
LEMMA WriteTyped ==
    ASSUME StoreTypeOK, NEW h \in Handlers, handler[h].run \in Runs,
           handler[h].loaded \in Row, NEW copy \in Row, Write(h, copy)
    PROVE  /\ rows' \in [Runs -> Row \union {NoRow}]
           /\ \A r \in Runs : Exists(r) => Exists(r)'
<1> DEFINE r == handler[h].run
           row == IF Exists(r) THEN Flush(rows[r], handler[h].loaded, copy)
                               ELSE NoRow
<1>1. rows' = [rows EXCEPT ![r] = row]
  BY DEF Write
<1>2. row \in Row \union {NoRow} /\ (Exists(r) => row # NoRow)
  BY FlushIsRow, RowAssumption DEF StoreTypeOK, Exists
<1> HIDE DEF row
<1> QED BY <1>1, <1>2 DEF StoreTypeOK, Exists

\* A request that begins is well typed; what it carries matters to a report.
LEMMA BeginTyped ==
    ASSUME RequestTypeOK, ReportArgs, NEW h \in Handlers, NEW op \in Ops,
           NEW r \in Runs, NEW loaded \in Row,
           NEW arg \in {"none"} \union StatusValues \union ReportCodes,
           op = "report" => arg \in ReportCodes, Begin(h, op, r, loaded, arg)
    PROVE  RequestTypeOK' /\ ReportArgs'
BY DEF RequestTypeOK, ReportArgs, Begin, Request, Serves

LEMMA DoneTyped ==
    ASSUME RequestTypeOK, ReportArgs, NEW h \in Handlers, Done(h)
    PROVE  RequestTypeOK' /\ ReportArgs'
BY DEF RequestTypeOK, ReportArgs, Done, NoRequest, Serves

LEMMA SignalTyped ==
    ASSUME RequestTypeOK, ReportArgs, NEW h \in Handlers, Serves(h, "cancel"),
           Goto(h, "signal")
    PROVE  RequestTypeOK' /\ ReportArgs'
<1>1. handler[h] \in Request
  BY DEF Serves, RequestTypeOK, NoRequest
<1>2. [handler[h] EXCEPT !.op = "signal"] \in Request
  BY <1>1 DEF Request, Ops
<1>3. handler' = [handler EXCEPT ![h] = [handler[h] EXCEPT !.op = "signal"]]
  BY DEF Goto, RequestTypeOK
<1>4. [handler[h] EXCEPT !.op = "signal"].op = "signal"
  BY <1>1 DEF Request
<1> QED BY <1>2, <1>3, <1>4 DEF RequestTypeOK, ReportArgs, Serves

\* A handler that serves a request has its run and the row it loaded.
LEMMA ServedIsRequest ==
    ASSUME RequestTypeOK, NEW h \in Handlers, handler[h] # NoRequest
    PROVE  /\ handler[h] \in Request
           /\ handler[h].run \in Runs
           /\ handler[h].loaded \in Row
BY DEF RequestTypeOK, Request

\* Nothing becomes untrue of the locked rows when no row is taken away that
\* is locked.
LEMMA LocksStayHeld ==
    ASSUME LocksHeld, StoreTypeOK, UNCHANGED <<queueVars, locks>>,
           \A r \in Runs : Exists(r) /\ Locked(r) => Exists(r)'
    PROVE  LocksHeld'
BY DEF LocksHeld, queueVars, Locked, StoreTypeOK

LEMMA RequestTyped ==
    ASSUME TypeInv, RequestNext, OfHandlers
    PROVE  TypeInv'
<1> USE DEF TypeInv, TypeOK
<1> DEFINE Typed == /\ StoreTypeOK' /\ ClusterTypeOK'
                    /\ RequestTypeOK' /\ ReportArgs'
                    /\ UNCHANGED locks
                    /\ \A r \in Runs : Exists(r) /\ Locked(r) => Exists(r)'
<1>1. QueueTypeOK' /\ ReconcilerTypeOK' /\ CopiesLoaded'
  BY DEF OfHandlers, queueVars, QueueTypeOK, ReconcilerTypeOK, CopiesLoaded
<1>2. (resurrected \subseteq Runs)'
  BY DEF OfHandlers, Record
<1> SUFFICES Typed
  BY <1>1, <1>2, LocksStayHeld DEF OfHandlers
<1>3. PICK h \in Handlers :
         RequestArrives(h) \/ RequestStep(h) \/ RequestLost(h)
  BY DEF RequestNext
<1>4. ASSUME NEW r \in Runs, CreateBegin(h, r) PROVE Typed
  <2>1. 1 + Cardinality({q \in Runs : created[q] # 0}) \in Nat
    BY RunsFinite, FS_Subset, FS_CardinalityType
  <2>2. StoreTypeOK' /\ ClusterTypeOK'
    BY <1>4, <2>1 DEF CreateBegin, StoreTypeOK, ClusterTypeOK, clusterVars
  <2>3. RequestTypeOK' /\ ReportArgs'
    BY <1>4, BeginTyped, NewRowsAreRows DEF CreateBegin, Ops
  <2> QED BY <1>4, <2>2, <2>3 DEF CreateBegin, Exists
<1>5. ASSUME NEW r \in Runs, CancelBegin(h, r) \/ DeleteBegin(h, r)
      PROVE  Typed
  <2>1. UNCHANGED <<storeVars, clusterVars>> /\ Exists(r)
    BY <1>5 DEF CancelBegin, DeleteBegin
  <2>2. RequestTypeOK' /\ ReportArgs'
    BY <1>5, <2>1, BeginTyped
       DEF CancelBegin, DeleteBegin, Exists, Ops, StoreTypeOK
  <2> QED BY <2>1, <2>2 DEF storeVars, clusterVars, StoreTypeOK,
                            ClusterTypeOK, Exists
<1>6. ASSUME NEW r \in Runs, NEW s \in StatusValues, StatusBegin(h, r, s)
      PROVE  Typed
  <2>1. RequestTypeOK' /\ ReportArgs'
    BY <1>6, BeginTyped DEF StatusBegin, Exists, Ops, StoreTypeOK
  <2> QED BY <1>6, <2>1 DEF StatusBegin, storeVars, clusterVars, StoreTypeOK,
                            ClusterTypeOK, Exists
<1>7. ASSUME NEW r \in Runs, NEW code \in ReportCodes, ReportBegin(h, r, code)
      PROVE  Typed
  <2>1. RequestTypeOK' /\ ReportArgs'
    BY <1>7, BeginTyped DEF ReportBegin, Exists, Ops, StoreTypeOK
  <2> QED BY <1>7, <2>1 DEF ReportBegin, storeVars, clusterVars, StoreTypeOK,
                            ClusterTypeOK, Exists
<1>8. CASE CreateStartsJob(h)
  <2>1. handler[h].run \in Runs
    BY <1>8, ServedIsRequest DEF CreateStartsJob, Serves, NoRequest
  <2>2. RequestTypeOK' /\ ReportArgs'
    BY <1>8, <2>1, BeginTyped, NewRowsAreRows DEF CreateStartsJob, Ops
  <2>3. StoreTypeOK' /\ ClusterTypeOK'
    BY <1>8, <2>1, ClusterCallsTyped DEF CreateStartsJob, storeVars, StoreTypeOK
  <2> QED BY <1>8, <2>2, <2>3 DEF CreateStartsJob, storeVars, Exists
<1>9. CASE CreateRefused(h)
  <2>1. RequestTypeOK' /\ ReportArgs'
    BY <1>9, DoneTyped DEF CreateRefused
  <2>2. StoreTypeOK' /\ ClusterTypeOK'
    BY <1>9, FaultTyped
       DEF CreateRefused, CreateRunJobRefused, clusterVars, StoreTypeOK,
           ClusterTypeOK
  <2> QED BY <1>9, <2>1, <2>2 DEF CreateRefused, Exists
<1>10. CASE CreateCommit(h)
  <2>1. handler[h].run \in Runs /\ handler[h].loaded \in Row
    BY <1>10, ServedIsRequest DEF CreateCommit, Serves, NoRequest
  <2>2. RequestTypeOK' /\ ReportArgs'
    BY <1>10, DoneTyped DEF CreateCommit
  <2>3. StoreTypeOK' /\ ClusterTypeOK'
    BY <1>10, <2>1 DEF CreateCommit, clusterVars, StoreTypeOK, ClusterTypeOK
  <2>4. \A r \in Runs : Exists(r) => Exists(r)'
    BY <1>10, <2>1, RowAssumption DEF CreateCommit, StoreTypeOK, Exists
  <2> QED BY <1>10, <2>2, <2>3, <2>4 DEF CreateCommit
<1>11. CASE CancelCommit(h)
  <2>1. handler[h].run \in Runs /\ handler[h].loaded \in Row
    BY <1>11, ServedIsRequest DEF CancelCommit, Serves, NoRequest
  <2>2. RequestTypeOK' /\ ReportArgs'
    BY <1>11, DoneTyped, SignalTyped DEF CancelCommit
  <2>3. /\ rows' \in [Runs -> Row \union {NoRow}]
        /\ \A r \in Runs : Exists(r) => Exists(r)'
    BY <1>11, <2>1, WriteTyped, RequestCopiesAreRows DEF CancelCommit
  <2> QED BY <1>11, <2>2, <2>3
          DEF CancelCommit, clusterVars, StoreTypeOK, ClusterTypeOK
<1>12. CASE CancelSignal(h)
  <2>1. handler[h].run \in Runs
    BY <1>12, ServedIsRequest DEF CancelSignal, Serves, NoRequest
  <2>2. RequestTypeOK' /\ ReportArgs'
    BY <1>12, DoneTyped DEF CancelSignal
  <2>3. StoreTypeOK' /\ ClusterTypeOK'
    BY <1>12, <2>1, FaultTyped, ClusterCallsTyped DEF CancelSignal, StoreTypeOK
  <2> QED BY <1>12, <2>2, <2>3 DEF CancelSignal, Exists
<1>13. CASE DeleteCommit(h)
  <2>1. RequestTypeOK' /\ ReportArgs'
    BY <1>13, DoneTyped DEF DeleteCommit
  <2>2. StoreTypeOK' /\ ClusterTypeOK'
    BY <1>13 DEF DeleteCommit, clusterVars, StoreTypeOK, ClusterTypeOK
  <2>3. \A r \in Runs : Exists(r) /\ Locked(r) => Exists(r)'
    BY <1>13 DEF DeleteCommit, CanCommit, StoreTypeOK, Exists
  <2> QED BY <1>13, <2>1, <2>2, <2>3 DEF DeleteCommit
<1>14. CASE StatusCommit(h)
  <2> DEFINE r == handler[h].run
             copy == StatusCopy(handler[h].loaded, handler[h].arg)
             row == IF Exists(r)
                    THEN [Flush(rows[r], handler[h].loaded, copy)
                             EXCEPT !.fresh = TRUE]
                    ELSE NoRow
  <2>1. r \in Runs /\ handler[h].loaded \in Row
    BY <1>14, ServedIsRequest DEF StatusCommit, Serves, NoRequest
  <2>2. RequestTypeOK' /\ ReportArgs'
    BY <1>14, DoneTyped DEF StatusCommit
  <2>3. copy \in Row
    BY <2>1, RequestCopiesAreRows
  <2>4. /\ rows' = [rows EXCEPT ![r] = row]
        /\ UNCHANGED <<created, locks, faults, clusterVars>>
    BY <1>14 DEF StatusCommit
  <2> HIDE DEF copy
  <2>5. row \in Row \union {NoRow} /\ (Exists(r) => row # NoRow)
    BY <2>1, <2>3, FlushIsRow, AgedRowsAreRows, RowAssumption
       DEF StoreTypeOK, Exists
  <2> HIDE DEF row
  <2>6. StoreTypeOK' /\ ClusterTypeOK' /\ UNCHANGED locks
    BY <2>1, <2>4, <2>5 DEF clusterVars, StoreTypeOK, ClusterTypeOK
  <2>7. \A q \in Runs : Exists(q) => Exists(q)'
    BY <2>1, <2>4, <2>5 DEF StoreTypeOK, Exists
  <2> QED BY <2>2, <2>6, <2>7
<1>15. CASE ReportCommit(h)
  <2>1. handler[h].run \in Runs /\ handler[h].loaded \in Row
    BY <1>15, ServedIsRequest DEF ReportCommit, Serves, NoRequest
  <2>2. handler[h].arg \in ReportCodes
    BY <1>15 DEF ReportCommit, ReportArgs
  <2>3. RequestTypeOK' /\ ReportArgs'
    BY <1>15, DoneTyped DEF ReportCommit
  <2>4. /\ rows' \in [Runs -> Row \union {NoRow}]
        /\ \A r \in Runs : Exists(r) => Exists(r)'
    BY <1>15, <2>1, <2>2, WriteTyped, RequestCopiesAreRows DEF ReportCommit
  <2> QED BY <1>15, <2>3, <2>4
          DEF ReportCommit, clusterVars, StoreTypeOK, ClusterTypeOK
<1>16. CASE RequestLost(h)
  <2>1. RequestTypeOK' /\ ReportArgs'
    BY <1>16, DoneTyped DEF RequestLost
  <2> QED BY <1>16, <2>1, FaultTyped
          DEF RequestLost, clusterVars, StoreTypeOK, ClusterTypeOK, Exists
<1> QED
  BY <1>3, <1>4, <1>5, <1>6, <1>7, <1>8, <1>9, <1>10, <1>11, <1>12, <1>13,
     <1>14, <1>15, <1>16 DEF RequestArrives, RequestStep

\* What a look at one row leaves in the reconciler's local variables.
LEMMA ExamineUpdates ==
    ASSUME ReconcilerTypeOK, NEW c \in Reconcilers, NEW r \in Runs,
           Examine(c, r)
    PROVE  LET row   == rec[c].loaded[r]
               phase == GetJobPhase(r)
           IN  rec' = [rec EXCEPT ![c] = [rec[c] EXCEPT
                  !.todo = @ \ {r},
                  !.at = IF phase = "active" THEN r ELSE NoRow,
                  !.pc = AfterExamine(row, phase),
                  !.copy[r] = IF phase = "active" THEN rec[c].copy[r]
                                                  ELSE Verdict(row, phase)]]
BY DEF Examine, ReconcilerTypeOK, ReconcilerState

LEMMA ReconcilerTyped ==
    ASSUME TypeInv, ReconcilerNext, OfReconcilers
    PROVE  TypeInv'
<1> USE DEF TypeInv, TypeOK
<1> DEFINE Typed == /\ StoreTypeOK' /\ ClusterTypeOK'
                    /\ ReconcilerTypeOK' /\ CopiesLoaded'
                    /\ UNCHANGED locks
                    /\ \A r \in Runs : Exists(r) => Exists(r)'
<1>1. QueueTypeOK' /\ RequestTypeOK' /\ ReportArgs'
  BY DEF OfReconcilers, queueVars, QueueTypeOK, RequestTypeOK, ReportArgs,
         Serves
<1>2. (resurrected \subseteq Runs)'
  BY DEF OfReconcilers, Record
<1> SUFFICES Typed
  BY <1>1, <1>2, LocksStayHeld DEF OfReconcilers
<1>3. PICK c \in Reconcilers : ReconcilerStep(c) \/ ReconcileAbort(c)
  BY DEF ReconcilerNext
<1>4. rec[c] \in ReconcilerState
  BY DEF ReconcilerTypeOK
<1>5. CASE ReconcileSelect(c)
  <2> DEFINE copies == [r \in Runs |-> IF r \in Active THEN rows[r] ELSE NoRow]
             next == [pc |-> "looping", todo |-> Active, at |-> NoRow,
                      loaded |-> copies, copy |-> copies]
  <2>1. rec' = [rec EXCEPT ![c] = next] /\ UNCHANGED <<storeVars, clusterVars>>
    BY <1>5 DEF ReconcileSelect
  <2>2. copies \in [Runs -> Row \union {NoRow}]
    BY DEF StoreTypeOK
  <2>3. \A r \in Active : copies[r] # NoRow
    BY DEF Active, HoldsSlot, Exists
  <2>4. next \in ReconcilerState
    BY <2>2 DEF ReconcilerState, Active
  <2>5. ReconcilerTypeOK' /\ CopiesLoaded'
    BY <2>1, <2>3, <2>4 DEF ReconcilerTypeOK, CopiesLoaded
  <2> QED BY <2>1, <2>5 DEF storeVars, clusterVars, StoreTypeOK,
                            ClusterTypeOK, Exists
<1>6. ASSUME NEW r \in Runs, Examine(c, r) PROVE Typed
  <2> DEFINE row   == rec[c].loaded[r]
             phase == GetJobPhase(r)
             copy  == IF phase = "active" THEN rec[c].copy[r]
                                          ELSE Verdict(row, phase)
             next  == [rec[c] EXCEPT
                         !.todo = @ \ {r},
                         !.at = IF phase = "active" THEN r ELSE NoRow,
                         !.pc = AfterExamine(row, phase),
                         !.copy[r] = copy]
  <2>1. /\ rec[c].pc = "looping" /\ r \in rec[c].todo
        /\ UNCHANGED <<storeVars, clusterVars>>
    BY <1>6 DEF Examine
  <2>2. rec' = [rec EXCEPT ![c] = next]
    BY <1>6, ExamineUpdates
  <2>3. row \in Row
    BY <1>4, <2>1 DEF CopiesLoaded, ReconcilerState
  <2>4. copy \in Row
    <3>1. rec[c].copy[r] \in Row \union {NoRow}
      BY <1>4 DEF ReconcilerState
    <3>2. rec[c].copy[r] # NoRow
      BY <2>3, RowAssumption DEF CopiesLoaded
    <3> QED BY <2>3, <3>1, <3>2, DecisionsAreRows
  <2>5. /\ AfterExamine(row, phase) \in {"looping", "signalling", "deleting"}
        /\ AfterExamine(row, phase) # "looping" => phase = "active"
    BY DEF AfterExamine
  <2> HIDE DEF copy, row, phase
  <2>6. /\ next \in ReconcilerState
        /\ next.todo = rec[c].todo \ {r}
        /\ next.at = IF phase = "active" THEN r ELSE NoRow
        /\ next.pc = AfterExamine(row, phase)
        /\ next.loaded = rec[c].loaded
        /\ next.copy = [rec[c].copy EXCEPT ![r] = copy]
    BY <1>4, <2>4, <2>5 DEF ReconcilerState
  <2> HIDE DEF next
  <2>7. ReconcilerTypeOK'
    BY <2>2, <2>6 DEF ReconcilerTypeOK
  <2>8. CopiesLoaded'
    BY <1>4, <2>2, <2>3, <2>4, <2>5, <2>6, RowAssumption
       DEF ReconcilerTypeOK, CopiesLoaded, ReconcilerState, row
  <2> QED BY <2>1, <2>7, <2>8 DEF storeVars, clusterVars, StoreTypeOK,
                                  ClusterTypeOK, Exists
<1>7. CASE ReSignal(c)
  <2> DEFINE r    == rec[c].at
             next == [rec[c] EXCEPT !.pc = AfterReSignal(rec[c].loaded[r])]
  <2>1. r \in Runs
    BY <1>7 DEF ReSignal, CopiesLoaded
  <2>2. rec' = [rec EXCEPT ![c] = next]
    BY <1>7 DEF ReSignal
  <2>3. rec[c].pc = "signalling"
    BY <1>7 DEF ReSignal
  <2>4. StoreTypeOK' /\ ClusterTypeOK' /\ UNCHANGED <<rows, locks>>
    BY <1>7, <2>1, FaultTyped, ClusterCallsTyped DEF ReSignal, StoreTypeOK
  <2>5. AfterReSignal(rec[c].loaded[r]) \in {"looping", "deleting"}
    BY DEF AfterReSignal
  <2>6. ReconcilerTypeOK' /\ CopiesLoaded'
    BY <1>4, <2>2, <2>3, <2>5
       DEF ReconcilerTypeOK, CopiesLoaded, ReconcilerState
  <2> QED BY <2>4, <2>6 DEF Exists
<1>8. CASE DeleteJob(c)
  <2> DEFINE r    == rec[c].at
             copy == HardStop(rec[c].loaded[r])
             next == [rec[c] EXCEPT !.pc = "looping", !.copy[r] = copy]
  <2>1. r \in Runs /\ rec[c].loaded[r] # NoRow
    BY <1>8 DEF DeleteJob, CopiesLoaded
  <2>2. rec' = [rec EXCEPT ![c] = next]
    BY <1>4, <1>8 DEF DeleteJob, ReconcilerTypeOK, ReconcilerState
  <2>3. copy \in Row
    BY <1>4, <2>1, DecisionsAreRows DEF ReconcilerState
  <2>4. StoreTypeOK' /\ ClusterTypeOK' /\ UNCHANGED <<rows, locks>>
    BY <1>8, <2>1, FaultTyped, ClusterCallsTyped DEF DeleteJob, StoreTypeOK
  <2> HIDE DEF copy
  <2>5. /\ next \in ReconcilerState
        /\ next.todo = rec[c].todo
        /\ next.pc = "looping"
        /\ next.loaded = rec[c].loaded
        /\ next.copy = [rec[c].copy EXCEPT ![r] = copy]
    BY <1>4, <2>1, <2>3 DEF ReconcilerState
  <2> HIDE DEF next
  <2>6. ReconcilerTypeOK' /\ CopiesLoaded'
    BY <1>4, <2>1, <2>2, <2>3, <2>5, RowAssumption
       DEF ReconcilerTypeOK, CopiesLoaded, ReconcilerState
  <2> QED BY <2>4, <2>6 DEF Exists
<1>9. CASE ReconcileCommit(c)
  <2>1. /\ rec' = [rec EXCEPT ![c] = Resting]
        /\ UNCHANGED <<created, locks, faults, clusterVars>>
    BY <1>9 DEF ReconcileCommit
  <2>2. ReconcilerTypeOK' /\ CopiesLoaded'
    BY <2>1 DEF ReconcilerTypeOK, CopiesLoaded, ReconcilerState, Resting
  <2>3. \A r \in Changed(c) : rec[c].loaded[r] \in Row /\ rec[c].copy[r] \in Row
    BY <1>4 DEF Changed, CopiesLoaded, ReconcilerState
  <2>4. /\ rows' \in [Runs -> Row \union {NoRow}]
        /\ \A r \in Runs : Exists(r) => Exists(r)'
    <3>1. CASE \A r \in Changed(c) : Exists(r)
      <4>1. rows' = [r \in Runs |->
                        IF r \in Changed(c)
                        THEN Flush(rows[r], rec[c].loaded[r], rec[c].copy[r])
                        ELSE rows[r]]
        BY <1>9, <3>1 DEF ReconcileCommit
      <4>2. \A r \in Changed(c) :
               Flush(rows[r], rec[c].loaded[r], rec[c].copy[r]) \in Row
        BY <2>3, <3>1, FlushIsRow DEF StoreTypeOK, Exists, Changed
      <4> QED BY <4>1, <4>2, RowAssumption DEF StoreTypeOK, Exists
    <3>2. CASE ~ \A r \in Changed(c) : Exists(r)
      BY <1>9, <3>2 DEF ReconcileCommit, StoreTypeOK, Exists
    <3> QED BY <3>1, <3>2
  <2> QED BY <2>1, <2>2, <2>4 DEF clusterVars, StoreTypeOK, ClusterTypeOK
<1>10. CASE ReconcileAbort(c)
  <2>1. ReconcilerTypeOK' /\ CopiesLoaded'
    BY <1>10 DEF ReconcileAbort, ReconcilerTypeOK, CopiesLoaded,
                 ReconcilerState, Resting
  <2> QED BY <1>10, <2>1, FaultTyped
          DEF ReconcileAbort, clusterVars, StoreTypeOK, ClusterTypeOK, Exists
<1> QED
  BY <1>3, <1>5, <1>6, <1>7, <1>8, <1>9, <1>10 DEF ReconcilerStep

LEMMA EnvironmentTyped ==
    ASSUME TypeInv, Environment, OfEnvironment
    PROVE  TypeInv'
<1> USE DEF TypeInv, TypeOK
<1>1. /\ QueueTypeOK' /\ RequestTypeOK' /\ ReportArgs'
      /\ ReconcilerTypeOK' /\ CopiesLoaded' /\ (resurrected \subseteq Runs)'
  BY DEF OfEnvironment, queueVars, QueueTypeOK, RequestTypeOK, ReportArgs,
         Serves, ReconcilerTypeOK, CopiesLoaded, Record
<1>2. PICK r \in Runs :
         PodStarts(r) \/ PodEnds(r) \/ JobExpires(r) \/ TimePasses(r)
  BY DEF Environment
<1>3. ClusterTypeOK'
  BY <1>2 DEF PodStarts, PodEnds, JobExpires, TimePasses, ClusterTypeOK,
              JobPhases, PodStates, clusterVars
<1>4. /\ StoreTypeOK' /\ UNCHANGED locks
      /\ \A q \in Runs : Exists(q) => Exists(q)'
  <2>1. CASE UNCHANGED storeVars
    BY <2>1 DEF storeVars, StoreTypeOK, Exists
  <2>2. CASE StatusGoesStale(r) \/ GraceElapses(r)
    <3>1. rows[r] \in Row
      BY <2>2 DEF StatusGoesStale, GraceElapses, HoldsSlot, Exists, StoreTypeOK
    <3>2. PICK row \in Row : rows' = [rows EXCEPT ![r] = row]
      BY <2>2, <3>1, AgedRowsAreRows DEF StatusGoesStale, GraceElapses
    <3>3. UNCHANGED <<created, locks, faults>>
      BY <2>2 DEF StatusGoesStale, GraceElapses
    <3> QED BY <3>2, <3>3, RowAssumption DEF StoreTypeOK, Exists
  <2> QED BY <1>2, <2>1, <2>2 DEF PodStarts, PodEnds, JobExpires, TimePasses
<1>5. LocksHeld'
  BY <1>4, LocksStayHeld DEF OfEnvironment
<1> QED BY <1>1, <1>3, <1>4, <1>5

\* Every step keeps TypeInv.
LEMMA TypeStep == TypeInv /\ [Next]_vars => TypeInv'
<1>1. ASSUME TypeInv, UNCHANGED vars PROVE TypeInv'
  BY <1>1 DEF TypeInv, TypeOK, vars, storeVars, clusterVars, queueVars,
              StoreTypeOK, ClusterTypeOK, QueueTypeOK, RequestTypeOK,
              ReconcilerTypeOK, ReportArgs, Serves, LocksHeld, CopiesLoaded,
              Exists
<1> QED BY <1>1, QueueTyped, RequestTyped, ReconcilerTyped, EnvironmentTyped
        DEF Next

\* Every variable stays in its type, for any number of runs, replicas,
\* handlers and reconcilers, and of faults: nobody writes half a row, a copy
\* of a row that was never loaded, or a status that is none.
THEOREM TypeCorrect == Spec => []TypeOK
<1>1. TypeInv => TypeOK
  BY DEF TypeInv
<1> QED BY <1>1, TypeInit, TypeStep, PTL DEF Spec
=============================================================================
