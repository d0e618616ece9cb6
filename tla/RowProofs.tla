------------------------------ MODULE RowProofs ------------------------------
(***************************************************************************)
(* What old copies cannot do to a row.  Everybody writes from a copy that  *)
(* may be arbitrarily old; finished_at and the finish code of a cancel     *)
(* survive because two columns only ever go one way, finished_at and       *)
(* cancel_requested_at.  A copy that has them set was loaded from a row    *)
(* that had them set, and that row still has: every copy lags behind.      *)
(* This needs run ids to be used once, since a row that is created anew    *)
(* would be behind the copies of its predecessor.                          *)
(***************************************************************************)
EXTENDS RunLifecycleProofs

\* The columns of an older version that every later one keeps.
Lags(old, now) == /\ old.finished => now.finished
                  /\ old.cancel # "no" => now.cancel # "no"

\* A PDE report may carry any code; unless it fakes this one, it means what
\* the operator means by it.
RowSound(row) ==
    /\ row.status \in TERMINAL_STATUSES => row.finished
    /\ "RUN_CANCELLED" \notin ReportCodes =>
          (row.code = "RUN_CANCELLED" => row.cancel # "no")

\* What a service does to the copy it loaded before it writes it.
SoundChange(loaded, copy) ==
    /\ Lags(loaded, copy)
    /\ copy.status \in TERMINAL_STATUSES /\ copy.status # loaded.status
          => copy.finished
    /\ "RUN_CANCELLED" \notin ReportCodes =>
          (copy.code = "RUN_CANCELLED" /\ copy.code # loaded.code
              => loaded.cancel # "no")

-----------------------------------------------------------------------------

LEMMA FlushSound ==
    ASSUME NEW current \in Row, NEW loaded \in Row, NEW copy \in Row,
           RowSound(current), Lags(loaded, current), SoundChange(loaded, copy)
    PROVE  /\ RowSound(Flush(current, loaded, copy))
           /\ Lags(current, Flush(current, loaded, copy))
<1> DEFINE new == Flush(current, loaded, copy)
<1>1. /\ new.status = Column(current.status, loaded.status, copy.status)
      /\ new.finished = Column(current.finished, loaded.finished, copy.finished)
      /\ new.cancel = Column(current.cancel, loaded.cancel, copy.cancel)
      /\ new.code = Column(current.code, loaded.code, copy.code)
  BY DEF Flush
<1>2. Lags(current, new)
  BY <1>1 DEF Lags, SoundChange, Column, Row
<1>3. new.status \in TERMINAL_STATUSES => new.finished
  BY <1>1 DEF Lags, SoundChange, RowSound, Column, Row
<1>4. ASSUME "RUN_CANCELLED" \notin ReportCodes, new.code = "RUN_CANCELLED"
      PROVE  new.cancel # "no"
  BY <1>1, <1>4 DEF Lags, SoundChange, RowSound, Column, Row
<1> QED BY <1>2, <1>3, <1>4 DEF RowSound

LEMMA RequestChangesSound ==
    ASSUME NEW row \in Row
    PROVE  /\ SoundChange(row, CancelledCopy(row))
           /\ \A s : SoundChange(row, StatusCopy(row, s))
           /\ \A code \in ReportCodes : SoundChange(row, ReportCopy(row, code))
<1>1. SoundChange(row, CancelledCopy(row))
  BY DEF CancelledCopy, SoundChange, Lags, Row
<1>2. ASSUME NEW s PROVE SoundChange(row, StatusCopy(row, s))
  BY DEF StatusCopy, SoundChange, Lags, Row
<1>3. ASSUME NEW code \in ReportCodes
      PROVE  SoundChange(row, ReportCopy(row, code))
  BY DEF ReportCopy, SoundChange, Lags, Row
<1> QED BY <1>1, <1>2, <1>3

LEMMA DecisionsSound ==
    ASSUME NEW row \in Row
    PROVE  /\ \A phase : SoundChange(row, Verdict(row, phase))
           /\ SoundChange(row, HardStop(row))
           /\ SoundChange(row, row)
<1>1. ASSUME NEW phase PROVE SoundChange(row, Verdict(row, phase))
  BY DEF Verdict, CodeUnlessSet, SoundChange, Lags, Row
<1>2. SoundChange(row, HardStop(row))
  BY DEF HardStop, SoundChange, Lags, Row
<1>3. SoundChange(row, row)
  BY DEF SoundChange, Lags
<1> QED BY <1>1, <1>2, <1>3

LEMMA AdmittedRowSound ==
    ASSUME NEW w, NEW r, rows[r] \in Row, RowSound(rows[r])
    PROVE  /\ RowSound(AdmittedRow(w, r))
           /\ Lags(rows[r], AdmittedRow(w, r))
BY DEF AdmittedRow, RowSound, Lags, Row, TERMINAL_STATUSES

LEMMA NewRowsSound ==
    /\ RowSound(NewRow)
    /\ RowSound([NewRow EXCEPT !.job = TRUE, !.status = "NOT_STARTED"])
BY DEF RowSound, NewRow, TERMINAL_STATUSES

-----------------------------------------------------------------------------
(* The invariant.                                                          *)

Busy(h)     == handler[h] # NoRequest
Creating(h) == handler[h].op \in {"create", "createdJob"}

RowsSound == \A r \in Runs : Exists(r) => RowSound(rows[r])

\* Nobody knows a run whose id has not been drawn, and only the request that
\* creates a run knows it before its row is there.
IdsUsedOnce ==
    /\ \A r \in Runs : created[r] = 0 =>
          /\ ~Exists(r)
          /\ \A h \in Handlers : Busy(h) => handler[h].run # r
          /\ \A c \in Reconcilers : rec[c].loaded[r] = NoRow
    /\ \A h \in Handlers : Creating(h) =>
          /\ created[handler[h].run] # 0
          /\ ~Exists(handler[h].run)
          /\ RowSound(handler[h].loaded)
          /\ \A g \in Handlers \ {h} : Busy(g) => handler[g].run # handler[h].run
          /\ \A c \in Reconcilers : rec[c].loaded[handler[h].run] = NoRow

CopiesLag ==
    /\ \A h \in Handlers : Busy(h) /\ Exists(handler[h].run) =>
          Lags(handler[h].loaded, rows[handler[h].run])
    /\ \A c \in Reconcilers, r \in Runs :
          rec[c].loaded[r] # NoRow /\ Exists(r) =>
             Lags(rec[c].loaded[r], rows[r])

DecisionsAreSound ==
    \A c \in Reconcilers, r \in Runs :
        rec[c].loaded[r] # NoRow =>
            SoundChange(rec[c].loaded[r], rec[c].copy[r])

RowInv == RowsSound /\ IdsUsedOnce /\ CopiesLag /\ DecisionsAreSound

LEMMA RowInit == Init => RowInv
BY DEF Init, StoreInit, RequestInit, ReconcilerInit, RowInv, RowsSound,
       IdsUsedOnce, CopiesLag, DecisionsAreSound, Exists, Busy, Creating,
       NoRequest, Resting

\* What a step does to the rows that are there before and after it.
RowsGrow ==
    \A r \in Runs :
        Exists(r)' => /\ Exists(r)
                      /\ RowSound(rows'[r])
                      /\ Lags(rows[r], rows'[r])

LEMMA LagsTransitive ==
    ASSUME NEW a \in Row, NEW b \in Row, NEW c \in Row, Lags(a, b), Lags(b, c)
    PROVE  Lags(a, c)
BY DEF Lags

LEMMA UnchangedRowsGrow ==
    ASSUME RowsSound, UNCHANGED rows
    PROVE  RowsGrow
BY DEF RowsSound, RowsGrow, Exists, Lags

\* When rows grow, a copy that was behind stays behind.
LEMMA CopiesStayBehind ==
    ASSUME TypeInv, TypeInv', CopiesLag, RowsGrow
    PROVE  /\ \A h \in Handlers : Busy(h) /\ rows'[handler[h].run] # NoRow =>
                 Lags(handler[h].loaded, rows'[handler[h].run])
           /\ \A c \in Reconcilers, r \in Runs :
                 rec[c].loaded[r] # NoRow /\ Exists(r)' =>
                     Lags(rec[c].loaded[r], rows'[r])
<1> USE DEF TypeInv, TypeOK
<1>1. \A r \in Runs : Exists(r)' => rows[r] \in Row /\ rows'[r] \in Row
  BY DEF RowsGrow, Exists, StoreTypeOK
<1>2. ASSUME NEW h \in Handlers, Busy(h), rows'[handler[h].run] # NoRow
      PROVE  Lags(handler[h].loaded, rows'[handler[h].run])
  <2>1. handler[h].run \in Runs /\ handler[h].loaded \in Row
    BY <1>2, ServedIsRequest DEF Busy
  <2>2. Lags(handler[h].loaded, rows[handler[h].run])
    BY <1>2, <2>1 DEF CopiesLag, RowsGrow, Exists
  <2> QED BY <1>1, <1>2, <2>1, <2>2, LagsTransitive DEF RowsGrow, Exists
<1>3. ASSUME NEW c \in Reconcilers, NEW r \in Runs,
             rec[c].loaded[r] # NoRow, Exists(r)'
      PROVE  Lags(rec[c].loaded[r], rows'[r])
  <2>1. rec[c].loaded[r] \in Row
    BY <1>3 DEF ReconcilerTypeOK, ReconcilerState
  <2>2. Lags(rec[c].loaded[r], rows[r])
    BY <1>3 DEF CopiesLag, RowsGrow
  <2> QED BY <1>1, <1>3, <2>1, <2>2, LagsTransitive DEF RowsGrow
<1> QED BY <1>2, <1>3

\* A step that creates no row, loads no copy and ends no request keeps the
\* invariant if it makes its rows grow.
LEMMA QuietStep ==
    ASSUME TypeInv, TypeInv', RowInv, RowsGrow, UNCHANGED <<created, handler>>,
           \A c \in Reconcilers, r \in Runs :
               rec'[c].loaded[r] \in {NoRow, rec[c].loaded[r]},
           DecisionsAreSound'
    PROVE  RowInv'
<1> USE DEF RowInv
<1>1. RowsSound'
  BY DEF RowsGrow, RowsSound
<1>2. IdsUsedOnce'
  BY DEF IdsUsedOnce, RowsGrow, Busy, Creating, TypeInv, TypeOK, RequestTypeOK,
         Request, NoRequest
<1>3. CopiesLag'
  BY CopiesStayBehind DEF CopiesLag, Busy, Exists
<1> QED BY <1>1, <1>2, <1>3

-----------------------------------------------------------------------------
(* The steps.                                                              *)

LEMMA QueueKeepsRows ==
    ASSUME TypeInv, TypeInv', RowInv, QueueNext, OfWorkers
    PROVE  RowInv'
<1>1. UNCHANGED <<created, handler, rec>>
  BY DEF QueueNext, WorkerStep, CountSlots, SelectQueued, SelectNothing,
         AdmitStarts, AdmitRefused, ProfileMissing, CommitTick, AbortTick,
         OfWorkers, storeVars
<1>2. RowsGrow
  <2>1. CASE UNCHANGED rows
    BY <2>1, UnchangedRowsGrow DEF RowInv
  <2>2. ASSUME NEW w \in Workers, CommitTick(w) PROVE RowsGrow
    <3>1. rows' = [r \in Runs |-> AdmittedRow(w, r)]
      BY <2>2 DEF CommitTick
    <3>2. ASSUME NEW r \in Runs, Exists(r)' PROVE Exists(r)
      BY <3>1, <3>2
         DEF AdmittedRow, Exists, TypeInv, LocksHeld, TypeOK, StoreTypeOK
    <3>3. ASSUME NEW r \in Runs, Exists(r)
          PROVE  RowSound(rows'[r]) /\ Lags(rows[r], rows'[r])
      <4>1. rows[r] \in Row /\ RowSound(rows[r])
        BY <3>3 DEF RowInv, RowsSound, Exists, TypeInv, TypeOK, StoreTypeOK
      <4> QED BY <3>1, <4>1, AdmittedRowSound
    <3> QED BY <3>2, <3>3 DEF RowsGrow
  <2> QED
    BY <2>1, <2>2 DEF QueueNext, WorkerStep, CountSlots, SelectQueued,
        SelectNothing, AdmitStarts, AdmitRefused, ProfileMissing, AbortTick,
        storeVars
<1>3. DecisionsAreSound'
  BY <1>1 DEF RowInv, DecisionsAreSound
<1> QED BY <1>1, <1>2, <1>3, QuietStep

LEMMA EnvironmentKeepsRows ==
    ASSUME TypeInv, TypeInv', RowInv, Environment, OfEnvironment
    PROVE  RowInv'
<1>1. UNCHANGED <<created, handler, rec>>
  BY DEF Environment, PodStarts, PodEnds, JobExpires, TimePasses,
         StatusGoesStale, GraceElapses, OfEnvironment, storeVars
<1>2. RowsGrow
  <2>1. CASE UNCHANGED rows
    BY <2>1, UnchangedRowsGrow DEF RowInv
  <2>2. ASSUME NEW r \in Runs, StatusGoesStale(r) \/ GraceElapses(r)
        PROVE  RowsGrow
    <3>1. rows[r] \in Row /\ RowSound(rows[r])
      BY <2>2 DEF StatusGoesStale, GraceElapses, HoldsSlot, RowInv, RowsSound,
                  Exists, TypeInv, TypeOK, StoreTypeOK
    <3>2. PICK row \in Row : /\ rows' = [rows EXCEPT ![r] = row]
                             /\ RowSound(row) /\ Lags(rows[r], row)
      <4>1. CASE StatusGoesStale(r)
        <5>1. rows' = [rows EXCEPT ![r] = [rows[r] EXCEPT !.fresh = FALSE]]
          BY <4>1 DEF StatusGoesStale
        <5>2. LET row == [rows[r] EXCEPT !.fresh = FALSE] IN
              row \in Row /\ RowSound(row) /\ Lags(rows[r], row)
          BY <3>1 DEF RowSound, Lags, Row
        <5> QED BY <5>1, <5>2
      <4>2. CASE GraceElapses(r)
        <5>1. rows' = [rows EXCEPT ![r] = [rows[r] EXCEPT !.cancel = "overdue"]]
          BY <4>2 DEF GraceElapses
        <5>2. LET row == [rows[r] EXCEPT !.cancel = "overdue"] IN
              row \in Row /\ RowSound(row) /\ Lags(rows[r], row)
          BY <3>1 DEF RowSound, Lags, Row
        <5> QED BY <5>1, <5>2
      <4> QED BY <2>2, <4>1, <4>2
    <3>3. Exists(r)
      BY <2>2 DEF StatusGoesStale, GraceElapses, HoldsSlot
    <3>4. ASSUME NEW q \in Runs, Exists(q)'
          PROVE  Exists(q) /\ RowSound(rows'[q]) /\ Lags(rows[q], rows'[q])
      <4>1. CASE q = r
        BY <3>2, <3>3, <4>1 DEF TypeInv, TypeOK, StoreTypeOK
      <4>2. CASE q # r
        BY <3>2, <3>4, <4>2 DEF TypeInv, TypeOK, StoreTypeOK, Exists, RowInv,
                                RowsSound, Lags
      <4> QED BY <4>1, <4>2
    <3> QED BY <3>4 DEF RowsGrow
  <2> QED BY <2>1, <2>2 DEF Environment, PodStarts, PodEnds, JobExpires,
                            TimePasses, storeVars
<1>3. DecisionsAreSound'
  BY <1>1 DEF RowInv, DecisionsAreSound
<1> QED BY <1>1, <1>2, <1>3, QuietStep

LEMMA ReconcilerKeepsRows ==
    ASSUME TypeInv, TypeInv', RowInv, ReconcilerNext, OfReconcilers
    PROVE  RowInv'
<1>1. UNCHANGED <<created, handler>>
  <2>1. ASSUME NEW d \in Reconcilers, ReconcilerStep(d) \/ ReconcileAbort(d)
        PROVE  UNCHANGED created
    <3>1. CASE ReconcileCommit(d) \/ ReconcileAbort(d) \/ ReSignal(d) \/ DeleteJob(d)
      BY <3>1 DEF ReconcileCommit, ReconcileAbort, ReSignal, DeleteJob
    <3>2. CASE ReconcileSelect(d) \/ \E r \in Runs : Examine(d, r)
      BY <3>2 DEF ReconcileSelect, Examine, storeVars
    <3> QED BY <2>1, <3>1, <3>2 DEF ReconcilerStep
  <2> QED BY <2>1 DEF ReconcilerNext, OfReconcilers
<1> USE DEF TypeInv, TypeOK
<1>2. PICK c \in Reconcilers : ReconcilerStep(c) \/ ReconcileAbort(c)
  BY DEF ReconcilerNext
<1>3. rec[c] \in ReconcilerState
  BY DEF ReconcilerTypeOK
<1>4. CASE ReconcileSelect(c)
  <2> DEFINE copies == [r \in Runs |-> IF r \in Active THEN rows[r] ELSE NoRow]
  <2>1. UNCHANGED rows
    BY <1>4 DEF ReconcileSelect, storeVars
  <2>2. /\ rec'[c].loaded = copies /\ rec'[c].copy = copies
        /\ \A d \in Reconcilers \ {c} : rec'[d] = rec[d]
    BY <1>4 DEF ReconcileSelect, ReconcilerTypeOK
  <2>3. \A r \in Runs : copies[r] # NoRow =>
           Exists(r) /\ copies[r] = rows[r] /\ copies[r] \in Row
    BY DEF Active, HoldsSlot, Exists, StoreTypeOK
  <2> HIDE DEF copies
  <2>4. RowsSound'
    BY <2>1 DEF RowInv, RowsSound, Exists
  <2>5. IdsUsedOnce'
    <3>1. ASSUME NEW d \in Reconcilers, NEW r \in Runs, ~Exists(r),
                 rec[d].loaded[r] = NoRow
          PROVE  rec'[d].loaded[r] = NoRow
      BY <2>2, <2>3, <3>1
    <3>2. \A h \in Handlers : Creating(h) => handler[h].run \in Runs
      BY ServedIsRequest DEF Creating, NoRequest
    <3> QED BY <1>1, <2>1, <3>1, <3>2
            DEF RowInv, IdsUsedOnce, Exists, Busy, Creating
  <2>6. CopiesLag'
    <3>1. ASSUME NEW d \in Reconcilers, NEW r \in Runs,
                 rec'[d].loaded[r] # NoRow, Exists(r)
          PROVE  Lags(rec'[d].loaded[r], rows[r])
      <4>1. CASE d = c
        BY <2>2, <2>3, <3>1, <4>1 DEF Lags
      <4>2. CASE d # c
        BY <2>2, <3>1, <4>2 DEF RowInv, CopiesLag
      <4> QED BY <4>1, <4>2
    <3> QED BY <1>1, <2>1, <3>1 DEF RowInv, CopiesLag, Busy, Exists
  <2>7. DecisionsAreSound'
    BY <2>2, <2>3, DecisionsSound DEF RowInv, DecisionsAreSound
  <2> QED BY <2>4, <2>5, <2>6, <2>7 DEF RowInv
<1>5. ASSUME NEW r \in Runs, Examine(c, r) PROVE RowInv'
  <2> DEFINE row   == rec[c].loaded[r]
             phase == GetJobPhase(r)
             copy  == IF phase = "active" THEN rec[c].copy[r]
                                          ELSE Verdict(row, phase)
  <2>1. /\ rec'[c].loaded = rec[c].loaded
        /\ rec'[c].copy = [rec[c].copy EXCEPT ![r] = copy]
        /\ \A d \in Reconcilers \ {c} : rec'[d] = rec[d]
    <3>1. rec' = [rec EXCEPT ![c] = [rec[c] EXCEPT
                     !.todo = @ \ {r},
                     !.at = IF phase = "active" THEN r ELSE NoRow,
                     !.pc = AfterExamine(row, phase),
                     !.copy[r] = copy]]
      BY <1>5, ExamineUpdates
    <3> HIDE DEF copy, row, phase
    <3> QED BY <1>3, <3>1 DEF ReconcilerTypeOK, ReconcilerState
  <2>2. row \in Row /\ UNCHANGED rows
    <3>1. r \in rec[c].todo /\ UNCHANGED storeVars
      BY <1>5 DEF Examine
    <3>2. row # NoRow
      BY <3>1 DEF CopiesLoaded
    <3>3. row \in Row \union {NoRow}
      BY <1>3 DEF ReconcilerState
    <3> QED BY <3>1, <3>2, <3>3 DEF storeVars
  <2>3. SoundChange(row, copy)
    BY <2>2, DecisionsSound, RowAssumption DEF RowInv, DecisionsAreSound
  <2> HIDE DEF copy
  <2>4. DecisionsAreSound'
    BY <1>3, <2>1, <2>3 DEF RowInv, DecisionsAreSound, ReconcilerState
  <2>5. \A d \in Reconcilers, q \in Runs :
           rec'[d].loaded[q] \in {NoRow, rec[d].loaded[q]}
    BY <2>1
  <2> QED BY <1>1, <2>2, <2>4, <2>5, QuietStep, UnchangedRowsGrow DEF RowInv
<1>6. CASE ReSignal(c)
  <2>1. /\ \A d \in Reconcilers : /\ rec'[d].loaded = rec[d].loaded
                                  /\ rec'[d].copy = rec[d].copy
        /\ UNCHANGED rows
    BY <1>3, <1>6 DEF ReSignal, ReconcilerTypeOK, ReconcilerState
  <2>2. DecisionsAreSound'
    BY <2>1 DEF RowInv, DecisionsAreSound
  <2> QED BY <1>1, <2>1, <2>2, QuietStep, UnchangedRowsGrow DEF RowInv
<1>7. CASE DeleteJob(c)
  <2> DEFINE r    == rec[c].at
             copy == HardStop(rec[c].loaded[r])
  <2>1. r \in Runs /\ rec[c].loaded[r] \in Row /\ UNCHANGED rows
    <3>1. rec[c].pc = "deleting" /\ UNCHANGED rows
      BY <1>7 DEF DeleteJob
    <3>2. r \in Runs /\ rec[c].loaded[r] # NoRow
      BY <3>1 DEF CopiesLoaded
    <3> QED BY <1>3, <3>1, <3>2 DEF ReconcilerState
  <2>2. /\ rec'[c].loaded = rec[c].loaded
        /\ rec'[c].copy = [rec[c].copy EXCEPT ![r] = copy]
        /\ \A d \in Reconcilers \ {c} : rec'[d] = rec[d]
    BY <1>3, <1>7 DEF DeleteJob, ReconcilerTypeOK, ReconcilerState
  <2>3. SoundChange(rec[c].loaded[r], copy)
    BY <2>1, DecisionsSound
  <2> HIDE DEF copy
  <2>4. DecisionsAreSound'
    BY <1>3, <2>1, <2>2, <2>3 DEF RowInv, DecisionsAreSound, ReconcilerState
  <2>5. \A d \in Reconcilers, q \in Runs :
           rec'[d].loaded[q] \in {NoRow, rec[d].loaded[q]}
    BY <2>2
  <2> QED BY <1>1, <2>1, <2>4, <2>5, QuietStep, UnchangedRowsGrow DEF RowInv
<1>8. CASE ReconcileCommit(c) \/ ReconcileAbort(c)
  <2>1. rec' = [rec EXCEPT ![c] = Resting]
    BY <1>8 DEF ReconcileCommit, ReconcileAbort
  <2>2. /\ DecisionsAreSound'
        /\ \A d \in Reconcilers, q \in Runs :
              rec'[d].loaded[q] \in {NoRow, rec[d].loaded[q]}
    BY <2>1 DEF RowInv, DecisionsAreSound, Resting, ReconcilerTypeOK
  <2>3. RowsGrow
    <3>1. CASE UNCHANGED rows
      BY <3>1, UnchangedRowsGrow DEF RowInv
    <3>2. CASE rows' # rows
      <4>1. /\ \A r \in Changed(c) : Exists(r)
            /\ rows' = [r \in Runs |->
                          IF r \in Changed(c)
                          THEN Flush(rows[r], rec[c].loaded[r], rec[c].copy[r])
                          ELSE rows[r]]
        BY <1>8, <3>2 DEF ReconcileCommit, ReconcileAbort
      <4>2. ASSUME NEW r \in Runs, Exists(r)'
            PROVE  Exists(r) /\ RowSound(rows'[r]) /\ Lags(rows[r], rows'[r])
        <5>1. CASE r \in Changed(c)
          <6>1. /\ rec[c].loaded[r] \in Row /\ rec[c].copy[r] \in Row
                /\ rows[r] \in Row /\ Exists(r)
            BY <1>3, <4>1, <5>1 DEF Changed, CopiesLoaded, ReconcilerState,
                                    Exists, StoreTypeOK
          <6>2. /\ RowSound(rows[r]) /\ Lags(rec[c].loaded[r], rows[r])
                /\ SoundChange(rec[c].loaded[r], rec[c].copy[r])
            BY <6>1, RowAssumption
               DEF RowInv, RowsSound, CopiesLag, DecisionsAreSound
          <6> QED BY <4>1, <5>1, <6>1, <6>2, FlushSound
        <5>2. CASE r \notin Changed(c)
          BY <4>1, <4>2, <5>2 DEF RowInv, RowsSound, Exists, Lags
        <5> QED BY <5>1, <5>2
      <4> QED BY <4>2 DEF RowsGrow
    <3> QED BY <3>1, <3>2
  <2> QED BY <1>1, <2>2, <2>3, QuietStep
<1> QED BY <1>2, <1>4, <1>5, <1>6, <1>7, <1>8 DEF ReconcilerStep

\* A step of a request that already has its copy.
LEMMA ServeStep ==
    ASSUME TypeInv, TypeInv', RowInv, RowsGrow, UNCHANGED <<created, rec>>,
           NEW h \in Handlers,
           \A g \in Handlers \ {h} : handler'[g] = handler[g],
           \/ handler'[h] = NoRequest
           \/ /\ Busy(h)
              /\ handler'[h].run = handler[h].run
              /\ handler'[h].loaded = handler[h].loaded
              /\ handler'[h].op \notin {"create", "createdJob"}
    PROVE  RowInv'
<1> USE DEF RowInv
<1>1. RowsSound'
  BY DEF RowsGrow, RowsSound
<1>2. \A g \in Handlers : Busy(g)' => /\ Busy(g)
                                      /\ handler'[g].run = handler[g].run
                                      /\ handler'[g].loaded = handler[g].loaded
  BY DEF Busy
<1>3. \A g \in Handlers : Creating(g)' => g # h /\ Creating(g)
  BY DEF Creating, NoRequest
<1>4. \A g \in Handlers : Busy(g) => handler[g].run \in Runs
  BY ServedIsRequest DEF Busy, TypeInv, TypeOK
<1>5. \A g \in Handlers : Creating(g) => Busy(g)
  BY DEF Creating, Busy, NoRequest
<1>6. IdsUsedOnce'
  <2>1. ASSUME NEW r \in Runs, created[r] = 0
        PROVE  /\ ~Exists(r)'
               /\ \A g \in Handlers : Busy(g)' => handler'[g].run # r
    BY <1>2, <2>1 DEF IdsUsedOnce, RowsGrow
  <2>2. ASSUME NEW g \in Handlers, Creating(g)'
        PROVE  /\ created[handler'[g].run] # 0
               /\ rows'[handler'[g].run] = NoRow
               /\ RowSound(handler'[g].loaded)
               /\ \A f \in Handlers \ {g} : Busy(f)' =>
                     handler'[f].run # handler'[g].run
               /\ \A c \in Reconcilers : rec[c].loaded[handler'[g].run] = NoRow
    BY <1>2, <1>3, <1>4, <1>5, <2>2 DEF IdsUsedOnce, RowsGrow, Exists
  <2> QED BY <2>1, <2>2 DEF IdsUsedOnce, Exists
<1>7. CopiesLag'
  BY <1>2, CopiesStayBehind DEF CopiesLag, Exists
<1>8. DecisionsAreSound'
  BY DEF DecisionsAreSound
<1> QED BY <1>1, <1>6, <1>7, <1>8

\* A request that loads a row.
LEMMA LoadStep ==
    ASSUME TypeInv, TypeInv', RowInv, UNCHANGED <<rows, created, rec>>,
           NEW h \in Handlers, NEW r \in Runs, NEW op \in Ops, NEW arg,
           op \notin {"create", "createdJob"}, Exists(r), handler[h] = NoRequest,
           Begin(h, op, r, rows[r], arg)
    PROVE  RowInv'
<1> USE DEF RowInv
<1>1. /\ handler'[h] = [op |-> op, run |-> r, loaded |-> rows[r], arg |-> arg]
      /\ \A g \in Handlers \ {h} : handler'[g] = handler[g]
  BY DEF Begin, TypeInv, TypeOK, RequestTypeOK
<1>2. RowsSound' /\ DecisionsAreSound'
  BY DEF RowsSound, Exists, DecisionsAreSound
<1>3. \A g \in Handlers : Creating(g)' => g # h /\ Creating(g)
  BY <1>1 DEF Creating
<1>4. IdsUsedOnce'
  <2>1. ASSUME NEW q \in Runs, created[q] = 0
        PROVE  \A g \in Handlers : Busy(g)' => handler'[g].run # q
    BY <1>1, <2>1 DEF IdsUsedOnce, Busy
  <2>2. ASSUME NEW g \in Handlers, Creating(g)'
        PROVE  \A f \in Handlers \ {g} : Busy(f)' =>
                  handler'[f].run # handler'[g].run
    BY <1>1, <1>3, <2>2 DEF IdsUsedOnce, Busy, Exists
  <2> QED BY <1>1, <1>3, <2>1, <2>2 DEF IdsUsedOnce, Exists
<1>5. CopiesLag'
  BY <1>1 DEF CopiesLag, Lags, Busy, Exists
<1> QED BY <1>2, <1>4, <1>5

\* A commit of a handler's copy.
LEMMA WriteGrows ==
    ASSUME TypeInv, RowInv, NEW h \in Handlers, Busy(h), NEW copy \in Row,
           SoundChange(handler[h].loaded, copy), Write(h, copy)
    PROVE  RowsGrow
<1> DEFINE r   == handler[h].run
           row == Flush(rows[r], handler[h].loaded, copy)
<1>1. r \in Runs /\ handler[h].loaded \in Row
  BY ServedIsRequest DEF Busy, TypeInv, TypeOK
<1>2. rows' = [rows EXCEPT ![r] = IF Exists(r) THEN row ELSE NoRow]
  BY DEF Write
<1>3. Exists(r) => RowSound(row) /\ Lags(rows[r], row)
  BY <1>1, FlushSound
     DEF RowInv, RowsSound, CopiesLag, TypeInv, TypeOK, StoreTypeOK, Exists
<1> HIDE DEF row
<1>4. ASSUME NEW q \in Runs, Exists(q)'
      PROVE  Exists(q) /\ RowSound(rows'[q]) /\ Lags(rows[q], rows'[q])
  <2>1. CASE q = r
    BY <1>2, <1>3, <1>4, <2>1 DEF TypeInv, TypeOK, StoreTypeOK, Exists
  <2>2. CASE q # r
    BY <1>1, <1>2, <1>4, <2>2 DEF TypeInv, TypeOK, StoreTypeOK, Exists, RowInv,
                                  RowsSound, Lags
  <2> QED BY <2>1, <2>2
<1> HIDE DEF r
<1> QED BY <1>4 DEF RowsGrow

LEMMA RequestKeepsRows ==
    ASSUME TypeInv, TypeInv', RowInv, RequestNext, OfHandlers
    PROVE  RowInv'
<1>1. UNCHANGED rec
  BY DEF OfHandlers
<1>2. PICK h \in Handlers :
         RequestArrives(h) \/ RequestStep(h) \/ RequestLost(h)
  BY DEF RequestNext
<1>3. Done(h) => /\ handler'[h] = NoRequest
                 /\ \A g \in Handlers \ {h} : handler'[g] = handler[g]
  BY DEF Done, TypeInv, TypeOK, RequestTypeOK
<1>4. ASSUME NEW r \in Runs, CreateBegin(h, r) PROVE RowInv'
  <2>1. /\ handler'[h] = [op |-> "create", run |-> r, loaded |-> NewRow,
                          arg |-> "none"]
        /\ \A g \in Handlers \ {h} : handler'[g] = handler[g]
    BY <1>4 DEF CreateBegin, Begin, TypeInv, TypeOK, RequestTypeOK
  <2>2. UNCHANGED rows /\ created[r] = 0
    BY <1>4 DEF CreateBegin
  <2>3. created'[r] # 0 /\ \A q \in Runs \ {r} : created'[q] = created[q]
    <3>1. Cardinality({q \in Runs : created[q] # 0}) \in Nat
      BY RunsFinite, FS_Subset, FS_CardinalityType
    <3> QED BY <1>4, <3>1 DEF CreateBegin, TypeInv, TypeOK, StoreTypeOK
  <2>4. /\ ~Exists(r) /\ \A g \in Handlers : Busy(g) => handler[g].run # r
        /\ \A c \in Reconcilers : rec[c].loaded[r] = NoRow
    BY <2>2 DEF RowInv, IdsUsedOnce
  <2>5. IdsUsedOnce'
    <3>1. ASSUME NEW q \in Runs, created'[q] = 0
          PROVE  q # r /\ \A g \in Handlers : Busy(g)' => handler'[g].run # q
      BY <2>1, <2>3, <3>1 DEF RowInv, IdsUsedOnce, Busy
    <3>2. ASSUME NEW g \in Handlers \ {h}, Creating(g)'
          PROVE  /\ Creating(g) /\ handler'[g].run = handler[g].run
                 /\ handler[g].run \in Runs \ {r}
                 /\ \A f \in Handlers \ {g} : Busy(f)' =>
                       handler'[f].run # handler[g].run
      <4>1. Creating(g) /\ handler'[g] = handler[g]
        BY <2>1, <3>2 DEF Creating
      <4>2. handler[g].run \in Runs \ {r}
        BY <2>4, <4>1, ServedIsRequest
           DEF Creating, Busy, NoRequest, TypeInv, TypeOK
      <4> QED BY <2>1, <4>1, <4>2 DEF RowInv, IdsUsedOnce, Busy
    <3>3. \A g \in Handlers \ {h} : Busy(g)' => handler'[g].run # r
      BY <2>1, <2>4 DEF Busy
    <3>4. ASSUME NEW g \in Handlers, Creating(g)'
          PROVE  /\ created'[handler'[g].run] # 0
                 /\ rows'[handler'[g].run] = NoRow
                 /\ RowSound(handler'[g].loaded)
                 /\ \A f \in Handlers \ {g} : Busy(f)' =>
                       handler'[f].run # handler'[g].run
                 /\ \A c \in Reconcilers :
                       rec'[c].loaded[handler'[g].run] = NoRow
      <4>1. CASE g = h
        BY <1>1, <2>1, <2>2, <2>3, <2>4, <3>3, <4>1, NewRowsSound DEF Exists
      <4>2. CASE g # h
        BY <1>1, <2>1, <2>2, <2>3, <3>2, <3>4, <4>2
           DEF RowInv, IdsUsedOnce, Exists
      <4> QED BY <4>1, <4>2
    <3>5. \A q \in Runs : created'[q] = 0 =>
             ~Exists(q)' /\ \A c \in Reconcilers : rec'[c].loaded[q] = NoRow
      BY <1>1, <2>2, <2>3 DEF RowInv, IdsUsedOnce, Exists
    <3> QED BY <3>1, <3>4, <3>5 DEF IdsUsedOnce, Exists
  <2>6. CopiesLag'
    BY <1>1, <2>1, <2>2, <2>4 DEF RowInv, CopiesLag, Busy, Exists
  <2>7. RowsSound' /\ DecisionsAreSound'
    BY <1>1, <2>2 DEF RowInv, RowsSound, Exists, DecisionsAreSound
  <2> QED BY <2>5, <2>6, <2>7 DEF RowInv
<1>5. ASSUME NEW r \in Runs,
             \/ CancelBegin(h, r) \/ DeleteBegin(h, r)
             \/ \E s \in StatusValues : StatusBegin(h, r, s)
             \/ \E code \in ReportCodes : ReportBegin(h, r, code)
      PROVE  RowInv'
  <2>1. /\ UNCHANGED <<rows, created>> /\ Exists(r) /\ handler[h] = NoRequest
        /\ \E arg : \/ Begin(h, "cancel", r, rows[r], arg)
                    \/ Begin(h, "delete", r, rows[r], arg)
                    \/ Begin(h, "status", r, rows[r], arg)
                    \/ Begin(h, "report", r, rows[r], arg)
    BY <1>5 DEF CancelBegin, DeleteBegin, StatusBegin, ReportBegin, Arrives,
                storeVars
  <2> QED BY <1>1, <2>1, LoadStep DEF Ops
<1>6. CASE CreateStartsJob(h)
  <2>1. Creating(h) /\ Busy(h)
    BY <1>6 DEF CreateStartsJob, Serves, Creating, Busy, NoRequest
  <2>2. /\ handler'[h].run = handler[h].run /\ handler'[h].op = "createdJob"
        /\ RowSound(handler'[h].loaded)
        /\ \A g \in Handlers \ {h} : handler'[g] = handler[g]
    BY <1>6, NewRowsSound DEF CreateStartsJob, Begin, TypeInv, TypeOK,
                              RequestTypeOK
  <2>3. UNCHANGED <<rows, created>>
    BY <1>6 DEF CreateStartsJob, storeVars
  <2>4. \A g \in Handlers : /\ handler'[g].run = handler[g].run \/ ~Busy(g)'
                            /\ Busy(g)' => Busy(g)
                            /\ Creating(g)' => Creating(g) /\ Busy(g)'
    BY <2>1, <2>2 DEF Busy, Creating, NoRequest
  <2>5. IdsUsedOnce'
    <3>1. ASSUME NEW q \in Runs, created[q] = 0
          PROVE  \A g \in Handlers : Busy(g)' => handler'[g].run # q
      BY <2>4, <3>1 DEF RowInv, IdsUsedOnce
    <3>2. ASSUME NEW g \in Handlers, Creating(g)'
          PROVE  /\ handler'[g].run = handler[g].run
                 /\ RowSound(handler'[g].loaded)
                 /\ \A f \in Handlers \ {g} : Busy(f)' =>
                       handler'[f].run # handler[g].run
      BY <2>2, <2>4, <3>2 DEF RowInv, IdsUsedOnce
    <3> QED BY <1>1, <2>3, <2>4, <3>1, <3>2 DEF RowInv, IdsUsedOnce, Exists
  <2>6. CopiesLag'
    BY <1>1, <2>1, <2>2, <2>3 DEF RowInv, IdsUsedOnce, CopiesLag, Busy, Exists
  <2>7. RowsSound' /\ DecisionsAreSound'
    BY <1>1, <2>3 DEF RowInv, RowsSound, Exists, DecisionsAreSound
  <2> QED BY <2>5, <2>6, <2>7 DEF RowInv
<1>7. CASE CreateCommit(h)
  <2> DEFINE r == handler[h].run
  <2>1. Creating(h) /\ Busy(h) /\ Done(h)
    BY <1>7 DEF CreateCommit, Serves, Creating, Busy, NoRequest
  <2>2. r \in Runs /\ handler[h].loaded \in Row
    BY <2>1, ServedIsRequest DEF Busy, TypeInv, TypeOK
  <2>3. /\ created[r] # 0 /\ RowSound(handler[h].loaded)
        /\ \A g \in Handlers \ {h} : Busy(g) => handler[g].run # r
        /\ \A c \in Reconcilers : rec[c].loaded[r] = NoRow
    BY <2>1 DEF RowInv, IdsUsedOnce
  <2>4. /\ rows'[r] = handler[h].loaded
        /\ \A q \in Runs \ {r} : rows'[q] = rows[q]
        /\ UNCHANGED created
    BY <1>7, <2>2 DEF CreateCommit, TypeInv, TypeOK, StoreTypeOK
  <2>5. \A g \in Handlers : Busy(g)' => /\ g # h /\ handler'[g] = handler[g]
                                        /\ Busy(g) /\ handler[g].run \in Runs \ {r}
    BY <1>3, <2>1, <2>3, ServedIsRequest DEF Busy, TypeInv, TypeOK
  <2>6. \A g \in Handlers : Creating(g)' => Busy(g)'
    BY DEF Creating, Busy, NoRequest
  <2> HIDE DEF r
  <2>7. IdsUsedOnce'
    <3>1. \A q \in Runs : created'[q] = 0 =>
             /\ ~Exists(q)'
             /\ \A g \in Handlers : Busy(g)' => handler'[g].run # q
             /\ \A c \in Reconcilers : rec'[c].loaded[q] = NoRow
      BY <1>1, <2>3, <2>4, <2>5 DEF RowInv, IdsUsedOnce, Exists
    <3>2. ASSUME NEW g \in Handlers, Creating(g)'
          PROVE  /\ created'[handler'[g].run] # 0
                 /\ rows'[handler'[g].run] = NoRow
                 /\ RowSound(handler'[g].loaded)
                 /\ \A f \in Handlers \ {g} : Busy(f)' =>
                       handler'[f].run # handler'[g].run
                 /\ \A c \in Reconcilers :
                       rec'[c].loaded[handler'[g].run] = NoRow
      <4>1. Creating(g) /\ handler'[g] = handler[g] /\ handler[g].run \in Runs \ {r}
        BY <2>5, <2>6, <3>2 DEF Creating
      <4> QED BY <1>1, <2>4, <2>5, <4>1 DEF RowInv, IdsUsedOnce, Exists
    <3> QED BY <3>1, <3>2 DEF IdsUsedOnce, Exists
  <2>8. CopiesLag'
    <3>1. ASSUME NEW g \in Handlers, Busy(g)', rows'[handler'[g].run] # NoRow
          PROVE  Lags(handler'[g].loaded, rows'[handler'[g].run])
      BY <2>4, <2>5, <3>1 DEF RowInv, CopiesLag, Exists
    <3>2. ASSUME NEW c \in Reconcilers, NEW q \in Runs,
                 rec[c].loaded[q] # NoRow, rows'[q] # NoRow
          PROVE  Lags(rec[c].loaded[q], rows'[q])
      BY <2>3, <2>4, <3>2 DEF RowInv, CopiesLag, Exists
    <3> QED BY <1>1, <3>1, <3>2 DEF CopiesLag, Exists
  <2>9. RowsSound' /\ DecisionsAreSound'
    BY <1>1, <2>3, <2>4 DEF RowInv, RowsSound, Exists, DecisionsAreSound
  <2> QED BY <2>7, <2>8, <2>9 DEF RowInv
<1>8. CASE CreateRefused(h) \/ CancelSignal(h) \/ RequestLost(h)
  <2>1. UNCHANGED <<rows, created>> /\ Done(h)
    BY <1>8 DEF CreateRefused, CancelSignal, RequestLost
  <2> QED BY <1>1, <1>3, <2>1, ServeStep, UnchangedRowsGrow DEF RowInv
<1>9. CASE CancelCommit(h)
  <2>1. Busy(h) /\ UNCHANGED created /\ (Done(h) \/ Goto(h, "signal"))
    BY <1>9 DEF CancelCommit, Serves, Busy, NoRequest
  <2>2. handler[h] \in Request /\ handler[h].loaded \in Row
    BY <2>1, ServedIsRequest DEF Busy, TypeInv, TypeOK
  <2>3. RowsGrow
    BY <1>9, <2>1, <2>2, WriteGrows, RequestChangesSound, RequestCopiesAreRows
       DEF CancelCommit
  <2>4. Goto(h, "signal") =>
           /\ handler'[h].run = handler[h].run
           /\ handler'[h].loaded = handler[h].loaded
           /\ handler'[h].op \notin {"create", "createdJob"}
           /\ \A g \in Handlers \ {h} : handler'[g] = handler[g]
    BY <2>2 DEF Goto, TypeInv, TypeOK, RequestTypeOK, Request
  <2> QED BY <1>1, <1>3, <2>1, <2>3, <2>4, ServeStep
<1>10. CASE DeleteCommit(h)
  <2>1. Busy(h) /\ UNCHANGED created /\ Done(h)
    BY <1>10 DEF DeleteCommit, Serves, Busy, NoRequest
  <2>2. RowsGrow
    BY <1>10 DEF DeleteCommit, RowsGrow, Exists, RowInv, RowsSound, Lags,
                 TypeInv, TypeOK, StoreTypeOK
  <2> QED BY <1>1, <1>3, <2>1, <2>2, ServeStep
<1>11. CASE StatusCommit(h)
  <2> DEFINE r    == handler[h].run
             copy == StatusCopy(handler[h].loaded, handler[h].arg)
             flushed == Flush(rows[r], handler[h].loaded, copy)
             row  == [flushed EXCEPT !.fresh = TRUE]
  <2>1. Busy(h) /\ UNCHANGED created /\ Done(h)
    BY <1>11 DEF StatusCommit, Serves, Busy, NoRequest
  <2>2. r \in Runs /\ handler[h].loaded \in Row
    BY <2>1, ServedIsRequest DEF Busy, TypeInv, TypeOK
  <2>3. copy \in Row /\ SoundChange(handler[h].loaded, copy)
    BY <2>2, RequestChangesSound, RequestCopiesAreRows
  <2>4. rows' = [rows EXCEPT ![r] = IF Exists(r) THEN row ELSE NoRow]
    BY <1>11 DEF StatusCommit
  <2> HIDE DEF copy
  <2>5. Exists(r) => /\ rows[r] \in Row /\ flushed \in Row
                     /\ RowSound(flushed) /\ Lags(rows[r], flushed)
    BY <2>1, <2>2, <2>3, FlushSound, FlushIsRow
       DEF RowInv, RowsSound, CopiesLag, TypeInv, TypeOK, StoreTypeOK, Exists
  <2> HIDE DEF flushed
  <2>6. Exists(r) => RowSound(row) /\ Lags(rows[r], row)
    BY <2>5 DEF RowSound, Lags, Row
  <2> HIDE DEF row, r
  <2>7. RowsGrow
    BY <2>2, <2>4, <2>6 DEF RowsGrow, Exists, RowInv, RowsSound, Lags,
                            TypeInv, TypeOK, StoreTypeOK
  <2> QED BY <1>1, <1>3, <2>1, <2>7, ServeStep
<1>12. CASE ReportCommit(h)
  <2>1. Busy(h) /\ UNCHANGED created /\ Done(h)
    BY <1>12 DEF ReportCommit, Serves, Busy, NoRequest
  <2>2. handler[h].loaded \in Row /\ handler[h].arg \in ReportCodes
    BY <1>12, <2>1, ServedIsRequest
       DEF ReportCommit, ReportArgs, Busy, TypeInv, TypeOK
  <2>3. RowsGrow
    BY <1>12, <2>1, <2>2, WriteGrows, RequestChangesSound, RequestCopiesAreRows
       DEF ReportCommit
  <2> QED BY <1>1, <1>3, <2>1, <2>3, ServeStep
<1> QED
  BY <1>2, <1>4, <1>5, <1>6, <1>7, <1>8, <1>9, <1>10, <1>11, <1>12
     DEF RequestArrives, RequestStep

LEMMA RowStep == TypeInv /\ TypeInv' /\ RowInv /\ [Next]_vars => RowInv'
<1>1. ASSUME RowInv, UNCHANGED vars PROVE RowInv'
  BY <1>1 DEF RowInv, RowsSound, IdsUsedOnce, CopiesLag, DecisionsAreSound,
              Exists, Busy, Creating, vars, storeVars
<1> QED BY <1>1, QueueKeepsRows, RequestKeepsRows, ReconcilerKeepsRows,
           EnvironmentKeepsRows DEF Next

LEMMA RowInvariant == Spec => [](TypeInv /\ RowInv)
BY TypeInit, TypeStep, RowInit, RowStep, PTL DEF Spec

\* The finish code of a cancelled run stands only in rows whose cancel was
\* requested, unless a PDE report fakes the code.
THEOREM CancelCodeIsRequested ==
    ASSUME "RUN_CANCELLED" \notin ReportCodes
    PROVE  Spec => []CancelCodeOnlyOnRequest
<1>1. RowInv => CancelCodeOnlyOnRequest
  BY DEF RowInv, RowsSound, RowSound, CancelCodeOnlyOnRequest
<1> QED BY <1>1, RowInvariant, PTL
==============================================================================
