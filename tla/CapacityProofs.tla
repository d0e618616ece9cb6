---------------------------- MODULE CapacityProofs ----------------------------
(***************************************************************************)
(* How many runs hold a slot, for any number of replicas, and the abstract *)
(* queue they implement.                                                   *)
(***************************************************************************)
EXTENDS AdmissionProofs, FiniteSetTheorems

-----------------------------------------------------------------------------
(* Slots.  A worker that has counted may still add as many runs as it      *)
(* found slots free, however many the others add meanwhile: these runs to  *)
(* come are counted beside those that are there.                           *)

Limited == QueueEnabled /\ MaxConcurrent > 0

Counted     == Active \ resurrected
InHand(w)   == worker[w].todo \union worker[w].started \union worker[w].rejected
Allowed(w)  == {w} \X (1..worker[w].free)
Allowance   == {p \in Workers \X (1..MaxConcurrent) : p[2] <= worker[p[1]].free}

\* With the queue enabled no request starts a Job itself.
NoDirectStart == \A h \in Handlers : ~Serves(h, "createdJob")

SlotInv ==
    /\ \A w \in Workers : /\ worker[w].free <= MaxConcurrent
                          /\ Cardinality(InHand(w)) <= worker[w].free
    /\ Cardinality(Counted) + Cardinality(Allowance)
          <= Cardinality(Workers) * MaxConcurrent

LEMMA RunSetsAreFinite ==
    ASSUME NEW S, S \subseteq Runs
    PROVE  IsFiniteSet(S) /\ Cardinality(S) \in Nat
BY RunsFinite, FS_Subset, FS_CardinalityType

LEMMA AllowancesAreFinite ==
    ASSUME Limited
    PROVE  /\ IsFiniteSet(Workers \X (1..MaxConcurrent))
           /\ IsFiniteSet(Allowance) /\ Cardinality(Allowance) \in Nat
<1>1. IsFiniteSet(1..MaxConcurrent)
  BY FS_Interval, MaxConcurrentAssumption
<1>2. IsFiniteSet(Workers \X (1..MaxConcurrent))
  BY <1>1, WorkersFinite, FS_Product
<1>3. Allowance \in SUBSET (Workers \X (1..MaxConcurrent))
  BY DEF Allowance
<1> QED BY <1>2, <1>3, FS_Subset, FS_CardinalityType

LEMMA IntervalCount ==
    ASSUME NEW n \in Nat
    PROVE  IsFiniteSet(1..n) /\ Cardinality(1..n) = n
BY FS_Interval

LEMMA AllowedCount ==
    ASSUME NEW w, NEW n \in Nat
    PROVE  IsFiniteSet({w} \X (1..n)) /\ Cardinality({w} \X (1..n)) = n
<1>1. IsFiniteSet(1..n) /\ Cardinality(1..n) = n
  BY IntervalCount
<1>2. IsFiniteSet({w}) /\ Cardinality({w}) = 1
  BY FS_Singleton
<1>3. /\ IsFiniteSet({w} \X (1..n))
      /\ Cardinality({w} \X (1..n)) = Cardinality({w}) * Cardinality(1..n)
  BY <1>1, <1>2, FS_Product
<1> QED BY <1>1, <1>2, <1>3

\* A run begins to hold a slot only by the commit of the tick that started
\* it, or comes back from a terminal status.
LEMMA SlotsAreGivenByTicks ==
    ASSUME TypeInv, TypeInv', RowInv, LocksInv, LaunchInv, [Next]_vars,
           NoDirectStart, NEW r \in Runs, r \in Counted'
    PROVE  \/ r \in Counted
           \/ \E w \in Workers : CommitTick(w) /\ r \in worker[w].started
<1> USE DEF TypeInv, TypeOK, StoreTypeOK
<1>1. resurrected' = resurrected \/ Record
  BY DEF Next, OfWorkers, OfHandlers, OfReconcilers, OfEnvironment, vars
<1>2. /\ Exists(r)' /\ rows'[r].job /\ rows'[r].status \notin TERMINAL_STATUSES
      /\ r \notin resurrected' /\ r \notin resurrected
  BY <1>1 DEF Counted, Active, HoldsSlot, Record
<1>3. Exists(r) /\ rows[r].job /\ ~Terminal(r) => r \in Counted
  BY <1>2 DEF Counted, Active, HoldsSlot, Terminal
<1>4. CASE rows'[r] = rows[r]
  BY <1>2, <1>4 DEF Counted, Active, HoldsSlot, Exists
<1>5. CASE Edited(r)
  <2>1. CASE Terminal(r)
    <3>1. Resurrects(r) /\ Record
      <4>1. rows'[r] # rows[r]
        BY <1>2, <2>1 DEF Terminal
      <4>2. Record
        BY <4>1 DEF Next, OfWorkers, OfHandlers, OfReconcilers, OfEnvironment, vars, storeVars
      <4> QED BY <1>2, <2>1, <4>2 DEF Resurrects, Terminal
    <3> QED BY <1>2, <3>1 DEF Record
  <2>2. CASE ~Terminal(r)
    BY <1>2, <1>3, <1>5, <2>2 DEF Edited
  <2> QED BY <2>1, <2>2
<1>6. ASSUME NEW h \in Handlers, CreateCommit(h), handler[h].run = r,
             rows'[r] = handler[h].loaded
      PROVE  FALSE
  BY <1>2, <1>6 DEF CreateCommit, LaunchInv, NewRow, NoDirectStart
<1>7. ASSUME NEW w \in Workers, r \in locks[w], CommitTick(w), rows'[r] = AdmittedRow(w, r)
      PROVE  r \in worker[w].started
  <2>1. rows[r] \in Row /\ ~rows[r].job
    BY <1>7 DEF LocksInv, Waiting, Exists
  <2> QED BY <1>2, <1>7, <2>1 DEF AdmittedRow, Row
<1>8. RowMoves(r)
  BY RowsMove
<1> QED BY <1>2, <1>4, <1>5, <1>6, <1>7, <1>8 DEF RowMoves, Exists

\* A tick keeps what it counted until it is over, and takes no more than that.
HandsMove(w) ==
    \/ worker'[w] \in {worker[w], Idle}
    \/ CountSlots(w) /\ worker'[w] = [Idle EXCEPT !.pc = "counted", !.free = FreeSlots]
    \/ /\ worker'[w].free = worker[w].free
       /\ \/ InHand(w)' \subseteq InHand(w)
          \/ Cardinality(InHand(w)') <= worker[w].free

LEMMA TicksKeepTheirCount ==
    ASSUME TypeInv, [Next]_vars, NEW w \in Workers
    PROVE  HandsMove(w)
<1> USE DEF TypeInv, TypeOK, QueueTypeOK
<1>1. CASE worker'[w] = worker[w]
  BY <1>1 DEF HandsMove
<1>2. CASE worker'[w] # worker[w]
  <2>1. PICK v \in Workers : WorkerStep(v) \/ AbortTick(v)
    BY <1>2 DEF Next, OfHandlers, OfReconcilers, OfEnvironment, vars, queueVars, QueueNext
  <2>2. v = w
    BY <1>2, <2>1 DEF WorkerStep, CountSlots, SelectQueued, SelectNothing, CommitTick,
       AbortTick, AdmitStarts, AdmitRefused, ProfileMissing
  <2>3. worker[w] \in WorkerState
    OBVIOUS
  <2>4. CASE CountSlots(w)
    BY <2>4 DEF CountSlots, HandsMove
  <2>5. CASE SelectNothing(w) \/ CommitTick(w) \/ AbortTick(w)
    BY <2>5 DEF SelectNothing, CommitTick, AbortTick, HandsMove
  <2>6. CASE SelectQueued(w)
    <3>1. PICK S \in SUBSET Runs :
             /\ IsSelection(w, S)
             /\ worker' = [worker EXCEPT ![w].pc = "admitting", ![w].todo = S]
      BY <2>6 DEF SelectQueued
    <3>2. worker[w].started = {} /\ worker[w].rejected = {}
      BY <2>6 DEF SelectQueued, LocksHeld
    <3>3. /\ worker'[w].free = worker[w].free /\ worker'[w].todo = S
          /\ worker'[w].started = {} /\ worker'[w].rejected = {}
      BY <2>3, <3>1, <3>2 DEF WorkerState
    <3>4. InHand(w)' = S
      BY <3>3 DEF InHand
    <3>5. Cardinality(S) <= worker[w].free
      BY <3>1 DEF IsSelection
    <3> QED BY <3>3, <3>4, <3>5 DEF HandsMove
  <2>7. ASSUME NEW r \in Runs,
               AdmitStarts(w, r) \/ AdmitRefused(w, r) \/ ProfileMissing(w, r)
        PROVE  HandsMove(w)
    <3>1. r \in worker[w].todo
      BY <2>7 DEF AdmitStarts, AdmitRefused, ProfileMissing, IsNext
    <3>2. /\ worker'[w].free = worker[w].free
          /\ worker'[w].todo = worker[w].todo \ {r}
          /\ worker'[w].started \subseteq worker[w].started \union {r}
          /\ worker'[w].rejected \subseteq worker[w].rejected \union {r}
      BY <2>3, <2>7 DEF AdmitStarts, AdmitRefused, ProfileMissing, WorkerState
    <3> QED BY <3>1, <3>2 DEF HandsMove, InHand
  <2> QED BY <2>1, <2>2, <2>4, <2>5, <2>6, <2>7 DEF WorkerStep
<1> QED BY <1>1, <1>2

LEMMA SlotInit ==
    ASSUME Init, Limited
    PROVE  SlotInv
<1>1. Counted = {} /\ Allowance = {}
  BY DEF Init, StoreInit, QueueInit, Idle, Counted, Active, HoldsSlot, Exists, Allowance
<1>2. \A w \in Workers : InHand(w) = {} /\ worker[w].free = 0
  BY DEF Init, QueueInit, Idle, InHand
<1>3. Cardinality({}) = 0 /\ Cardinality(Workers) \in Nat
  BY FS_EmptySet, FS_CardinalityType, WorkersFinite
<1>4. 0 <= Cardinality(Workers) * MaxConcurrent
  BY <1>3, MaxConcurrentAssumption DEF Limited
<1>5. Cardinality(Counted) = 0 /\ Cardinality(Allowance) = 0
  BY <1>1, <1>3
<1>6. \A w \in Workers : /\ worker[w].free <= MaxConcurrent
                         /\ Cardinality(InHand(w)) <= worker[w].free
  <2>1. 0 <= MaxConcurrent
    BY MaxConcurrentAssumption DEF Limited
  <2>2. \A w \in Workers : Cardinality(InHand(w)) = 0
    BY <1>2, <1>3
  <2> QED BY <1>2, <2>1, <2>2
<1>7. Cardinality(Counted) + Cardinality(Allowance) <= Cardinality(Workers) * MaxConcurrent
  BY <1>4, <1>5
<1> QED BY <1>6, <1>7 DEF SlotInv

\* Counting again replaces what the worker was allowed before: what it finds
\* free and what is taken make up the limit at most.
LEMMA CountingKeepsSlots ==
    ASSUME TypeInv, TypeInv', SlotInv, Limited, NEW w \in Workers, CountSlots(w),
           Counted' \subseteq Counted,
           \A v \in Workers \ {w} : worker'[v].free <= MaxConcurrent,
           worker'[w].free = FreeSlots
    PROVE  Cardinality(Counted') + Cardinality(Allowance')
               <= Cardinality(Workers) * MaxConcurrent
<1> DEFINE W == Cardinality(Workers)
           others == (Workers \ {w}) \X (1..MaxConcurrent)
           own    == {w} \X (1..worker'[w].free)
<1>1. W \in Nat /\ MaxConcurrent \in Nat /\ worker'[w].free \in Nat
  BY WorkersFinite, FS_CardinalityType, MaxConcurrentAssumption
     DEF Limited, TypeInv, TypeOK, QueueTypeOK, WorkerState
<1>2. IsFiniteSet(Workers \ {w}) /\ Cardinality(Workers \ {w}) = W - 1
  BY WorkersFinite, FS_RemoveElement
<1>3. IsFiniteSet(others) /\ Cardinality(others) = (W - 1) * MaxConcurrent
  <2>1. IsFiniteSet(1..MaxConcurrent) /\ Cardinality(1..MaxConcurrent) = MaxConcurrent
    BY <1>1, IntervalCount
  <2>2. /\ IsFiniteSet(others)
        /\ Cardinality(others) = Cardinality(Workers \ {w}) * Cardinality(1..MaxConcurrent)
    BY <1>2, <2>1, FS_Product
  <2> QED BY <1>2, <2>1, <2>2
<1>4. IsFiniteSet(own) /\ Cardinality(own) = worker'[w].free
  BY <1>1, AllowedCount
<1>5. Allowance' \in SUBSET (others \union own)
  BY <1>1 DEF Allowance
<1>6. Cardinality(Allowance') <= (W - 1) * MaxConcurrent + worker'[w].free
  <2>1. /\ IsFiniteSet(others \union own)
        /\ Cardinality(others \union own) =
              Cardinality(others) + Cardinality(own) - Cardinality(others \intersect own)
    BY <1>3, <1>4, FS_Union
  <2>2. Cardinality(others \intersect own) = 0
    <3>1. others \intersect own = {}
      OBVIOUS
    <3> QED BY <3>1, FS_EmptySet
  <2>3. Cardinality(Allowance') <= Cardinality(others \union own)
    BY <1>5, <2>1, FS_Subset
  <2> HIDE DEF others, own
  <2> QED BY <1>1, <1>3, <1>4, <2>1, <2>2, <2>3
<1>7. Cardinality(Counted') <= Cardinality(Active) /\ Cardinality(Counted') \in Nat
  <2>1. Active \subseteq Runs /\ Counted' \in SUBSET Active
    BY DEF Active, Counted
  <2> QED BY <2>1, RunSetsAreFinite, FS_Subset, FS_CardinalityType
<1>8. Cardinality(Active) + worker'[w].free <= MaxConcurrent
  <2>1. Cardinality(Active) \in Nat
    BY RunSetsAreFinite DEF Active
  <2>2. FreeSlots # 0
    BY DEF CountSlots
  <2> QED BY <1>1, <2>1, <2>2 DEF FreeSlots, Limited
<1>9. (W - 1) * MaxConcurrent = W * MaxConcurrent - MaxConcurrent
  BY <1>1
<1>10. /\ Cardinality(Allowance') \in Nat /\ (W - 1) * MaxConcurrent \in Int
       /\ W * MaxConcurrent \in Int /\ Cardinality(Active) \in Nat
  <2>1. IsFiniteSet(Allowance') /\ Cardinality(Allowance') \in Nat
    BY <1>3, <1>4, <1>5, FS_Union, FS_Subset, FS_CardinalityType
  <2> QED BY <1>1, <2>1, RunSetsAreFinite DEF Active
<1> HIDE DEF W, others, own
<1> QED BY <1>1, <1>6, <1>7, <1>8, <1>9, <1>10 DEF W

\* A commit turns what the worker was allowed into runs that hold a slot.
LEMMA CommitKeepsSlots ==
    ASSUME TypeInv, TypeInv', SlotInv, Limited, NEW w \in Workers,
           Counted' \subseteq Counted \union worker[w].started,
           worker'[w].free = 0,
           \A v \in Workers : worker'[v].free <= worker[v].free
    PROVE  Cardinality(Counted') + Cardinality(Allowance')
               <= Cardinality(Workers) * MaxConcurrent
<1> DEFINE own == {w} \X (1..worker[w].free)
<1>1. worker[w] \in WorkerState
  BY DEF TypeInv, TypeOK, QueueTypeOK
<1>2. worker[w].free \in Nat /\ worker[w].started \subseteq Runs
  BY <1>1 DEF WorkerState
<1>3. Cardinality(worker[w].started) <= worker[w].free
  <2>1. InHand(w) \subseteq Runs /\ worker[w].started \in SUBSET InHand(w)
    BY <1>1 DEF InHand, WorkerState
  <2>2. /\ IsFiniteSet(InHand(w)) /\ Cardinality(InHand(w)) \in Nat
        /\ Cardinality(worker[w].started) \in Nat
        /\ Cardinality(worker[w].started) <= Cardinality(InHand(w))
    BY <1>2, <2>1, RunSetsAreFinite, FS_Subset
  <2>3. Cardinality(InHand(w)) <= worker[w].free
    BY DEF SlotInv
  <2> QED BY <1>2, <2>2, <2>3
<1>4. Cardinality(Counted') <= Cardinality(Counted) + worker[w].free
  <2>1. Counted \subseteq Runs /\ Counted' \in SUBSET (Counted \union worker[w].started)
    BY DEF Counted, Active
  <2>2. /\ IsFiniteSet(Counted \union worker[w].started)
        /\ Cardinality(Counted \union worker[w].started) =
              Cardinality(Counted) + Cardinality(worker[w].started)
                - Cardinality(Counted \intersect worker[w].started)
    BY <1>2, <2>1, RunSetsAreFinite, FS_Union
  <2>3. Cardinality(Counted') <= Cardinality(Counted \union worker[w].started)
    BY <2>1, <2>2, FS_Subset
  <2>4. /\ Cardinality(Counted) \in Nat /\ Cardinality(worker[w].started) \in Nat
        /\ Cardinality(Counted \intersect worker[w].started) \in Nat
        /\ Cardinality(Counted') \in Nat
    BY <1>2, <2>1, RunSetsAreFinite
  <2> QED BY <1>2, <1>3, <2>2, <2>3, <2>4
<1>5. /\ IsFiniteSet(Allowance) /\ Cardinality(Allowance) \in Nat
  BY AllowancesAreFinite
<1>6. Cardinality(Allowance') + worker[w].free <= Cardinality(Allowance)
  <2>1. IsFiniteSet(own) /\ Cardinality(own) = worker[w].free
    BY <1>2, AllowedCount
  <2>2. own \subseteq Allowance
    BY <1>2, MaxConcurrentAssumption DEF Allowance, SlotInv
  <2>3. Allowance' \in SUBSET (Allowance \ own)
    <3>1. \A v \in Workers : worker[v].free \in Nat /\ worker'[v].free \in Nat
      BY DEF TypeInv, TypeOK, QueueTypeOK, WorkerState
    <3> QED BY <3>1 DEF Allowance
  <2>4. /\ IsFiniteSet(Allowance \ own)
        /\ Cardinality(Allowance \ own) = Cardinality(Allowance) - Cardinality(own)
    <3>1. Allowance \intersect own = own
      BY <2>2
    <3> HIDE DEF own
    <3> QED BY <1>5, <3>1, FS_Difference
  <2>5. /\ Cardinality(Allowance') <= Cardinality(Allowance \ own)
        /\ Cardinality(Allowance') \in Nat
    BY <2>3, <2>4, FS_Subset, FS_CardinalityType
  <2> HIDE DEF own
  <2> QED BY <1>2, <1>5, <2>1, <2>4, <2>5
<1>7. /\ Cardinality(Allowance') \in Nat /\ Cardinality(Counted) \in Nat
      /\ Cardinality(Counted') \in Nat /\ Cardinality(Workers) * MaxConcurrent \in Int
  <2>1. Counted \subseteq Runs /\ Counted' \subseteq Runs
    BY DEF Counted, Active
  <2>2. Allowance' \in SUBSET (Workers \X (1..MaxConcurrent))
    BY DEF Allowance
  <2>3. Cardinality(Workers) \in Nat
    BY WorkersFinite, FS_CardinalityType
  <2> QED BY <2>1, <2>2, <2>3, RunSetsAreFinite, AllowancesAreFinite, FS_Subset,
             FS_CardinalityType, MaxConcurrentAssumption
<1> QED BY <1>2, <1>4, <1>5, <1>6, <1>7 DEF SlotInv

LEMMA NoDirectStartStep ==
    ASSUME TypeInv, QueueEnabled, NoDirectStart, [Next]_vars
    PROVE  NoDirectStart'
<1> SUFFICES ASSUME NEW h \in Handlers PROVE ~Serves(h, "createdJob")'
  BY DEF NoDirectStart
<1>1. RequestMoves(h)
  BY RequestsMove
<1> QED BY <1>1 DEF RequestMoves, NoDirectStart, Serves, NoRequest

LEMMA SlotStep ==
    ASSUME TypeInv, TypeInv', RowInv, LocksInv, LaunchInv, NoDirectStart, SlotInv,
           Limited, [Next]_vars
    PROVE  SlotInv'
<1>1. /\ \A w \in Workers : worker[w].free \in Nat /\ worker'[w].free \in Nat
      /\ Idle.free = 0 /\ Idle.todo = {} /\ Idle.started = {} /\ Idle.rejected = {}
      /\ MaxConcurrent \in Nat /\ Cardinality({}) = 0
  BY MaxConcurrentAssumption, FS_EmptySet
     DEF TypeInv, TypeOK, QueueTypeOK, WorkerState, Idle, Limited
<1>2. ASSUME NEW w \in Workers
      PROVE  /\ \/ worker'[w].free \in {worker[w].free, 0}
                \/ CountSlots(w) /\ worker'[w].free = FreeSlots
             /\ worker'[w].free <= MaxConcurrent
             /\ Cardinality(InHand(w)') <= worker'[w].free
  <2>1. HandsMove(w)
    BY TicksKeepTheirCount
  <2>2. CASE worker'[w] = worker[w]
    BY <2>2 DEF SlotInv, InHand
  <2>3. CASE worker'[w] = Idle
    <3>1. InHand(w)' = {}
      BY <1>1, <2>3 DEF InHand
    <3>2. Cardinality(InHand(w)') = 0
      BY <1>1, <3>1
    <3> QED BY <1>1, <2>3, <3>2
  <2>4. CASE /\ CountSlots(w)
             /\ worker'[w] = [Idle EXCEPT !.pc = "counted", !.free = FreeSlots]
    <3>1. worker'[w].free = FreeSlots /\ InHand(w)' = {}
      BY <2>4 DEF Idle, InHand
    <3>2. Cardinality(InHand(w)') = 0
      BY <1>1, <3>1
    <3>3. FreeSlots <= MaxConcurrent
      <4>1. Cardinality(Active) \in Nat
        BY RunSetsAreFinite DEF Active
      <4> QED BY <1>1, <4>1 DEF FreeSlots, Limited
    <3>4. worker'[w].free <= MaxConcurrent
      BY <3>1, <3>3
    <3>5. Cardinality(InHand(w)') <= worker'[w].free
      BY <1>1, <3>2
    <3> QED BY <2>4, <3>1, <3>4, <3>5
  <2>5. CASE /\ worker'[w].free = worker[w].free
             /\ \/ InHand(w)' \subseteq InHand(w)
                \/ Cardinality(InHand(w)') <= worker[w].free
    <3>1. CASE InHand(w)' \subseteq InHand(w)
      <4>1. InHand(w) \subseteq Runs /\ InHand(w)' \in SUBSET InHand(w)
        BY <3>1 DEF InHand, TypeInv, TypeOK, QueueTypeOK, WorkerState
      <4>2. /\ Cardinality(InHand(w)) \in Nat /\ Cardinality(InHand(w)') \in Nat
            /\ Cardinality(InHand(w)') <= Cardinality(InHand(w))
        BY <4>1, RunSetsAreFinite, FS_Subset
      <4> QED BY <1>1, <2>5, <4>2 DEF SlotInv
    <3>2. CASE Cardinality(InHand(w)') <= worker[w].free
      BY <2>5, <3>2 DEF SlotInv
    <3> QED BY <2>5, <3>1, <3>2
  <2> QED BY <2>1, <2>2, <2>3, <2>4, <2>5 DEF HandsMove
<1>3. Cardinality(Counted') + Cardinality(Allowance')
         <= Cardinality(Workers) * MaxConcurrent
  <2>1. CASE \E w \in Workers : CountSlots(w) /\ worker'[w].free = FreeSlots
    <3>1. PICK w \in Workers : CountSlots(w) /\ worker'[w].free = FreeSlots
      BY <2>1
    <3>2. ASSUME NEW r \in Counted' PROVE r \in Counted
      <4>1. ~ \E v \in Workers : CommitTick(v) /\ r \in worker[v].started
        <5>1. UNCHANGED rows
          BY <3>1 DEF CountSlots, storeVars
        <5>2. r \in Runs /\ rows'[r].job
          BY <3>2 DEF Counted, Active, HoldsSlot
        <5> QED BY <5>1, <5>2 DEF TypeInv, LocksHeld, LocksInv, Waiting
      <4>2. r \in Runs
        BY <3>2 DEF Counted, Active
      <4> QED BY <3>2, <4>1, <4>2, SlotsAreGivenByTicks
    <3> QED BY <1>2, <3>1, <3>2, CountingKeepsSlots
  <2>2. CASE /\ ~ \E w \in Workers : CountSlots(w) /\ worker'[w].free = FreeSlots
             /\ \E w \in Workers : CommitTick(w)
    <3>1. PICK w \in Workers : CommitTick(w)
      BY <2>2
    <3>2. worker'[w].free = 0
      BY <1>1, <3>1 DEF CommitTick, TypeInv, TypeOK, QueueTypeOK
    <3>3. \A v \in Workers : worker'[v].free <= worker[v].free
      BY <1>1, <1>2, <2>2
    <3>4. \A r \in Counted' : r \in Counted \union worker[w].started
      <4>1. ASSUME NEW v \in Workers, v # w, CommitTick(v), NEW r \in worker[v].started
            PROVE  FALSE
        <5>1. r \in locks[v]
          BY <4>1 DEF TypeInv, LocksHeld
        <5>2. locks'[v] = {} /\ locks'[v] = locks[v]
          BY <3>1, <4>1 DEF CommitTick, TypeInv, TypeOK, StoreTypeOK
        <5> QED BY <5>1, <5>2
      <4> QED BY <4>1, SlotsAreGivenByTicks DEF Counted, Active
    <3> QED BY <3>2, <3>3, <3>4, CommitKeepsSlots
  <2>3. CASE /\ ~ \E w \in Workers : CountSlots(w) /\ worker'[w].free = FreeSlots
             /\ ~ \E w \in Workers : CommitTick(w)
    <3>1. Counted' \in SUBSET Counted
      BY <2>3, SlotsAreGivenByTicks DEF Counted, Active
    <3>2. Allowance' \in SUBSET Allowance
      <4>1. \A v \in Workers : worker'[v].free <= worker[v].free
        BY <1>1, <1>2, <2>3
      <4> QED BY <1>1, <4>1 DEF Allowance
    <3>3. Counted \subseteq Runs /\ Counted' \subseteq Runs
      BY DEF Counted, Active
    <3>4. /\ Cardinality(Counted') <= Cardinality(Counted)
          /\ Cardinality(Counted) \in Nat /\ Cardinality(Counted') \in Nat
      BY <3>1, <3>3, RunSetsAreFinite, FS_Subset
    <3>5. /\ Cardinality(Allowance') <= Cardinality(Allowance)
          /\ Cardinality(Allowance) \in Nat /\ Cardinality(Allowance') \in Nat
      BY <3>2, AllowancesAreFinite, FS_Subset, FS_CardinalityType
    <3>6. Cardinality(Workers) \in Nat
      BY WorkersFinite, FS_CardinalityType
    <3> QED BY <1>1, <3>4, <3>5, <3>6 DEF SlotInv
  <2> QED BY <2>1, <2>2, <2>3
<1> QED BY <1>2, <1>3 DEF SlotInv

SlotIInv == /\ LaunchIInv
            /\ QueueEnabled => NoDirectStart
            /\ Limited => SlotInv

LEMMA SlotInvariant == Spec => []SlotIInv
<1>1. Init /\ LaunchIInv => SlotIInv
  <2>1. Init => NoDirectStart
    BY DEF Init, RequestInit, NoDirectStart, Serves, NoRequest
  <2> QED BY <2>1, SlotInit DEF SlotIInv
<1>2. SlotIInv /\ LaunchIInv' /\ [Next]_vars => SlotIInv'
  BY SlotStep, NoDirectStartStep DEF SlotIInv, LaunchIInv, Limited
<1> QED BY <1>1, <1>2, LaunchInvariant, PTL DEF Spec

\* MAX_CONCURRENT_RUNS bounds the runs that hold a slot: each replica adds at
\* most the limit, whatever the others count and commit meanwhile.
THEOREM SlotsPerReplica == Spec => []CapPerReplica
<1>1. SlotIInv => CapPerReplica
  <2> SUFFICES ASSUME SlotInv, Limited
               PROVE  Cardinality(Counted) <= Cardinality(Workers) * MaxConcurrent
    BY DEF SlotIInv, CapPerReplica, Limited, Counted
  <2>1. Cardinality(Counted) \in Nat /\ Cardinality(Allowance) \in Nat
    BY RunSetsAreFinite, AllowancesAreFinite DEF Counted, Active
  <2>2. Cardinality(Workers) \in Nat /\ MaxConcurrent \in Int
    BY WorkersFinite, FS_CardinalityType, MaxConcurrentAssumption
  <2> QED BY <2>1, <2>2 DEF SlotInv
<1> QED BY <1>1, SlotInvariant, PTL

-----------------------------------------------------------------------------
(* The abstract queue.                                                     *)

PhaseOf(r) == AdmissionPhase[r]

LEMMA PhaseValues ==
    ASSUME NEW r \in Runs
    PROVE  /\ PhaseOf(r) = IF created[r] = 0 \/ BeingCreated(r) THEN "new"
                           ELSE IF r \in Waiting THEN "waiting"
                           ELSE IF HoldsSlot(r) /\ r \notin resurrected THEN "started"
                           ELSE "over"
           /\ (PhaseOf(r) = IF created[r] = 0 \/ BeingCreated(r) THEN "new"
                            ELSE IF r \in Waiting THEN "waiting"
                            ELSE IF HoldsSlot(r) /\ r \notin resurrected THEN "started"
                            ELSE "over")'
BY DEF PhaseOf, AdmissionPhase

\* How one step moves a run through the phases.
PhaseMoves(r) ==
    \/ PhaseOf(r)' \in {PhaseOf(r), "over"}
    \/ /\ PhaseOf(r) = "new" /\ PhaseOf(r)' = "waiting"
       /\ \E h \in Handlers : /\ CreateCommit(h) /\ Serves(h, "create")
                              /\ handler[h].run = r
    \/ /\ PhaseOf(r) = "waiting" /\ PhaseOf(r)' = "started"
       /\ \E w \in Workers : CommitTick(w) /\ r \in worker[w].started

\* A run that is being created goes on being created until its request ends.
LEMMA CreatingGoesOn ==
    ASSUME TypeInv, RowInv, [Next]_vars, NEW r \in Runs, created[r] # 0
    PROVE  BeingCreated(r)' => BeingCreated(r)
<1> SUFFICES ASSUME NEW h \in Handlers, handler'[h] # NoRequest,
                    handler'[h].run = r, handler'[h].op = "create"
             PROVE  BeingCreated(r)
  BY DEF BeingCreated
<1>1. RequestMoves(h)
  BY RequestsMove
<1> QED BY <1>1 DEF RequestMoves, BeingCreated, NoRequest

LEMMA RowsBelongToCreated ==
    ASSUME RowInv, NEW r \in Runs, Exists(r)
    PROVE  created[r] # 0 /\ ~BeingCreated(r)
BY DEF RowInv, IdsUsedOnce, BeingCreated, Creating, Busy

\* A row that did not wait for the queue does not begin to, unless it is new.
LEMMA NobodyWaitsAgain ==
    ASSUME TypeInv, TypeInv', RowInv, LocksInv, LaunchInv, [Next]_vars,
           "QUEUED" \notin StatusValues, NEW r \in Runs, r \in Waiting'
    PROVE  \/ r \in Waiting
           \/ \E h \in Handlers : /\ CreateCommit(h) /\ Creating(h)
                                  /\ handler[h].run = r
<1> USE DEF TypeInv, TypeOK, StoreTypeOK
<1>1. Exists(r)' /\ rows'[r].status = "QUEUED" /\ ~rows'[r].job
  BY DEF Waiting
<1>2. RowMoves(r)
  BY RowsMove
<1>3. CASE rows'[r] = rows[r]
  BY <1>1, <1>3 DEF Waiting, Exists
<1>4. CASE Edited(r)
  BY <1>1, <1>4 DEF Edited, StatusPosted, Waiting, TERMINAL_STATUSES
<1>5. ASSUME NEW w \in Workers, r \in locks[w] PROVE r \in Waiting
  BY <1>5 DEF LocksInv
<1> QED BY <1>1, <1>2, <1>3, <1>4, <1>5 DEF RowMoves, Exists

LEMMA PhasesMove ==
    ASSUME TypeInv, TypeInv', RowInv, RowInv', LocksInv, LaunchInv, NoDirectStart,
           [Next]_vars, "QUEUED" \notin StatusValues, NEW r \in Runs
    PROVE  PhaseMoves(r)
<1>1. CASE PhaseOf(r)' = "new"
  <2>1. created'[r] = 0 \/ BeingCreated(r)'
    BY <1>1, PhaseValues
  <2>2. created[r] = 0 \/ BeingCreated(r)
    BY <2>1, IdsStayDrawn, CreatingGoesOn
  <2> QED BY <1>1, <2>2, PhaseValues DEF PhaseMoves
<1>2. CASE PhaseOf(r)' = "waiting"
  <2>1. r \in Waiting'
    BY <1>2, PhaseValues
  <2>2. CASE r \in Waiting
    <3>1. PhaseOf(r) = "waiting"
      BY <2>2, PhaseValues, RowsBelongToCreated DEF Waiting
    <3> QED BY <1>2, <3>1 DEF PhaseMoves
  <2>3. ASSUME NEW h \in Handlers, CreateCommit(h), Creating(h), handler[h].run = r
        PROVE  PhaseMoves(r)
    <3>1. Serves(h, "create") /\ handler[h] # NoRequest /\ handler[h].op = "create"
      BY <2>3 DEF CreateCommit, Serves, NoDirectStart, NoRequest
    <3>2. PhaseOf(r) = "new"
      BY <2>3, <3>1, PhaseValues DEF BeingCreated
    <3> QED BY <1>2, <2>3, <3>1, <3>2 DEF PhaseMoves
  <2> QED BY <2>1, <2>2, <2>3, NobodyWaitsAgain
<1>3. CASE PhaseOf(r)' = "started"
  <2>1. r \in Counted'
    BY <1>3, PhaseValues DEF Counted, Active
  <2>2. CASE r \in Counted
    <3>1. HoldsSlot(r) /\ r \notin resurrected
      BY <2>2 DEF Counted, Active
    <3>2. r \notin Waiting /\ Exists(r)
      BY <3>1 DEF HoldsSlot, Waiting
    <3>3. PhaseOf(r) = "started"
      BY <3>1, <3>2, PhaseValues, RowsBelongToCreated
    <3> QED BY <1>3, <3>3 DEF PhaseMoves
  <2>3. ASSUME NEW w \in Workers, CommitTick(w), r \in worker[w].started
        PROVE  PhaseMoves(r)
    <3>1. r \in Waiting
      BY <2>3 DEF TypeInv, LocksHeld, LocksInv
    <3>2. PhaseOf(r) = "waiting"
      BY <3>1, PhaseValues, RowsBelongToCreated DEF Waiting
    <3> QED BY <1>3, <2>3, <3>2 DEF PhaseMoves
  <2> QED BY <2>1, <2>2, <2>3, SlotsAreGivenByTicks
<1>4. CASE PhaseOf(r)' = "over"
  BY <1>4 DEF PhaseMoves
<1> QED BY <1>1, <1>2, <1>3, <1>4, PhaseValues

\* The instance has its own name for what it takes from FiniteSets.
LEMMA SameCardinality == \A S : Admission!Cardinality(S) = Cardinality(S)
BY DEF Admission!Cardinality, Cardinality

LEMMA PhaseStays ==
    ASSUME [Next]_vars, NEW r \in Runs,
           rows'[r] = rows[r], created'[r] = created[r],
           BeingCreated(r)' <=> BeingCreated(r)
    PROVE  PhaseOf(r)' = PhaseOf(r)
<1>1. resurrected' = resurrected \/ Record
  BY DEF Next, OfWorkers, OfHandlers, OfReconcilers, OfEnvironment, vars
<1>2. /\ Exists(r)' <=> Exists(r)
      /\ (r \in Waiting') <=> (r \in Waiting)
      /\ HoldsSlot(r)' <=> HoldsSlot(r)
      /\ Terminal(r)' <=> Terminal(r)
  BY DEF Exists, Waiting, HoldsSlot, Terminal
<1>3. (r \in resurrected') <=> (r \in resurrected)
  BY <1>1, <1>2 DEF Record, Resurrects
<1> QED BY <1>2, <1>3, PhaseValues

\* The row of a new run is inserted beside the others.
LEMMA CreateIsSubmit ==
    ASSUME TypeInv, [Next]_vars, NEW h \in Handlers, CreateCommit(h),
           NEW q \in Runs, handler[h].run = q,
           PhaseOf(q) = "new", PhaseOf(q)' = "waiting"
    PROVE  Admission!Submit(q)
<1>1. ASSUME NEW r \in Runs, r # q PROVE PhaseOf(r)' = PhaseOf(r)
  <2>1. rows'[r] = rows[r] /\ created'[r] = created[r]
    BY <1>1 DEF CreateCommit, TypeInv, TypeOK, StoreTypeOK
  <2>2. \A g \in Handlers : g # h => handler'[g] = handler[g]
    BY DEF CreateCommit, Done, TypeInv, TypeOK, RequestTypeOK
  <2>3. handler'[h] = NoRequest
    BY DEF CreateCommit, Done, TypeInv, TypeOK, RequestTypeOK
  <2>4. BeingCreated(r)' <=> BeingCreated(r)
    BY <1>1, <2>2, <2>3 DEF BeingCreated
  <2> QED BY <2>1, <2>4, PhaseStays
<1>2. AdmissionPhase' = [AdmissionPhase EXCEPT ![q] = "waiting"]
  BY <1>1 DEF AdmissionPhase, PhaseOf
<1> QED BY <1>2 DEF Admission!Submit, PhaseOf

\* A tick starts and rejects waiting runs, and starts no more than are free.
LEMMA CommitIsTick ==
    ASSUME TypeInv, LocksInv, RowInv, Limited => SlotInv, QueueEnabled, [Next]_vars,
           NEW w \in Workers, CommitTick(w),
           \A r \in Runs : \/ PhaseOf(r)' \in {PhaseOf(r), "over"}
                           \/ /\ PhaseOf(r) = "waiting" /\ PhaseOf(r)' = "started"
                              /\ \E v \in Workers : /\ CommitTick(v)
                                                     /\ r \in worker[v].started
    PROVE  \E S, D \in SUBSET Runs : Admission!Tick(S, D)
<1> DEFINE S == {r \in Runs : PhaseOf(r) = "waiting" /\ PhaseOf(r)' = "started"}
           D == {r \in Runs : PhaseOf(r) # "over" /\ PhaseOf(r)' = "over"}
<1>1. worker[w] \in WorkerState /\ worker[w].free \in Nat
  BY DEF TypeInv, TypeOK, QueueTypeOK, WorkerState
<1>2. ASSUME NEW v \in Workers, CommitTick(v), NEW r \in worker[v].started
      PROVE  v = w
  <2> SUFFICES ASSUME v # w PROVE FALSE
    OBVIOUS
  <2>1. r \in locks[v]
    BY <1>2 DEF TypeInv, LocksHeld
  <2>2. locks'[v] = {} /\ locks'[v] = locks[v]
    BY <1>2 DEF CommitTick, TypeInv, TypeOK, StoreTypeOK
  <2> QED BY <2>1, <2>2
<1>3. ASSUME NEW r \in D PROVE PhaseOf(r) = "waiting"
  <2>1. CASE r \in locks[w]
    <3>1. r \in Waiting
      BY <2>1 DEF LocksInv
    <3> QED BY <3>1, PhaseValues, RowsBelongToCreated DEF Waiting
  <2>2. CASE r \notin locks[w]
    <3>1. rows'[r] = rows[r] /\ created'[r] = created[r]
      BY <2>2 DEF CommitTick, AdmittedRow, TypeInv, LocksHeld
    <3>2. handler' = handler
      <4>1. worker' # worker
        BY <1>1 DEF CommitTick, Idle, TypeInv, TypeOK, QueueTypeOK
      <4> QED BY <4>1 DEF Next, OfWorkers, OfHandlers, OfReconcilers, OfEnvironment, vars,
                          queueVars
    <3>3. BeingCreated(r)' <=> BeingCreated(r)
      BY <3>2 DEF BeingCreated
    <3>4. PhaseOf(r)' = PhaseOf(r)
      BY <3>1, <3>3, PhaseStays
    <3> QED BY <3>4
  <2> QED BY <2>1, <2>2
<1>4. Cardinality(Admission!InPhase("started")) + Cardinality(S) <= AllSlots
  <2> DEFINE Started == Admission!InPhase("started")
  <2> SUFFICES Cardinality(Started) + Cardinality(S) <= AllSlots
    OBVIOUS
  <2>1. Started \subseteq Runs /\ S \subseteq Runs /\ Started \intersect S = {}
    BY DEF Admission!InPhase, PhaseOf
  <2>2. CASE ~Limited
    <3>1. AllSlots = Cardinality(Runs)
      BY <2>2, MaxConcurrentAssumption DEF Limited, AllSlots
    <3>2. /\ Cardinality(Started \union S) =
                Cardinality(Started) + Cardinality(S) - Cardinality(Started \intersect S)
          /\ Cardinality(Started \intersect S) = 0
      BY <2>1, RunSetsAreFinite, FS_Union, FS_EmptySet
    <3>3. Cardinality(Started \union S) <= Cardinality(Runs)
      BY <2>1, RunsFinite, FS_Subset
    <3>4. Cardinality(Started) \in Nat /\ Cardinality(S) \in Nat
      BY <2>1, RunSetsAreFinite
    <3> HIDE DEF S, Started
    <3> QED BY <3>1, <3>2, <3>3, <3>4
  <2>3. CASE Limited
    <3>1. S \in SUBSET InHand(w) /\ InHand(w) \subseteq Runs
      BY <1>1, <1>2 DEF InHand, WorkerState
    <3>2. Started \in SUBSET Counted
      BY PhaseValues DEF Admission!InPhase, PhaseOf, Counted, Active
    <3>3. /\ Cardinality(S) <= Cardinality(InHand(w)) /\ Cardinality(S) \in Nat
          /\ Cardinality(InHand(w)) \in Nat /\ Cardinality(InHand(w)) <= worker[w].free
      BY <2>3, <3>1, RunSetsAreFinite, FS_Subset DEF SlotInv
    <3>4. /\ Cardinality(Started) <= Cardinality(Counted)
          /\ Cardinality(Started) \in Nat
          /\ Cardinality(Counted) \in Nat
      <4>1. Counted \subseteq Runs
        BY DEF Counted, Active
      <4> QED BY <3>2, <4>1, RunSetsAreFinite, FS_Subset
    <3>5. /\ worker[w].free <= Cardinality(Allowance) /\ Cardinality(Allowance) \in Nat
      <4>1. Allowed(w) \in SUBSET Allowance
        BY <1>1, <2>3, MaxConcurrentAssumption DEF Allowed, Allowance, SlotInv
      <4>2. Cardinality(Allowed(w)) = worker[w].free
        BY <1>1, AllowedCount DEF Allowed
      <4> QED BY <2>3, <4>1, <4>2, AllowancesAreFinite, FS_Subset
    <3>6. Cardinality(Counted) + Cardinality(Allowance) <= AllSlots
      BY <2>3, MaxConcurrentAssumption DEF SlotInv, Limited, AllSlots
    <3>7. AllSlots \in Int
      BY <2>3, MaxConcurrentAssumption, WorkersFinite, FS_CardinalityType DEF AllSlots, Limited
    <3> HIDE DEF S, Started
    <3> QED BY <1>1, <3>3, <3>4, <3>5, <3>6, <3>7
  <2> QED BY <2>2, <2>3
<1>5. AdmissionPhase' = [r \in Runs |-> IF r \in S THEN "started"
                                        ELSE IF r \in D THEN "over" ELSE AdmissionPhase[r]]
  BY DEF AdmissionPhase, PhaseOf
<1>6. /\ S \subseteq Admission!InPhase("waiting") /\ D \subseteq Admission!InPhase("waiting")
      /\ S \intersect D = {} /\ S \in SUBSET Runs /\ D \in SUBSET Runs
  BY <1>3 DEF Admission!InPhase, PhaseOf
<1> HIDE DEF S, D
<1>7. Admission!Tick(S, D)
  BY <1>4, <1>5, <1>6, SameCardinality DEF Admission!Tick
<1> QED BY <1>6, <1>7

LEMMA StepIsAdmission ==
    ASSUME TypeInv, TypeInv', RowInv, RowInv', LocksInv, LaunchInv, NoDirectStart,
           Limited => SlotInv, QueueEnabled, [Next]_vars, "QUEUED" \notin StatusValues
    PROVE  [Admission!Next]_AdmissionPhase
<1>1. \A r \in Runs : PhaseMoves(r)
  BY PhasesMove
<1>2. CASE \E r \in Runs : PhaseOf(r) = "new" /\ PhaseOf(r)' = "waiting"
  <2>1. PICK r \in Runs : PhaseOf(r) = "new" /\ PhaseOf(r)' = "waiting"
    BY <1>2
  <2>2. PICK h \in Handlers : CreateCommit(h) /\ handler[h].run = r
    BY <1>1, <2>1 DEF PhaseMoves
  <2>3. Admission!Submit(r)
    BY <2>1, <2>2, CreateIsSubmit
  <2> QED BY <2>3 DEF Admission!Next
<1>3. CASE /\ ~ \E r \in Runs : PhaseOf(r) = "new" /\ PhaseOf(r)' = "waiting"
           /\ \E w \in Workers : CommitTick(w)
  <2>1. PICK w \in Workers : CommitTick(w)
    BY <1>3
  <2>2. \A r \in Runs :
           \/ PhaseOf(r)' \in {PhaseOf(r), "over"}
           \/ /\ PhaseOf(r) = "waiting" /\ PhaseOf(r)' = "started"
              /\ \E v \in Workers : CommitTick(v) /\ r \in worker[v].started
    BY <1>1, <1>3 DEF PhaseMoves
  <2>3. \E S, D \in SUBSET Runs : Admission!Tick(S, D)
    BY <2>1, <2>2, CommitIsTick
  <2> QED BY <2>3 DEF Admission!Next
<1>4. CASE /\ ~ \E r \in Runs : PhaseOf(r) = "new" /\ PhaseOf(r)' = "waiting"
           /\ ~ \E w \in Workers : CommitTick(w)
  <2> DEFINE D == {r \in Runs : PhaseOf(r)' # PhaseOf(r)}
  <2>1. \A r \in Runs : PhaseOf(r)' \in {PhaseOf(r), "over"}
    BY <1>1, <1>4 DEF PhaseMoves
  <2>2. AdmissionPhase' = [r \in Runs |-> IF r \in D THEN "over" ELSE AdmissionPhase[r]]
    BY <2>1 DEF AdmissionPhase, PhaseOf
  <2>3. CASE D = {}
    <3>1. AdmissionPhase' = [r \in Runs |-> AdmissionPhase[r]]
      BY <2>2, <2>3
    <3>2. AdmissionPhase = [r \in Runs |-> AdmissionPhase[r]]
      BY DEF AdmissionPhase
    <3> QED BY <3>1, <3>2
  <2>4. CASE D # {}
    <3>1. D \in SUBSET Runs
      OBVIOUS
    <3> HIDE DEF D
    <3> QED BY <2>2, <2>4, <3>1 DEF Admission!Finish, Admission!Next
  <2> QED BY <2>3, <2>4
<1> QED BY <1>2, <1>3, <1>4

\* Any number of replicas with the queue enabled implement the abstract
\* queue: a run is started once, out of the queue, and never more hold a slot
\* than the replicas may start; a tick takes effect as one step, although it
\* creates its Jobs one by one.  The PDE posts no status "QUEUED".
THEOREM QueueImplementsAdmission ==
    ASSUME QueueEnabled, "QUEUED" \notin StatusValues
    PROVE  Spec => ImplementsAdmissionControl
<1>1. Init => Admission!Init
  <2> SUFFICES ASSUME Init PROVE Admission!Init
    OBVIOUS
  <2>1. \A r \in Runs : created[r] = 0
    BY DEF Init, StoreInit
  <2> QED BY <2>1 DEF AdmissionPhase, Admission!Init
<1>2. SlotIInv /\ SlotIInv' /\ [Next]_vars => [Admission!Next]_AdmissionPhase
  BY StepIsAdmission DEF SlotIInv, LaunchIInv
<1> QED BY <1>1, <1>2, SlotInvariant, PTL DEF Spec, ImplementsAdmissionControl, Admission!Spec
=============================================================================
