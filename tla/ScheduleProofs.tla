--------------------------- MODULE ScheduleProofs ---------------------------
(***************************************************************************)
(* The safety of the schedules for any number of schedules, replicas,      *)
(* callers and faults.  Typed, which every later proof rests on, says what *)
(* the row locks and the ids give: a locked row is there, due and locked   *)
(* once, and only its creator deals with an id that has no row yet.  Each  *)
(* property then has an invariant of its own that follows an occurrence,   *)
(* an input or a revision from step to step.                               *)
(***************************************************************************)
EXTENDS Schedules, FiniteSetTheorems, TLAPS

-----------------------------------------------------------------------------
(* Operators.                                                              *)

LEMMA NextFireAfter ==
    ASSUME NEW cron \in Crons, NEW t \in Nat
    PROVE  NextFire(cron, t) \in Nat /\ NextFire(cron, t) > t
<1>1. cron \in Nat /\ cron > 0
  BY CronsAssumption
<1>2. /\ t \div cron \in Nat
      /\ t % cron \in 0..cron-1
  BY <1>1
<1>3. t = cron * (t \div cron) + (t % cron)
  BY <1>1
<1> DEFINE q == t \div cron
<1>4. q * cron \in Nat /\ (q + 1) * cron = q * cron + cron
  BY <1>1, <1>2
<1> QED BY <1>1, <1>2, <1>3, <1>4 DEF NextFire

\* A commit writes a column as the session has it or leaves it as it is.
LEMMA FlushColumnsSound ==
    ASSUME NEW current \in ScheduleRow, NEW loaded \in ScheduleRow,
           NEW copy \in ScheduleRow
    PROVE  LET new == FlushColumns(current, loaded, copy)
           IN  /\ new \in ScheduleRow
               /\ new.rev = IF copy.rev # loaded.rev THEN copy.rev ELSE current.rev
  BY DEF FlushColumns, ScheduleRow

-----------------------------------------------------------------------------
(* Types.                                                                  *)

\* What a request carries from one step to the next.
CallOK(c) ==
    /\ c.kind \in {"create", "update"} => c.copy.rev > 0
    /\ c.kind \in {"create", "update", "enable", "disable"} => c.copy \in ScheduleRow
    /\ c.kind \in {"update", "enable", "disable"} => c.loaded \in ScheduleRow

CallsOK == \A h \in Callers : CallOK(call[h])

\* A dispatcher holds locks only while it claims, before it has anything to
\* do, and then works on one schedule after the other.
TickOK(d) ==
    /\ tick[d].pc = "claiming" => tick[d].todo = {}
    /\ tick[d].pc = "asleep" => tick[d].todo = {}
    /\ tick[d].pc # "claiming" => held[d] = {}
    /\ tick[d].pc \in {"loading", "creating", "recording"} =>
          tick[d].at \in Schedules \ tick[d].todo
    /\ tick[d].now <= clock

\* A row that is locked is there, is due, and is locked by nobody else.
LocksOK ==
    \A d \in Dispatchers : \A s \in held[d] :
        /\ Exists(s) /\ sched[s].next <= tick[d].now
        /\ \A e \in Dispatchers \ {d} : s \notin held[e]

\* An id is created by one request, and nobody else has a part in it until
\* that request has committed.
IdsUsedOnce ==
    /\ \A h \in Callers : call[h].kind = "create" =>
          /\ ~Exists(call[h].s) /\ life[call[h].s] = "used"
          /\ \A g \in Callers \ {h} : call[g].s # call[h].s
    /\ \A s \in Schedules : life[s] = "unused" =>
          /\ ~Exists(s)
          /\ \A h \in Callers : call[h].s # s

Typed == /\ TypeOK /\ CallsOK /\ IdsUsedOnce
         /\ \A d \in Dispatchers : TickOK(d)
         /\ LocksOK

LEMMA TypedInit == Init => Typed
<1> SUFFICES ASSUME Init PROVE Typed
  OBVIOUS
<1> USE BoundsAssumption, RequestsAssumption
    DEF Init, ScheduleStoreInit, ServiceInit, DispatcherInit
<1>1. ScheduleStoreTypeOK
  BY DEF ScheduleStoreTypeOK, NoInput
<1>2. ServiceTypeOK
  BY DEF ServiceTypeOK
<1>3. DispatcherTypeOK
  BY DEF DispatcherTypeOK, TickState, Asleep, NoAnchor, NoInput
<1>4. CallsOK
  BY DEF CallsOK, CallOK, NoCall
<1>5. \A d \in Dispatchers : TickOK(d)
  BY DEF TickOK, Asleep
<1>6. LocksOK
  BY DEF LocksOK
<1>7. IdsUsedOnce
  BY NoScheduleAssumption DEF IdsUsedOnce, NoCall, Exists
<1> QED BY <1>1, <1>2, <1>3, <1>4, <1>5, <1>6, <1>7 DEF Typed, TypeOK

LEMMA RowTyped ==
    ASSUME Typed, NEW s \in Schedules, Exists(s)
    PROVE  sched[s] \in ScheduleRow
  BY DEF Typed, TypeOK, ScheduleStoreTypeOK, Exists

LEMMA RecordTyped ==
    ASSUME Typed, Record
    PROVE  anchored' \in [Schedules -> [Times -> Nat]]
  BY DEF Typed, TypeOK, Record

LEMMA AcceptTyped ==
    ASSUME Typed, NEW h \in Callers, NEW s \in Schedules,
           NEW kind \in KindsOfRequest,
           NEW step \in {"store", "commit", "erase", "load", "start"},
           NEW loaded \in ScheduleRow \union {NoSchedule},
           NEW copy \in ScheduleRow \union {NoSchedule},
           CallOK([kind |-> kind, step |-> step, s |-> s,
                   loaded |-> loaded, copy |-> copy]),
           Accept(h, kind, step, s, loaded, copy)
    PROVE  /\ call' \in [Callers -> Call \union {NoCall}]
           /\ served' \in 0..MaxRequests
           /\ CallsOK'
<1> DEFINE c == [kind |-> kind, step |-> step, s |-> s, loaded |-> loaded, copy |-> copy]
<1>1. c \in Call
  BY DEF Call
<1>2. call' = [call EXCEPT ![h] = c] /\ served' = served + 1 /\ served < MaxRequests
  BY DEF Accept
<1>3. call \in [Callers -> Call \union {NoCall}] /\ served \in 0..MaxRequests
  BY DEF Typed, TypeOK, ServiceTypeOK
<1>4. CallsOK'
  BY <1>2, <1>3 DEF Typed, CallsOK
<1> QED BY <1>1, <1>2, <1>3, <1>4, RequestsAssumption

LEMMA ArrivalTyped ==
    ASSUME Typed, NEW h \in Callers, CallArrives(h)
    PROVE  /\ call' \in [Callers -> Call \union {NoCall}]
           /\ served' \in 0..MaxRequests
           /\ life' \in [Schedules -> {"unused", "used", "deleted"}]
           /\ CallsOK'
           /\ UNCHANGED <<tableVars, stored, runVars, clock, faults>>
<1>1. life \in [Schedules -> {"unused", "used", "deleted"}]
      /\ served \in Nat /\ clock \in Nat
  BY BoundsAssumption, RequestsAssumption
     DEF Typed, TypeOK, ServiceTypeOK, ScheduleStoreTypeOK
<1>2. ASSUME NEW enabled \in BOOLEAN, NEW cron \in Crons, NEW policy \in Policies
      PROVE  /\ Requested(enabled, cron, policy) \in ScheduleRow
             /\ Requested(enabled, cron, policy).rev > 0
  BY <1>1 DEF Requested, ScheduleRow, NoAnchor
<1> SUFFICES ASSUME NEW s \in Schedules,
                    \/ \E enabled \in BOOLEAN, cron \in Crons, policy \in Policies :
                          \/ CreateBegin(h, s, enabled, cron, policy)
                          \/ UpdateBegin(h, s, enabled, cron, policy)
                    \/ \E kind \in {"enable", "disable"} : SetEnabledBegin(h, s, kind)
                    \/ DeleteBegin(h, s)
                    \/ TriggerBegin(h, s)
             PROVE  /\ call' \in [Callers -> Call \union {NoCall}]
                    /\ served' \in 0..MaxRequests
                    /\ life' \in [Schedules -> {"unused", "used", "deleted"}]
                    /\ CallsOK'
                    /\ UNCHANGED <<tableVars, stored, runVars, clock, faults>>
  BY DEF CallArrives
<1>3. ASSUME NEW enabled \in BOOLEAN, NEW cron \in Crons, NEW policy \in Policies,
             CreateBegin(h, s, enabled, cron, policy)
      PROVE  /\ call' \in [Callers -> Call \union {NoCall}]
             /\ served' \in 0..MaxRequests /\ CallsOK'
  BY <1>2, <1>3, AcceptTyped DEF CreateBegin, KindsOfRequest, CallOK
<1>4. ASSUME NEW enabled \in BOOLEAN, NEW cron \in Crons, NEW policy \in Policies,
             UpdateBegin(h, s, enabled, cron, policy)
      PROVE  /\ call' \in [Callers -> Call \union {NoCall}]
             /\ served' \in 0..MaxRequests /\ CallsOK'
  BY <1>2, <1>4, RowTyped, AcceptTyped DEF UpdateBegin, KindsOfRequest, CallOK
<1>5. ASSUME NEW kind \in {"enable", "disable"}, SetEnabledBegin(h, s, kind)
      PROVE  /\ call' \in [Callers -> Call \union {NoCall}]
             /\ served' \in 0..MaxRequests /\ CallsOK'
  <2> DEFINE copy == [sched[s] EXCEPT
                         !.enabled = (kind = "enable"),
                         !.next = IF kind = "enable" THEN NextFire(sched[s].cron, clock)
                                  ELSE NoAnchor]
  <2>1. sched[s] \in ScheduleRow
    BY <1>5, RowTyped DEF SetEnabledBegin
  <2>2. NextFire(sched[s].cron, clock) \in Nat
    BY <2>1, <1>1, NextFireAfter DEF ScheduleRow
  <2>3. copy \in ScheduleRow
    BY <2>1, <2>2 DEF ScheduleRow, NoAnchor
  <2>4. Accept(h, kind, "commit", s, sched[s], copy)
    BY <1>5 DEF SetEnabledBegin
  <2> HIDE DEF copy
  <2> QED BY <2>1, <2>3, <2>4, AcceptTyped DEF KindsOfRequest, CallOK
<1>6. ASSUME DeleteBegin(h, s) \/ TriggerBegin(h, s)
      PROVE  /\ call' \in [Callers -> Call \union {NoCall}]
             /\ served' \in 0..MaxRequests /\ CallsOK'
  BY <1>6, AcceptTyped DEF DeleteBegin, TriggerBegin, KindsOfRequest, CallOK
<1>7. /\ life' \in [Schedules -> {"unused", "used", "deleted"}]
      /\ UNCHANGED <<tableVars, stored, runVars, clock, faults>>
  BY <1>1 DEF CreateBegin, UpdateBegin, SetEnabledBegin, DeleteBegin, TriggerBegin
<1> QED BY <1>3, <1>4, <1>5, <1>6, <1>7

\* What a step of a request leaves: the anchor of a row that is stored comes
\* from NextFire or from a row that was there.
LEMMA CallStepTyped ==
    ASSUME Typed, NEW h \in Callers, CallStep(h)
    PROVE  /\ call' \in [Callers -> Call \union {NoCall}]
           /\ CallsOK'
           /\ life' \in [Schedules -> {"unused", "used", "deleted"}]
           /\ sched' \in [Schedules -> ScheduleRow \union {NoSchedule}]
           /\ stored' \in [Schedules -> Nat]
           /\ manual' \in [Schedules -> Nat]
           /\ UNCHANGED <<held, auto, clock, faults, served>>
<1> DEFINE Goal == /\ call' \in [Callers -> Call \union {NoCall}]
                   /\ CallsOK'
                   /\ life' \in [Schedules -> {"unused", "used", "deleted"}]
                   /\ sched' \in [Schedules -> ScheduleRow \union {NoSchedule}]
                   /\ stored' \in [Schedules -> Nat]
                   /\ manual' \in [Schedules -> Nat]
                   /\ UNCHANGED <<held, auto, clock, faults, served>>
<1>1. /\ call \in [Callers -> Call \union {NoCall}]
      /\ life \in [Schedules -> {"unused", "used", "deleted"}]
      /\ sched \in [Schedules -> ScheduleRow \union {NoSchedule}]
      /\ stored \in [Schedules -> Nat]
      /\ manual \in [Schedules -> Nat]
      /\ clock \in Nat
  BY BoundsAssumption DEF Typed, TypeOK, ServiceTypeOK, ScheduleStoreTypeOK
<1>2. call[h] # NoCall => call[h] \in Call /\ call[h].s \in Schedules
  BY <1>1 DEF Call
<1>3. call[h].kind \in KindsOfRequest => call[h] # NoCall
  BY DEF NoCall, KindsOfRequest
<1>4. CallOK(call[h]) /\ CallsOK
  BY DEF Typed, CallsOK
<1>5. ASSUME Hangup(h)
      PROVE  call' \in [Callers -> Call \union {NoCall}] /\ CallsOK'
  BY <1>1, <1>4, <1>5 DEF Hangup, CallsOK, CallOK, NoCall
<1>6. ASSUME NEW step \in {"commit", "start"}, Onto(h, step),
             call[h].kind \in {"delete", "trigger"}
      PROVE  call' \in [Callers -> Call \union {NoCall}] /\ CallsOK'
  <2> DEFINE c == [call[h] EXCEPT !.step = step]
  <2>1. call[h] \in Call
    BY <1>2, <1>3, <1>6 DEF KindsOfRequest
  <2>2. c \in Call /\ CallOK(c)
    BY <2>1, <1>6 DEF Call, CallOK
  <2>3. call' = [call EXCEPT ![h] = c]
    BY <1>6, <1>1 DEF Onto
  <2> HIDE DEF c
  <2> QED BY <1>1, <1>4, <2>2, <2>3 DEF CallsOK
<1>7. ASSUME NEW next \in Nat, call[h].kind \in {"create", "update"},
             call' = [call EXCEPT ![h].step = "commit", ![h].copy.next = next]
      PROVE  call' \in [Callers -> Call \union {NoCall}] /\ CallsOK'
  <2> DEFINE c == [call[h] EXCEPT !.step = "commit", !.copy.next = next]
  <2>1. call[h] \in Call /\ call[h].copy \in ScheduleRow /\ call[h].copy.rev > 0
    BY <1>2, <1>3, <1>4, <1>7 DEF KindsOfRequest, CallOK
  <2>2. /\ c.kind = call[h].kind /\ c.step = "commit" /\ c.s = call[h].s
        /\ c.loaded = call[h].loaded
        /\ c.copy = [call[h].copy EXCEPT !.next = next]
    BY <2>1 DEF Call
  <2>3. [call[h].copy EXCEPT !.next = next] \in ScheduleRow
        /\ [call[h].copy EXCEPT !.next = next].rev = call[h].copy.rev
    BY <2>1 DEF ScheduleRow
  <2>4. c \in Call
    BY <2>1, <2>3 DEF Call
  <2>5. CallOK(c)
    BY <2>1, <2>2, <2>3, <1>4 DEF CallOK
  <2>6. call' = [call EXCEPT ![h] = c]
    BY <1>7, <1>1
  <2> HIDE DEF c
  <2> QED BY <1>1, <1>4, <2>4, <2>5, <2>6 DEF CallsOK
<1>8. CASE CreateStore(h)
  <2>1. call[h].kind = "create" /\ call[h].copy \in ScheduleRow
        /\ call[h].copy.rev \in Nat /\ call[h].s \in Schedules
    BY <1>2, <1>3, <1>4, <1>8 DEF CreateStore, At, CallOK, ScheduleRow, KindsOfRequest
  <2> DEFINE next == IF call[h].copy.enabled THEN NextFire(call[h].copy.cron, clock)
                     ELSE NoAnchor
  <2>2. next \in Nat
    BY <2>1, <1>1, NextFireAfter DEF ScheduleRow, NoAnchor
  <2>3. call' = [call EXCEPT ![h].step = "commit", ![h].copy.next = next]
    BY <1>8 DEF CreateStore
  <2>4. call' \in [Callers -> Call \union {NoCall}] /\ CallsOK'
    BY <1>7, <2>1, <2>2, <2>3
  <2> QED
    BY <1>1, <1>8, <2>1, <2>4 DEF CreateStore, tableVars, runVars
<1>9. CASE UpdateStore(h)
  <2>1. /\ call[h].kind = "update" /\ call[h].copy \in ScheduleRow
        /\ call[h].loaded \in ScheduleRow
        /\ call[h].copy.rev \in Nat /\ call[h].s \in Schedules
    BY <1>2, <1>3, <1>4, <1>9 DEF UpdateStore, At, CallOK, ScheduleRow, KindsOfRequest
  <2>2. UpdatedAnchor(call[h].loaded, call[h].copy) \in Nat
    BY <2>1, <1>1, NextFireAfter DEF UpdatedAnchor, ScheduleRow, NoAnchor
  <2>4. call' \in [Callers -> Call \union {NoCall}] /\ CallsOK'
    BY <1>7, <1>9, <2>1, <2>2 DEF UpdateStore
  <2> QED
    BY <1>1, <1>9, <2>1, <2>4 DEF UpdateStore, tableVars, runVars
<1>10. CASE CreateCommit(h)
  <2>1. call[h].copy \in ScheduleRow /\ call[h].s \in Schedules
    BY <1>2, <1>3, <1>4, <1>10 DEF CreateCommit, At, CallOK, KindsOfRequest
  <2> QED
    BY <1>1, <1>5, <1>10, <2>1 DEF CreateCommit, runVars
<1>11. CASE ChangeCommit(h)
  <2>1. /\ call[h].copy \in ScheduleRow /\ call[h].loaded \in ScheduleRow
        /\ call[h].s \in Schedules
    BY <1>2, <1>3, <1>4, <1>11 DEF ChangeCommit, CallOK, KindsOfRequest
  <2>2. Exists(call[h].s) =>
            FlushColumns(sched[call[h].s], call[h].loaded, call[h].copy) \in ScheduleRow
    BY <2>1, RowTyped, FlushColumnsSound
  <2> QED
    BY <1>1, <1>5, <1>11, <2>1, <2>2 DEF ChangeCommit, runVars
<1>12. CASE DeleteErase(h)
  BY <1>1, <1>6, <1>12 DEF DeleteErase, At, NoInput, tableVars, runVars
<1>13. CASE DeleteCommit(h)
  BY <1>1, <1>5, <1>13 DEF DeleteCommit, runVars
<1>14. CASE TriggerLoad(h)
  BY <1>1, <1>5, <1>6, <1>14 DEF TriggerLoad, At, tableVars, runVars
<1>15. CASE TriggerStart(h)
  <2>1. call[h].s \in Schedules
    BY <1>2, <1>3, <1>15 DEF TriggerStart, At, KindsOfRequest
  <2>2. manual' \in [Schedules -> Nat]
    BY <1>1, <1>15, <2>1 DEF TriggerStart
  <2> QED
    BY <1>1, <1>5, <1>15, <2>2 DEF TriggerStart, tableVars
<1> QED
  BY <1>8, <1>9, <1>10, <1>11, <1>12, <1>13, <1>14, <1>15 DEF CallStep

LEMMA ArrivalIds ==
    ASSUME Typed, NEW h \in Callers, CallArrives(h)
    PROVE  IdsUsedOnce'
<1>1. /\ call \in [Callers -> Call \union {NoCall}]
      /\ life \in [Schedules -> {"unused", "used", "deleted"}]
      /\ IdsUsedOnce
  BY DEF Typed, TypeOK, ServiceTypeOK
<1>2. sched' = sched
  BY ArrivalTyped DEF tableVars
<1>3. PICK s \in Schedules :
          \/ \E enabled \in BOOLEAN, cron \in Crons, policy \in Policies :
                \/ CreateBegin(h, s, enabled, cron, policy)
                \/ UpdateBegin(h, s, enabled, cron, policy)
          \/ \E kind \in {"enable", "disable"} : SetEnabledBegin(h, s, kind)
          \/ DeleteBegin(h, s)
          \/ TriggerBegin(h, s)
  BY DEF CallArrives
<1>4. /\ \A g \in Callers \ {h} : call'[g] = call[g]
      /\ call'[h].s = s
      /\ \/ life[s] = "unused" /\ life' = [life EXCEPT ![s] = "used"]
         \/ Exists(s) /\ life' = life /\ call'[h].kind # "create"
  BY <1>1, <1>3 DEF CreateBegin, UpdateBegin, SetEnabledBegin, DeleteBegin,
         TriggerBegin, Accept
<1>6. ASSUME NEW g \in Callers, call'[g].kind = "create"
      PROVE  /\ sched'[call'[g].s] = NoSchedule /\ life'[call'[g].s] = "used"
             /\ \A f \in Callers \ {g} : call'[f].s # call'[g].s
  <2>1. CASE g = h
    <3>1. life[s] = "unused" /\ life'[s] = "used"
      BY <1>1, <1>4, <1>6, <2>1
    <3>2. sched[s] = NoSchedule /\ \A f \in Callers : call[f].s # s
      BY <1>1, <3>1 DEF IdsUsedOnce, Exists
    <3> QED BY <1>2, <1>4, <2>1, <3>1, <3>2
  <2>2. CASE g # h
    <3>1. /\ call[g].kind = "create" /\ call'[g] = call[g]
          /\ sched[call[g].s] = NoSchedule /\ life[call[g].s] = "used"
          /\ \A f \in Callers \ {g} : call[f].s # call[g].s
      BY <1>1, <1>4, <1>6, <2>2 DEF IdsUsedOnce, Exists
    <3>2. call[g].s \in Schedules
      BY <1>1, <3>1 DEF Call, NoCall
    <3>3. s # call[g].s
      BY <1>4, <3>1 DEF Exists
    <3>4. life'[call[g].s] = "used"
      BY <1>1, <1>4, <3>1, <3>2, <3>3
    <3> QED BY <1>2, <1>4, <3>1, <3>3, <3>4
  <2> QED BY <2>1, <2>2
<1>7. ASSUME NEW q \in Schedules, life'[q] = "unused"
      PROVE  sched'[q] = NoSchedule /\ \A g \in Callers : call'[g].s # q
  <2>1. life[q] = "unused" /\ (q # s \/ Exists(s))
    BY <1>1, <1>4, <1>7
  <2>2. sched[q] = NoSchedule /\ \A g \in Callers : call[g].s # q
    BY <1>1, <2>1 DEF IdsUsedOnce, Exists
  <2>3. q # s
    BY <2>1, <2>2 DEF Exists
  <2> QED BY <1>2, <1>4, <2>2, <2>3
<1> QED BY <1>6, <1>7 DEF IdsUsedOnce, Exists

\* What a step of a request does to the table: only to its own row, and not
\* while that is locked; only a create and a delete change whether it is there.
LEMMA CallStepOnRow ==
    ASSUME Typed, NEW h \in Callers, CallStep(h) \/ CallLost(h)
    PROVE  /\ \A q \in Schedules : q # call[h].s \/ Held(q) => sched'[q] = sched[q]
           /\ \A q \in Schedules : sched'[q] # NoSchedule =>
                 \/ sched[q] # NoSchedule
                 \/ q = call[h].s /\ call[h].kind = "create" /\ call'[h] = NoCall
           /\ \A q \in Schedules : sched[q] # NoSchedule /\ sched'[q] = NoSchedule =>
                 q = call[h].s /\ call[h].kind = "delete" /\ life'[q] = "deleted"
           /\ \/ life' = life
              \/ call[h].kind = "delete" /\ life' = [life EXCEPT ![call[h].s] = "deleted"]
           /\ \A g \in Callers \ {h} : call'[g] = call[g]
           /\ \/ call'[h] = NoCall
              \/ call'[h].kind = call[h].kind /\ call'[h].s = call[h].s
<1>1. /\ call \in [Callers -> Call \union {NoCall}]
      /\ life \in [Schedules -> {"unused", "used", "deleted"}]
      /\ sched \in [Schedules -> ScheduleRow \union {NoSchedule}]
  BY DEF Typed, TypeOK, ServiceTypeOK, ScheduleStoreTypeOK
<1>2. call[h].kind \in KindsOfRequest => call[h] \in Call /\ call[h].s \in Schedules
  BY <1>1 DEF NoCall, KindsOfRequest, Call
<1>3. CallOK(call[h])
  BY DEF Typed, CallsOK
<1>4. ASSUME Hangup(h)
      PROVE  (\A g \in Callers \ {h} : call'[g] = call[g]) /\ call'[h] = NoCall
  BY <1>1, <1>4 DEF Hangup
<1>5. CASE CreateStore(h) \/ UpdateStore(h)
  <2>1. /\ call[h] \in Call /\ sched' = sched /\ life' = life
        /\ \E next : call' = [call EXCEPT ![h].step = "commit", ![h].copy.next = next]
    BY <1>2, <1>5 DEF CreateStore, UpdateStore, At, KindsOfRequest, tableVars
  <2>2. PICK next : call' = [call EXCEPT ![h].step = "commit", ![h].copy.next = next]
    BY <2>1
  <2> QED BY <1>1, <2>1, <2>2 DEF Call
<1>6. CASE CreateCommit(h)
  <2>1. /\ call[h].kind = "create" /\ call[h].s \in Schedules
        /\ sched[call[h].s] = NoSchedule
        /\ sched' = [sched EXCEPT ![call[h].s] = call[h].copy]
        /\ life' = life
    BY <1>2, <1>6 DEF CreateCommit, At, Typed, IdsUsedOnce, KindsOfRequest, Exists
  <2>2. ~Held(call[h].s)
    BY <2>1 DEF Held, Typed, LocksOK, Exists
  <2>3. Hangup(h)
    BY <1>6 DEF CreateCommit
  <2> QED
    BY <1>1, <1>4, <2>1, <2>2, <2>3
<1>7. CASE ChangeCommit(h)
  <2>1. /\ call[h].copy \in ScheduleRow /\ call[h].loaded \in ScheduleRow
        /\ call[h].s \in Schedules /\ ~Held(call[h].s)
        /\ Hangup(h) /\ life' = life
    BY <1>2, <1>3, <1>7 DEF ChangeCommit, CallOK, KindsOfRequest
  <2>2. Exists(call[h].s) =>
            FlushColumns(sched[call[h].s], call[h].loaded, call[h].copy) # NoSchedule
    BY <2>1, RowTyped, FlushColumnsSound, NoScheduleAssumption
  <2>3. sched' = [sched EXCEPT ![call[h].s] =
                    IF Exists(call[h].s)
                    THEN FlushColumns(sched[call[h].s], call[h].loaded, call[h].copy)
                    ELSE NoSchedule]
    BY <1>7 DEF ChangeCommit
  <2>4. sched'[call[h].s] = NoSchedule <=> sched[call[h].s] = NoSchedule
    BY <1>1, <2>1, <2>2, <2>3 DEF Exists
  <2>5. \A q \in Schedules : q # call[h].s => sched'[q] = sched[q]
    BY <1>1, <2>3
  <2> QED
    BY <1>4, <2>1, <2>4, <2>5
<1>8. CASE DeleteErase(h) \/ TriggerLoad(h)
  <2>1. call[h] \in Call /\ sched' = sched /\ life' = life
    BY <1>2, <1>8 DEF DeleteErase, TriggerLoad, At, KindsOfRequest, tableVars
  <2>2. Hangup(h) \/ \E step : call' = [call EXCEPT ![h].step = step]
    BY <1>8 DEF DeleteErase, TriggerLoad, Onto
  <2> QED BY <1>1, <1>4, <2>1, <2>2 DEF Call
<1>9. CASE DeleteCommit(h)
  BY <1>1, <1>2, <1>4, <1>9 DEF DeleteCommit, At, KindsOfRequest
<1>10. CASE TriggerStart(h) \/ CallLost(h)
  BY <1>1, <1>4, <1>10 DEF TriggerStart, CallLost, tableVars
<1> QED
  BY <1>5, <1>6, <1>7, <1>8, <1>9, <1>10 DEF CallStep

LEMMA CallStepIds ==
    ASSUME Typed, NEW h \in Callers, CallStep(h) \/ CallLost(h)
    PROVE  IdsUsedOnce'
<1>1. /\ call \in [Callers -> Call \union {NoCall}]
      /\ life \in [Schedules -> {"unused", "used", "deleted"}]
      /\ IdsUsedOnce
  BY DEF Typed, TypeOK, ServiceTypeOK
<1>2. \A q \in Schedules : sched'[q] # NoSchedule =>
          \/ sched[q] # NoSchedule
          \/ q = call[h].s /\ call[h].kind = "create" /\ call'[h] = NoCall
  BY CallStepOnRow
<1>3. \/ life' = life
      \/ call[h].kind = "delete" /\ life' = [life EXCEPT ![call[h].s] = "deleted"]
  BY CallStepOnRow
<1>4. /\ \A g \in Callers \ {h} : call'[g] = call[g]
      /\ \/ call'[h] = NoCall
         \/ call'[h].kind = call[h].kind /\ call'[h].s = call[h].s
  BY CallStepOnRow
<1>5. NoCall.kind = "none" /\ NoCall.s \notin Schedules
  BY NoScheduleAssumption DEF NoCall
<1>6. ASSUME NEW g \in Callers, call'[g].kind = "create"
      PROVE  /\ sched'[call'[g].s] = NoSchedule /\ life'[call'[g].s] = "used"
             /\ \A f \in Callers \ {g} : call'[f].s # call'[g].s
  <2>1. /\ call[g].kind = "create" /\ call'[g].s = call[g].s
        /\ g = h => call'[h] # NoCall
    BY <1>4, <1>5, <1>6
  <2>2. call[g].s \in Schedules
    BY <1>1, <2>1 DEF Call, NoCall
  <2>3. /\ sched[call[g].s] = NoSchedule /\ life[call[g].s] = "used"
        /\ \A f \in Callers \ {g} : call[f].s # call[g].s
    BY <1>1, <2>1 DEF IdsUsedOnce, Exists
  <2>4. sched'[call[g].s] = NoSchedule
    BY <1>2, <2>1, <2>2, <2>3
  <2>5. life'[call[g].s] = "used"
    <3>1. CASE life' = life
      BY <2>3, <3>1
    <3>2. CASE /\ call[h].kind = "delete"
               /\ life' = [life EXCEPT ![call[h].s] = "deleted"]
      <4>1. h # g
        BY <2>1, <3>2
      <4>2. call[h].s # call[g].s
        BY <2>3, <4>1
      <4> QED BY <1>1, <2>2, <2>3, <3>2, <4>2
    <3> QED BY <1>3, <3>1, <3>2
  <2>6. \A f \in Callers \ {g} : call'[f].s # call[g].s
    BY <1>4, <1>5, <2>2, <2>3
  <2> QED BY <2>1, <2>4, <2>5, <2>6
<1>7. ASSUME NEW q \in Schedules, life'[q] = "unused"
      PROVE  sched'[q] = NoSchedule /\ \A g \in Callers : call'[g].s # q
  <2>1. life[q] = "unused"
    BY <1>1, <1>3, <1>7
  <2>2. sched[q] = NoSchedule /\ \A g \in Callers : call[g].s # q
    BY <1>1, <2>1 DEF IdsUsedOnce, Exists
  <2>3. sched'[q] = NoSchedule
    BY <1>2, <2>2
  <2>4. \A g \in Callers : call'[g].s # q
    BY <1>4, <1>5, <2>2
  <2> QED BY <2>3, <2>4
<1> QED BY <1>6, <1>7 DEF IdsUsedOnce, Exists

LEMMA ServiceTyped ==
    ASSUME Typed, ServiceNext, OfCallers
    PROVE  Typed'
<1>1. anchored' \in [Schedules -> [Times -> Nat]]
  BY RecordTyped DEF OfCallers
<1>2. UNCHANGED <<held, clock, tick, fired, lost>>
  BY ArrivalTyped, CallStepTyped
     DEF ServiceNext, OfCallers, dispatcherVars, CallLost, tableVars
<1>3. (\A d \in Dispatchers : TickOK(d))' /\ DispatcherTypeOK'
  BY <1>2 DEF Typed, TypeOK, TickOK, DispatcherTypeOK
<1>4. PICK h \in Callers : CallArrives(h) \/ CallStep(h) \/ CallLost(h)
  BY DEF ServiceNext
<1>5. \A d \in Dispatchers : \A s \in held[d] : sched'[s] = sched[s]
  <2> TAKE d \in Dispatchers
  <2> TAKE s \in held[d]
  <2>1. s \in Schedules /\ Held(s)
    BY DEF Typed, TypeOK, ScheduleStoreTypeOK, Held
  <2> QED BY <1>4, <2>1, ArrivalTyped, CallStepOnRow DEF tableVars
<1>6. LocksOK'
  BY <1>2, <1>5 DEF Typed, LocksOK, Exists
<1>7. IdsUsedOnce'
  BY <1>4, ArrivalIds, CallStepIds
<1>8. CASE CallArrives(h)
  BY <1>1, <1>3, <1>6, <1>7, <1>8, ArrivalTyped
     DEF Typed, TypeOK, ServiceTypeOK, ScheduleStoreTypeOK, tableVars, runVars
<1>9. CASE CallStep(h)
  BY <1>1, <1>3, <1>6, <1>7, <1>9, CallStepTyped
     DEF Typed, TypeOK, ServiceTypeOK, ScheduleStoreTypeOK, tableVars, runVars
<1>10. CASE CallLost(h)
  <2>1. faults' \in 0..MaxFaults
    BY <1>10, BoundsAssumption DEF CallLost, Fault, Typed, TypeOK, ScheduleStoreTypeOK
  <2>2. call' \in [Callers -> Call \union {NoCall}] /\ CallsOK'
    BY <1>10 DEF CallLost, Hangup, Typed, TypeOK, ServiceTypeOK, CallsOK, CallOK, NoCall
  <2> QED
    BY <1>1, <1>3, <1>6, <1>7, <1>10, <2>1, <2>2
       DEF CallLost, Typed, TypeOK, ServiceTypeOK, ScheduleStoreTypeOK, tableVars, runVars
<1> QED BY <1>4, <1>8, <1>9, <1>10

-----------------------------------------------------------------------------
(* Types: the dispatchers and the world.                                   *)

LEMMA ClaimsTyped ==
    ASSUME NEW todo \in SUBSET Schedules, NEW planned, 
           \A s \in todo : planned[s] \in Nat
    PROVE  /\ Claims(todo, planned) \in TickState
           /\ Claims(todo, planned).pc \in {"asleep", "firing"}
           /\ Claims(todo, planned).todo = todo
           /\ Claims(todo, planned).now = 0
           /\ Claims(todo, planned).pc = "asleep" <=> todo = {}
           /\ \A s \in todo : Claims(todo, planned).planned[s] = planned[s]
  BY DEF Claims, Asleep, TickState, NoAnchor, NoInput

\* What a dispatcher makes of the rows it has locked: an anchor it keeps is
\* later than the one it claimed.
LEMMA ClaimedRows ==
    ASSUME Typed, NEW d \in Dispatchers, NEW s \in held[d]
    PROVE  /\ s \in Schedules /\ Exists(s) /\ sched[s] \in ScheduleRow
           /\ Disabled(s) \in ScheduleRow
           /\ Reanchored(s, tick[d].now) \in ScheduleRow
           /\ Disabled(s).next = NoAnchor
           /\ Reanchored(s, tick[d].now).next > sched[s].next
<1>1. s \in Schedules /\ Exists(s) /\ sched[s].next <= tick[d].now
  BY DEF Typed, TypeOK, ScheduleStoreTypeOK, LocksOK
<1>2. sched[s] \in ScheduleRow
  BY <1>1, RowTyped
<1>3. tick[d].now \in Nat
  BY DEF Typed, TypeOK, DispatcherTypeOK, TickState
<1>4. /\ NextFire(sched[s].cron, tick[d].now) \in Nat
      /\ NextFire(sched[s].cron, tick[d].now) > tick[d].now
  BY <1>2, <1>3, NextFireAfter DEF ScheduleRow
<1>5. Disabled(s) \in ScheduleRow /\ Disabled(s).next = NoAnchor
  BY <1>2 DEF Disabled, ScheduleRow, NoAnchor
<1>6. /\ Reanchored(s, tick[d].now) \in ScheduleRow
      /\ Reanchored(s, tick[d].now).next = NextFire(sched[s].cron, tick[d].now)
  BY <1>2, <1>4 DEF Reanchored, ScheduleRow
<1>7. sched[s].next \in Nat
  BY <1>2 DEF ScheduleRow
<1> QED BY <1>1, <1>2, <1>3, <1>4, <1>5, <1>6, <1>7

LEMMA DispatcherOnRow ==
    ASSUME Typed, NEW d \in Dispatchers, DispatcherStep(d) \/ TickAborts(d)
    PROVE  /\ \A s \in Schedules : sched'[s] = NoSchedule <=> sched[s] = NoSchedule
           /\ stored' = stored
           /\ faults' = faults \/ faults' > 0
<1>1. stored' = stored
  BY DEF DispatcherStep, TickAborts, ClaimSelect, ClaimCommit, FireBegin, FireGone,
         FireLoad, FireCreate, FireFails, RecordFire, RecordRaises
<1>2. Fault => faults' > 0
  BY DEF Fault, Typed, TypeOK, ScheduleStoreTypeOK
<1>3. CASE ClaimCommit(d)
  <2>1. PICK invalid \in SUBSET held[d] :
          /\ IF invalid = {} THEN UNCHANGED faults ELSE Fault
          /\ sched' = [s \in Schedules |->
                IF s \in invalid THEN Disabled(s)
                ELSE IF s \in held[d] \ invalid THEN Reanchored(s, tick[d].now)
                ELSE sched[s]]
    BY <1>3 DEF ClaimCommit
  <2>2. \A s \in held[d] : /\ sched[s] # NoSchedule
                           /\ Disabled(s) # NoSchedule
                           /\ Reanchored(s, tick[d].now) # NoSchedule
    BY ClaimedRows, NoScheduleAssumption DEF Exists
  <2> QED BY <1>1, <1>2, <2>1, <2>2
<1>4. CASE ~ClaimCommit(d)
  <2>1. sched' = sched /\ (faults' = faults \/ Fault)
    BY <1>4 DEF DispatcherStep, TickAborts, ClaimSelect, FireBegin, FireGone,
         FireLoad, FireCreate, FireFails, RecordFire, RecordRaises, tableVars
  <2> QED BY <1>1, <1>2, <2>1
<1> QED BY <1>3, <1>4

LEMMA DispatcherTyped ==
    ASSUME Typed, DispatcherNext, OfDispatchers
    PROVE  Typed'
<1>1. /\ anchored' \in [Schedules -> [Times -> Nat]]
      /\ ServiceTypeOK' /\ CallsOK'
  BY RecordTyped DEF OfDispatchers, serviceVars, Typed, TypeOK, ServiceTypeOK, CallsOK
<1>2. /\ tick \in [Dispatchers -> TickState]
      /\ held \in [Dispatchers -> SUBSET Schedules]
      /\ fired \in [Schedules -> [Times -> Nat]] /\ lost \subseteq Schedules
      /\ sched \in [Schedules -> ScheduleRow \union {NoSchedule}]
      /\ stored \in [Schedules -> Nat]
      /\ auto \in [Schedules -> Nat] /\ manual \in [Schedules -> Nat]
      /\ clock \in 0..MaxTime /\ clock \in Nat /\ faults \in 0..MaxFaults
  BY BoundsAssumption DEF Typed, TypeOK, DispatcherTypeOK, ScheduleStoreTypeOK
<1>3. Fault => faults' \in 0..MaxFaults
  BY <1>2, BoundsAssumption DEF Fault
<1> DEFINE Goal ==
      /\ tick' \in [Dispatchers -> TickState]
      /\ held' \in [Dispatchers -> SUBSET Schedules]
      /\ fired' \in [Schedules -> [Times -> Nat]] /\ lost' \subseteq Schedules
      /\ sched' \in [Schedules -> ScheduleRow \union {NoSchedule}]
      /\ \A s \in Schedules : sched'[s] = NoSchedule <=> sched[s] = NoSchedule
      /\ auto' \in [Schedules -> Nat]
      /\ faults' \in 0..MaxFaults
      /\ \A e \in Dispatchers : TickOK(e)'
      /\ LocksOK'
<1>16. ASSUME Goal, UNCHANGED <<stored, manual, clock>>
       PROVE  Typed'
  <2>1. IdsUsedOnce'
    <3>1. UNCHANGED <<call, life>>
      BY DEF OfDispatchers, serviceVars
    <3>2. \A h \in Callers : call[h].kind = "create" => call[h].s \in Schedules
      BY DEF Typed, TypeOK, ServiceTypeOK, Call, NoCall
    <3> QED BY <1>16, <3>1, <3>2 DEF Typed, IdsUsedOnce, Exists
  <2> QED
    BY <1>1, <1>2, <1>16, <2>1 DEF Typed, TypeOK, DispatcherTypeOK, ScheduleStoreTypeOK
<1> SUFFICES ASSUME NEW d \in Dispatchers, DispatcherStep(d) \/ TickAborts(d)
             PROVE  Goal /\ UNCHANGED <<stored, manual, clock>>
  BY <1>16 DEF DispatcherNext
<1>4. UNCHANGED <<stored, manual, clock>>
  BY DEF DispatcherStep, TickAborts, ClaimSelect, ClaimCommit, FireBegin, FireGone,
         FireLoad, FireCreate, FireFails, RecordFire, RecordRaises, runVars
<1>17. /\ tick[d] \in TickState
       /\ tick[d].todo \in SUBSET Schedules
       /\ tick[d].planned \in [Schedules -> Nat]
       /\ tick[d].now \in Nat /\ tick[d].input \in Nat
  BY <1>2 DEF TickState
<1>18. /\ tick[d].pc = "claiming" => tick[d].todo = {}
       /\ tick[d].pc = "asleep" => tick[d].todo = {}
       /\ tick[d].pc # "claiming" => held[d] = {}
       /\ tick[d].pc \in {"loading", "creating", "recording"} =>
             tick[d].at \in Schedules \ tick[d].todo
       /\ tick[d].now <= clock
  BY DEF Typed, TickOK
\* A new value for one dispatcher, which holds no locks then.
<1>5. ASSUME NEW new \in TickState, tick' = [tick EXCEPT ![d] = new],
             new.pc \in {"asleep", "firing", "loading", "creating", "recording"},
             new.pc = "asleep" => new.todo = {},
             held' = [held EXCEPT ![d] = {}],
             new.pc \in {"loading", "creating", "recording"} =>
                 new.at \in Schedules \ new.todo,
             new.now \in {0, tick[d].now},
             \A s \in Schedules \ held[d] : sched'[s] = sched[s]
      PROVE  /\ tick' \in [Dispatchers -> TickState]
             /\ held' \in [Dispatchers -> SUBSET Schedules]
             /\ \A e \in Dispatchers : TickOK(e)'
             /\ LocksOK'
  <2>1. /\ tick' \in [Dispatchers -> TickState]
        /\ held' \in [Dispatchers -> SUBSET Schedules]
        /\ tick'[d] = new /\ held'[d] = {}
        /\ \A e \in Dispatchers \ {d} : tick'[e] = tick[e] /\ held'[e] = held[e]
    BY <1>2, <1>5
  <2>2. TickOK(d)'
    BY <1>2, <1>4, <1>5, <1>17, <1>18, <2>1 DEF TickOK
  <2>3. ASSUME NEW e \in Dispatchers \ {d}
        PROVE  TickOK(e)'
    BY <1>4, <2>1, <2>3 DEF TickOK, Typed
  <2>4. LocksOK'
    <3> SUFFICES ASSUME NEW e \in Dispatchers \ {d}, NEW s \in held[e]
                 PROVE  /\ sched'[s] # NoSchedule /\ sched'[s].next <= tick[e].now
                        /\ \A f \in Dispatchers \ {e} : s \notin held'[f]
      BY <2>1 DEF LocksOK, Exists
    <3>1. /\ sched[s] # NoSchedule /\ sched[s].next <= tick[e].now
          /\ \A f \in Dispatchers \ {e} : s \notin held[f]
      BY DEF Typed, LocksOK, Exists
    <3>2. s \in Schedules \ held[d]
      BY <1>2, <3>1
    <3> QED BY <1>5, <2>1, <3>1, <3>2
  <2> QED BY <2>1, <2>2, <2>3, <2>4
<1>19. UNCHANGED held /\ tick[d].pc # "claiming" => held' = [held EXCEPT ![d] = {}]
  BY <1>2, <1>18
<1>6. CASE ClaimSelect(d)
  <2>1. PICK S \in SUBSET Schedules : IsBatch(S) /\ held' = [held EXCEPT ![d] = S]
    BY <1>6 DEF ClaimSelect
  <2> DEFINE new == [tick[d] EXCEPT !.pc = "claiming", !.now = clock]
  <2>2. /\ new \in TickState /\ new.pc = "claiming" /\ new.now = clock
        /\ new.todo = tick[d].todo
    BY <1>2, <1>17 DEF TickState
  <2>3. tick' = [tick EXCEPT ![d] = new]
    BY <1>2, <1>6 DEF ClaimSelect
  <2>4. tick[d].todo = {} /\ UNCHANGED <<sched, auto, fired, lost, faults>>
    BY <1>6, <1>18 DEF ClaimSelect, runVars
  <2> HIDE DEF new
  <2>5. /\ tick' \in [Dispatchers -> TickState]
        /\ held' \in [Dispatchers -> SUBSET Schedules]
        /\ tick'[d] = new /\ held'[d] = S
        /\ \A e \in Dispatchers \ {d} : tick'[e] = tick[e] /\ held'[e] = held[e]
    BY <1>2, <2>1, <2>2, <2>3
  <2>6. \A e \in Dispatchers : TickOK(e)'
    BY <1>2, <1>4, <2>2, <2>4, <2>5 DEF TickOK, Typed
  <2>7. \A s \in S : /\ sched[s] # NoSchedule /\ sched[s].next <= clock
                     /\ \A e \in Dispatchers : s \notin held[e]
    BY <2>1 DEF IsBatch, Due, Held, Exists
  <2>8. LocksOK'
    BY <2>2, <2>4, <2>5, <2>7 DEF LocksOK, Typed, Exists
  <2> QED
    BY <1>4, <1>2, <2>4, <2>5, <2>6, <2>8
<1>7. CASE ClaimCommit(d)
  <2>1. PICK invalid \in SUBSET held[d] :
          LET claimed == held[d] \ invalid
              todo == {s \in claimed : ToFire(s, tick[d].now)}
          IN  /\ IF invalid = {} THEN UNCHANGED faults ELSE Fault
              /\ sched' = [s \in Schedules |->
                    IF s \in invalid THEN Disabled(s)
                    ELSE IF s \in claimed THEN Reanchored(s, tick[d].now)
                    ELSE sched[s]]
              /\ tick' = [tick EXCEPT ![d] =
                    Claims(todo, [s \in todo |-> sched[s].next])]
    BY <1>7 DEF ClaimCommit
  <2> DEFINE claimed == held[d] \ invalid
             todo == {s \in claimed : ToFire(s, tick[d].now)}
             new == Claims(todo, [s \in todo |-> sched[s].next])
  <2>2. \A s \in held[d] : s \in Schedules /\ sched[s] \in ScheduleRow
    BY ClaimedRows
  <2>4. \A s \in held[d] : Disabled(s) \in ScheduleRow
                           /\ Reanchored(s, tick[d].now) \in ScheduleRow
    BY ClaimedRows
  <2>5. /\ sched' \in [Schedules -> ScheduleRow \union {NoSchedule}]
        /\ \A s \in Schedules : sched'[s] = NoSchedule <=> sched[s] = NoSchedule
        /\ \A s \in Schedules \ held[d] : sched'[s] = sched[s]
    BY <1>2, <2>1, <2>2, <2>4, NoScheduleAssumption
  <2>6. /\ new \in TickState /\ new.pc \in {"asleep", "firing"}
        /\ new.pc = "asleep" => new.todo = {}
        /\ new.now = 0
    <3>1. \A s \in todo : [q \in todo |-> sched[q].next][s] \in Nat
      BY <2>2 DEF ScheduleRow
    <3>2. todo \in SUBSET Schedules
      BY <1>2
    <3> HIDE DEF todo
    <3> QED BY <3>1, <3>2, ClaimsTyped
  <2>7. tick' = [tick EXCEPT ![d] = new]
    BY <2>1
  <2>8. held' = [held EXCEPT ![d] = {}] /\ UNCHANGED <<auto, fired, lost>>
    BY <1>7 DEF ClaimCommit, runVars
  <2>9. faults' \in 0..MaxFaults
    BY <1>2, <1>3, <2>1
  <2> HIDE DEF new
  <2>10. /\ tick' \in [Dispatchers -> TickState]
         /\ held' \in [Dispatchers -> SUBSET Schedules]
         /\ \A e \in Dispatchers : TickOK(e)'
         /\ LocksOK'
    BY <1>5, <2>5, <2>6, <2>7, <2>8
  <2> QED
    BY <1>4, <1>2, <2>5, <2>8, <2>9, <2>10
<1>8. ASSUME NEW s \in Schedules, FireBegin(d, s)
      PROVE  Goal
  <2> DEFINE new == [tick[d] EXCEPT !.pc = "loading", !.at = s,
                                    !.todo = tick[d].todo \ {s}, !.rev = sched[s].rev]
  <2>1. sched[s] \in ScheduleRow /\ sched[s].rev \in Nat
    BY <1>8, RowTyped DEF FireBegin, ScheduleRow
  <2>2. /\ new \in TickState /\ new.pc = "loading" /\ new.at = s
        /\ new.todo = tick[d].todo \ {s} /\ new.now = tick[d].now
    BY <1>17, <2>1 DEF TickState
  <2>3. tick' = [tick EXCEPT ![d] = new]
    BY <1>2, <1>8 DEF FireBegin
  <2>4. /\ held' = [held EXCEPT ![d] = {}] /\ UNCHANGED <<sched, auto, fired, lost, faults>>
    BY <1>8, <1>19 DEF FireBegin, IsNext, tableVars, runVars
  <2> HIDE DEF new
  <2>5. /\ tick' \in [Dispatchers -> TickState]
        /\ held' \in [Dispatchers -> SUBSET Schedules]
        /\ \A e \in Dispatchers : TickOK(e)'
        /\ LocksOK'
    BY <1>5, <2>2, <2>3, <2>4
  <2> QED
    BY <1>2, <2>4, <2>5
<1>9. ASSUME NEW todo \in SUBSET Schedules, todo \subseteq tick[d].todo,
             tick' = [tick EXCEPT ![d] = Claims(todo, tick[d].planned)],
             UNCHANGED <<held, sched, auto, fired, faults>>,
             lost' \subseteq Schedules,
             tick[d].pc # "claiming"
      PROVE  Goal
  <2> DEFINE new == Claims(todo, tick[d].planned)
  <2>1. \A s \in todo : tick[d].planned[s] \in Nat
    BY <1>17
  <2>2. /\ new \in TickState /\ new.pc \in {"asleep", "firing"}
        /\ new.pc = "asleep" => new.todo = {}
        /\ new.now = 0
    <3>1. todo \in SUBSET Schedules
      BY <1>9
    <3> DEFINE planned == tick[d].planned
    <3>2. \A s \in todo : planned[s] \in Nat
      BY <2>1
    <3> HIDE DEF planned
    <3>3. /\ Claims(todo, planned) \in TickState
          /\ Claims(todo, planned).pc \in {"asleep", "firing"}
          /\ Claims(todo, planned).todo = todo
          /\ Claims(todo, planned).now = 0
          /\ Claims(todo, planned).pc = "asleep" <=> todo = {}
      BY <3>1, <3>2, ClaimsTyped
    <3> QED BY <3>3 DEF planned
  <2>3. tick' = [tick EXCEPT ![d] = new] /\ held' = [held EXCEPT ![d] = {}]
    BY <1>9, <1>19
  <2> HIDE DEF new
  <2>5. /\ tick' \in [Dispatchers -> TickState]
        /\ held' \in [Dispatchers -> SUBSET Schedules]
        /\ \A e \in Dispatchers : TickOK(e)'
        /\ LocksOK'
    BY <1>5, <1>9, <2>2, <2>3
  <2> QED
    BY <1>2, <1>9, <2>5
<1>10. ASSUME NEW to \in {"creating", "recording"}, NEW input \in Nat,
              tick[d].pc \in {"loading", "creating"},
              tick' = [tick EXCEPT ![d] = [tick[d] EXCEPT !.pc = to, !.input = input]],
              UNCHANGED <<held, sched>>
       PROVE  /\ tick' \in [Dispatchers -> TickState]
              /\ held' \in [Dispatchers -> SUBSET Schedules]
              /\ \A e \in Dispatchers : TickOK(e)'
              /\ LocksOK'
  <2> DEFINE new == [tick[d] EXCEPT !.pc = to, !.input = input]
  <2>1. /\ new \in TickState /\ new.pc = to /\ new.at = tick[d].at
        /\ new.todo = tick[d].todo /\ new.now = tick[d].now
    BY <1>17 DEF TickState
  <2>3. tick' = [tick EXCEPT ![d] = new] /\ held' = [held EXCEPT ![d] = {}]
    BY <1>10, <1>19
  <2> HIDE DEF new
  <2> QED
    BY <1>5, <1>10, <1>18, <2>1, <2>3
<1>11. CASE FireLoad(d)
  <2>1. tick[d].at \in Schedules /\ stored[tick[d].at] \in Nat
    BY <1>2, <1>11, <1>18 DEF FireLoad
  <2>2. tick' = [tick EXCEPT ![d] = [tick[d] EXCEPT !.pc = "creating",
                                                    !.input = stored[tick[d].at]]]
    BY <1>2, <1>11 DEF FireLoad
  <2>3. UNCHANGED <<held, sched, auto, fired, lost, faults>> /\ tick[d].pc = "loading"
    BY <1>11 DEF FireLoad, tableVars, runVars
  <2> QED
    BY <1>4, <1>2, <1>10, <2>1, <2>2, <2>3
<1>12. CASE FireCreate(d) \/ FireFails(d)
  <2>1. tick' = [tick EXCEPT ![d].pc = "recording"] /\ tick[d].pc \in {"loading", "creating"}
        /\ UNCHANGED <<held, sched, faults, lost>>
    BY <1>12 DEF FireCreate, FireFails, tableVars
  <2>3. [tick[d] EXCEPT !.pc = "recording"]
          = [tick[d] EXCEPT !.pc = "recording", !.input = tick[d].input]
    BY <1>17 DEF TickState
  <2>4. /\ tick' \in [Dispatchers -> TickState]
        /\ held' \in [Dispatchers -> SUBSET Schedules]
        /\ \A e \in Dispatchers : TickOK(e)'
        /\ LocksOK'
    BY <1>2, <1>10, <1>17, <2>1, <2>3
  <2>5. tick[d].at \in Schedules
    BY <1>18, <2>1
  <2>6. auto' \in [Schedules -> Nat]
    BY <1>2, <1>12, <2>5 DEF FireCreate, FireFails, runVars
  <2>7. fired' \in [Schedules -> [Times -> Nat]]
    <3> DEFINE p == tick[d].planned[tick[d].at]
    <3>1. CASE FireCreate(d)
      <4>1. fired' = [fired EXCEPT ![tick[d].at][p] = @ + 1]
        BY <3>1 DEF FireCreate
      <4>2. p \in Times => fired[tick[d].at][p] + 1 \in Nat
        BY <1>2, <2>5
      <4> HIDE DEF p
      <4>3. [fired[tick[d].at] EXCEPT ![p] = fired[tick[d].at][p] + 1] \in [Times -> Nat]
        BY <1>2, <2>5, <4>2
      <4> QED BY <1>2, <2>5, <4>1, <4>3
    <3> QED BY <1>2, <1>12, <3>1 DEF FireFails
  <2> QED
    BY <1>4, <1>2, <2>1, <2>4, <2>6, <2>7
<1>13. CASE RecordFire(d) \/ \E s \in Schedules : FireGone(d, s)
  <2>1. CASE RecordFire(d)
    <3>1. /\ tick' = [tick EXCEPT ![d] = Claims(tick[d].todo, tick[d].planned)]
          /\ tick[d].pc = "recording"
          /\ UNCHANGED <<held, sched, auto, fired, lost, faults>>
      BY <1>2, <2>1 DEF RecordFire, tableVars, runVars
    <3> QED BY <1>4, <1>2, <1>9, <1>17, <3>1
  <2>2. ASSUME NEW s \in Schedules, FireGone(d, s)
        PROVE  Goal
    <3>1. /\ tick' = [tick EXCEPT ![d] = Claims(tick[d].todo \ {s}, tick[d].planned)]
          /\ tick[d].pc = "firing"
          /\ UNCHANGED <<held, sched, auto, fired, faults>>
          /\ lost' \subseteq Schedules
      BY <1>2, <2>2 DEF FireGone, IsNext, tableVars, runVars
    <3>2. tick[d].todo \ {s} \in SUBSET Schedules
      BY <1>17
    <3> QED BY <1>9, <3>1, <3>2
  <2> QED BY <1>4, <1>13, <2>1, <2>2
<1>14. CASE RecordRaises(d) \/ TickAborts(d)
  <2>1. /\ Asleep \in TickState /\ Asleep.pc = "asleep" /\ Asleep.todo = {} /\ Asleep.now = 0
    BY DEF Asleep, TickState, NoAnchor, NoInput
  <2>2. /\ tick' = [tick EXCEPT ![d] = Asleep]
        /\ held' = [held EXCEPT ![d] = {}]
        /\ UNCHANGED <<sched, auto, fired>>
        /\ faults' \in 0..MaxFaults
    BY <1>2, <1>3, <1>14, <1>19 DEF RecordRaises, TickAborts, tableVars, runVars
  <2>3. lost' \subseteq Schedules
    BY <1>2, <1>14, <1>17, <1>18 DEF RecordRaises, TickAborts
  <2>4. /\ tick' \in [Dispatchers -> TickState]
        /\ held' \in [Dispatchers -> SUBSET Schedules]
        /\ \A e \in Dispatchers : TickOK(e)'
        /\ LocksOK'
    BY <1>5, <2>1, <2>2
  <2> QED
    BY <1>4, <1>2, <2>2, <2>3, <2>4
<1> QED
  BY <1>4, <1>6, <1>7, <1>8, <1>11, <1>12, <1>13, <1>14 DEF DispatcherStep

LEMMA WorldTyped ==
    ASSUME Typed, World, OfWorld
    PROVE  Typed'
<1>1. /\ anchored' \in [Schedules -> [Times -> Nat]]
      /\ UNCHANGED <<sched, held, stored, faults, call, served, life, tick, fired, lost>>
  BY RecordTyped
     DEF OfWorld, serviceVars, dispatcherVars, World, TimePasses, RunEnds, tableVars, runVars
<1>2. /\ clock' \in 0..MaxTime /\ clock <= clock'
      /\ auto' \in [Schedules -> Nat] /\ manual' \in [Schedules -> Nat]
  BY BoundsAssumption
     DEF Typed, TypeOK, ScheduleStoreTypeOK, World, TimePasses, RunEnds, runVars
<1>3. \A d \in Dispatchers : TickOK(d)'
  <2> SUFFICES ASSUME NEW d \in Dispatchers PROVE TickOK(d)'
    OBVIOUS
  <2>1. tick[d].now \in Nat /\ clock \in Nat /\ clock' \in Nat
    BY <1>2, BoundsAssumption
       DEF Typed, TypeOK, DispatcherTypeOK, ScheduleStoreTypeOK, TickState
  <2> QED BY <1>1, <1>2, <2>1 DEF Typed, TickOK
<1> QED
  BY <1>1, <1>2, <1>3
     DEF Typed, TypeOK, ScheduleStoreTypeOK, ServiceTypeOK, DispatcherTypeOK, CallsOK,
         IdsUsedOnce, LocksOK, Exists

LEMMA TypedStep ==
    ASSUME Typed, [Next]_vars
    PROVE  Typed'
<1>1. CASE Next
  BY <1>1, ServiceTyped, DispatcherTyped, WorldTyped DEF Next
<1>2. CASE UNCHANGED vars
  BY <1>2
     DEF vars, tableVars, runVars, serviceVars, dispatcherVars, Typed, TypeOK,
         ScheduleStoreTypeOK, ServiceTypeOK, DispatcherTypeOK, CallsOK, IdsUsedOnce,
         LocksOK, Exists, TickOK
<1> QED BY <1>1, <1>2

LEMMA TypedHolds == Spec => []Typed
BY TypedInit, TypedStep, PTL DEF Spec

\* Tables, requests and ticks stay in their types; the rows a dispatcher has
\* locked stay there while it decides about them.
THEOREM TypeCorrect == Spec => []TypeOK
<1>1. Typed => TypeOK
  BY DEF Typed
<1> QED BY <1>1, TypedHolds, PTL

-----------------------------------------------------------------------------
(* A schedule and its input.                                               *)

\* A create has stored the input before its row is there.
InputInv ==
    /\ InputIsThere
    /\ \A h \in Callers : At(h, "create", "commit") => stored[call[h].s] # NoInput

LEMMA InputArrival ==
    ASSUME Typed, InputInv, NEW h \in Callers, CallArrives(h)
    PROVE  InputInv'
<1>1. UNCHANGED <<sched, stored, faults>>
  BY ArrivalTyped DEF tableVars
<1>2. /\ call \in [Callers -> Call \union {NoCall}]
      /\ call[h] = NoCall
      /\ \A g \in Callers \ {h} : call'[g] = call[g]
      /\ ~(call'[h].kind = "create" /\ call'[h].step = "commit")
  BY DEF Typed, TypeOK, ServiceTypeOK, CallArrives, CreateBegin, UpdateBegin,
         SetEnabledBegin, DeleteBegin, TriggerBegin, Accept
<1>3. NoCall.kind # "delete"
  BY DEF NoCall
<1>4. InputIsThere'
  <2> SUFFICES ASSUME NEW s \in Schedules, Exists(s), stored[s] = NoInput, ~(faults > 0)
               PROVE  BeingDeleted(s)'
    BY <1>1 DEF InputIsThere, Exists
  <2>1. PICK g \in Callers : call[g].kind = "delete" /\ call[g].s = s
    BY DEF InputInv, InputIsThere, BeingDeleted
  <2>2. call'[g] = call[g]
    BY <1>2, <1>3, <2>1
  <2> QED BY <2>1, <2>2 DEF BeingDeleted
<1> QED
  BY <1>1, <1>2, <1>4 DEF InputInv, At

LEMMA InputCallStep ==
    ASSUME Typed, InputInv, NEW h \in Callers, CallStep(h) \/ CallLost(h)
    PROVE  InputInv'
<1>1. /\ call \in [Callers -> Call \union {NoCall}]
      /\ sched \in [Schedules -> ScheduleRow \union {NoSchedule}]
      /\ stored \in [Schedules -> Nat]
  BY DEF Typed, TypeOK, ServiceTypeOK, ScheduleStoreTypeOK
<1>2. call[h].kind \in KindsOfRequest => call[h] \in Call /\ call[h].s \in Schedules
  BY <1>1 DEF NoCall, KindsOfRequest, Call
<1>3. /\ \A g \in Callers \ {h} : call'[g] = call[g]
      /\ \/ call'[h] = NoCall
         \/ call'[h].kind = call[h].kind /\ call'[h].s = call[h].s
      /\ \A q \in Schedules : sched'[q] # NoSchedule =>
            \/ sched[q] # NoSchedule
            \/ q = call[h].s /\ call[h].kind = "create" /\ call'[h] = NoCall
  BY CallStepOnRow
<1>4. NoCall.kind = "none"
  BY DEF NoCall
\* What the step does to the inputs.
<1>5. /\ \A q \in Schedules : q # call[h].s => stored'[q] = stored[q]
      /\ call[h].kind # "delete" =>
            stored'[call[h].s] = stored[call[h].s] \/ stored'[call[h].s] # NoInput
      /\ faults' = faults \/ faults' > 0
      /\ call'[h] = NoCall =>
            \/ faults' > 0
            \/ sched'[call[h].s] = NoSchedule
            \/ call[h].kind # "delete"
      /\ call'[h].kind = "create" => call'[h].step = "commit" /\ stored'[call[h].s] # NoInput
      /\ call[h].kind = "create" /\ call'[h] = NoCall =>
            \/ faults' > 0
            \/ At(h, "create", "commit") /\ stored' = stored
  <2>1. CASE CreateStore(h) \/ UpdateStore(h)
    <3>1. /\ call[h] \in Call /\ call[h].copy.rev > 0 /\ call[h].copy \in ScheduleRow
          /\ call[h].s \in Schedules
      BY <1>2, <2>1
         DEF CreateStore, UpdateStore, At, KindsOfRequest, Typed, CallsOK, CallOK
    <3>2. PICK next : call' = [call EXCEPT ![h].step = "commit", ![h].copy.next = next]
      BY <2>1 DEF CreateStore, UpdateStore
    <3>3. call'[h].step = "commit" /\ call'[h].kind = call[h].kind /\ call[h].kind # "delete"
          /\ call'[h] # NoCall
      BY <1>1, <2>1, <3>1, <3>2 DEF Call, CreateStore, UpdateStore, At, NoCall
    <3>4. stored' = [stored EXCEPT ![call[h].s] = call[h].copy.rev] /\ faults' = faults
          /\ call[h].copy.rev # NoInput
      BY <2>1, <3>1 DEF CreateStore, UpdateStore, NoInput, ScheduleRow
    <3> QED BY <1>1, <3>1, <3>3, <3>4
  <2>2. CASE CreateCommit(h) \/ ChangeCommit(h) \/ TriggerStart(h)
    BY <1>1, <1>4, <2>2 DEF CreateCommit, ChangeCommit, TriggerStart, Hangup, At
  <2>3. CASE DeleteErase(h)
    <3>1. /\ call[h] \in Call /\ call[h].kind = "delete"
          /\ call' = [call EXCEPT ![h].step = "commit"]
          /\ stored' = [stored EXCEPT ![call[h].s] = NoInput] /\ faults' = faults
      BY <1>2, <2>3 DEF DeleteErase, At, Onto, KindsOfRequest
    <3>2. call'[h].kind = "delete" /\ call'[h] # NoCall
      BY <1>1, <1>4, <3>1 DEF Call
    <3> QED BY <1>1, <1>4, <3>1, <3>2
  <2>4. CASE DeleteCommit(h)
    BY <1>1, <1>2, <1>4, <2>4 DEF DeleteCommit, Hangup, At, KindsOfRequest
  <2>5. CASE TriggerLoad(h)
    <3>1. call[h] \in Call /\ call[h].kind = "trigger" /\ UNCHANGED <<stored, faults>>
      BY <1>2, <2>5 DEF TriggerLoad, At, KindsOfRequest
    <3> QED BY <1>3, <1>4, <3>1
  <2>6. CASE CallLost(h)
    <3>1. faults' > 0
      BY <2>6 DEF CallLost, Fault, Typed, TypeOK, ScheduleStoreTypeOK
    <3> QED BY <1>1, <1>4, <2>6, <3>1 DEF CallLost, Hangup
  <2> QED BY <2>1, <2>2, <2>3, <2>4, <2>5, <2>6 DEF CallStep
<1>6. faults > 0 => faults' > 0
  BY <1>5
<1>7. InputIsThere'
  <2> SUFFICES ASSUME NEW s \in Schedules, sched'[s] # NoSchedule,
                      stored'[s] = NoInput, ~(faults' > 0)
               PROVE  \E g \in Callers : call'[g].kind = "delete" /\ call'[g].s = s
    BY DEF InputIsThere, Exists, BeingDeleted
  <2>1. CASE s = call[h].s /\ call[h].kind = "delete"
    <3>1. call'[h] # NoCall
      BY <1>5, <2>1
    <3> QED BY <1>3, <2>1, <3>1
  <2>2. CASE ~(s = call[h].s /\ call[h].kind = "delete")
    <3>1. stored[s] = NoInput
      BY <1>5, <2>2
    <3>2. sched[s] # NoSchedule
      BY <1>3, <1>5, <2>2, <3>1 DEF InputInv
    <3>3. PICK g \in Callers : call[g].kind = "delete" /\ call[g].s = s
      BY <1>6, <3>1, <3>2 DEF InputInv, InputIsThere, Exists, BeingDeleted
    <3>4. g # h
      BY <2>2, <3>3
    <3> QED BY <1>3, <3>3, <3>4
  <2> QED BY <2>1, <2>2
<1>8. ASSUME NEW g \in Callers, call'[g].kind = "create", call'[g].step = "commit"
      PROVE  stored'[call'[g].s] # NoInput
  <2>1. CASE g = h
    BY <1>3, <1>4, <1>5, <1>8, <2>1
  <2>2. CASE g # h
    <3>1. /\ call'[g] = call[g] /\ call[g].kind = "create"
          /\ stored[call[g].s] # NoInput
      BY <1>3, <1>8, <2>2 DEF InputInv, At
    <3>2. call[g].s \in Schedules /\ call[h].s # call[g].s
      BY <1>1, <2>2, <3>1 DEF Typed, IdsUsedOnce, Call, NoCall
    <3> QED BY <1>5, <3>1, <3>2
  <2> QED BY <2>1, <2>2
<1> QED BY <1>7, <1>8 DEF InputInv, At

LEMMA InputOthers ==
    ASSUME InputInv, UNCHANGED <<call, stored>>, faults' = faults \/ faults' > 0,
           Typed, \A s \in Schedules : sched'[s] = NoSchedule <=> sched[s] = NoSchedule
    PROVE  InputInv'
BY DEF InputInv, InputIsThere, Exists, BeingDeleted, At

LEMMA InputStep ==
    ASSUME Typed, InputInv, [Next]_vars
    PROVE  InputInv'
<1>1. CASE ServiceNext
  BY <1>1, InputArrival, InputCallStep DEF ServiceNext
<1>2. CASE DispatcherNext /\ OfDispatchers
  BY <1>2, DispatcherOnRow, InputOthers DEF DispatcherNext, OfDispatchers, serviceVars
<1>3. CASE (World /\ OfWorld) \/ UNCHANGED vars
  BY <1>3, InputOthers
     DEF World, TimePasses, RunEnds, OfWorld, serviceVars, tableVars, vars
<1> QED BY <1>1, <1>2, <1>3 DEF Next

LEMMA InputInit == Init => InputInv
BY DEF Init, ScheduleStoreInit, ServiceInit, InputInv, InputIsThere, Exists, At, NoCall

\* Creates, updates and deletes of any number of callers, in any order with
\* the dispatchers, leave no schedule without its input.
THEOREM SchedulesHaveTheirInput == Spec => []InputIsThere
<1>1. InputInv => InputIsThere
  BY DEF InputInv
<1>2. Typed /\ InputInv /\ [Next]_vars => InputInv'
  BY InputStep
<1> QED BY <1>1, <1>2, InputInit, TypedHolds, PTL DEF Spec

-----------------------------------------------------------------------------
(* What a dispatcher works on.                                             *)

\* A dispatcher works on the schedule until the outcome is recorded.
Claimed(d, s) ==
    \/ s \in tick[d].todo
    \/ /\ tick[d].pc \in {"loading", "creating", "recording"}
       /\ tick[d].at = s

LEMMA ClaimStep ==
    ASSUME Typed, NEW d \in Dispatchers, ClaimCommit(d)
    PROVE  /\ \A e \in Dispatchers \ {d} : tick'[e] = tick[e]
           /\ UNCHANGED <<auto, manual, fired, lost>>
           /\ \A s \in Schedules : ~Owes(d, s)
           /\ \A s \in Schedules : Claimed(d, s)' <=> Owes(d, s)'
           /\ \A s \in Schedules : Owes(d, s)' =>
                 /\ s \in held[d]
                 /\ ToFire(s, tick[d].now)
                 /\ tick'[d].planned[s] = sched[s].next
                 /\ sched'[s].next > sched[s].next
<1>1. /\ tick \in [Dispatchers -> TickState]
      /\ tick[d].todo = {} /\ tick[d].pc = "claiming"
      /\ held[d] \subseteq Schedules
  BY DEF Typed, TypeOK, DispatcherTypeOK, ScheduleStoreTypeOK, TickOK, ClaimCommit
<1>2. PICK invalid \in SUBSET held[d] :
        LET todo == {s \in held[d] \ invalid : ToFire(s, tick[d].now)}
        IN  /\ sched' = [s \in Schedules |->
                  IF s \in invalid THEN Disabled(s)
                  ELSE IF s \in held[d] \ invalid THEN Reanchored(s, tick[d].now)
                  ELSE sched[s]]
            /\ tick' = [tick EXCEPT ![d] =
                        Claims(todo, [s \in todo |-> sched[s].next])]
  BY DEF ClaimCommit
<1> DEFINE todo == {s \in held[d] \ invalid : ToFire(s, tick[d].now)}
           planned == [s \in todo |-> sched[s].next]
<1>3. /\ tick'[d] = Claims(todo, planned)
      /\ \A e \in Dispatchers \ {d} : tick'[e] = tick[e]
  BY <1>1, <1>2
<1>4. /\ \A s \in todo : /\ s \in held[d] \ invalid /\ s \in Schedules
                         /\ ToFire(s, tick[d].now)
                         /\ planned[s] = sched[s].next
  BY <1>1
<1>5. \A s \in todo : sched'[s].next > sched[s].next
  BY <1>2, <1>4, ClaimedRows
<1> HIDE DEF todo, planned
<1>6. /\ tick'[d].todo = todo /\ tick'[d].pc \in {"asleep", "firing"}
      /\ \A s \in Schedules : s \in todo => tick'[d].planned[s] = planned[s]
  BY <1>3 DEF Claims, Asleep
<1>7. \A s \in Schedules : (Claimed(d, s)' <=> s \in todo) /\ (Owes(d, s)' <=> s \in todo)
  BY <1>6 DEF Claimed, Owes
<1>8. UNCHANGED <<auto, manual, fired, lost>>
  BY DEF ClaimCommit, runVars
<1>9. \A s \in Schedules : ~Owes(d, s)
  BY <1>1 DEF Owes
<1>10. \A s \in Schedules : s \in todo => tick'[d].planned[s] = sched[s].next
  BY <1>4, <1>6
<1> QED BY <1>3, <1>4, <1>5, <1>7, <1>8, <1>9, <1>10

LEMMA TickStep ==
    ASSUME Typed, NEW d \in Dispatchers, DispatcherStep(d) \/ TickAborts(d),
           ~ClaimCommit(d)
    PROVE  /\ \A e \in Dispatchers \ {d} : tick'[e] = tick[e]
           /\ UNCHANGED <<sched, manual>>
           /\ \A s \in Schedules : Claimed(d, s)' => Claimed(d, s)
           /\ \A s \in Schedules : Owes(d, s)' =>
                 Owes(d, s) /\ tick'[d].planned[s] = tick[d].planned[s]
           /\ \/ lost' = lost
              \/ faults' > 0
              \/ \E s \in Schedules : Claimed(d, s) /\ ~Exists(s)
           /\ \/ UNCHANGED <<auto, fired>>
              \/ /\ FireCreate(d) /\ tick[d].at \in Schedules
                 /\ \A s \in Schedules : s = tick[d].at =>
                       Owes(d, s) /\ ~Owes(d, s)'
<1>1. /\ tick \in [Dispatchers -> TickState]
      /\ tick[d].todo \subseteq Schedules /\ tick[d].input \in Nat
      /\ tick[d].pc \in {"loading", "creating", "recording"} =>
            tick[d].at \in Schedules \ tick[d].todo
  BY DEF Typed, TypeOK, DispatcherTypeOK, TickState, TickOK
<1>2. Asleep.todo = {} /\ Asleep.pc = "asleep"
  BY DEF Asleep
<1>3. UNCHANGED <<sched, manual>>
  BY DEF DispatcherStep, TickAborts, ClaimSelect, FireBegin, FireGone,
         FireLoad, FireCreate, FireFails, RecordFire, RecordRaises, tableVars, runVars
<1> DEFINE Same == /\ \A e \in Dispatchers \ {d} : tick'[e] = tick[e]
                   /\ \A s \in Schedules : Claimed(d, s)' => Claimed(d, s)
                   /\ \A s \in Schedules : Owes(d, s)' =>
                         Owes(d, s) /\ tick'[d].planned[s] = tick[d].planned[s]
<1>4. ASSUME NEW todo \in SUBSET tick[d].todo,
             tick' = [tick EXCEPT ![d] = Claims(todo, tick[d].planned)]
      PROVE  Same
  <2>1. /\ tick'[d] = Claims(todo, tick[d].planned)
        /\ \A e \in Dispatchers \ {d} : tick'[e] = tick[e]
    BY <1>1, <1>4
  <2>2. /\ tick'[d].todo = todo /\ tick'[d].pc \in {"asleep", "firing"}
        /\ \A s \in Schedules : s \in todo => tick'[d].planned[s] = tick[d].planned[s]
    BY <1>2, <2>1 DEF Claims, Asleep
  <2> QED BY <1>4, <2>1, <2>2 DEF Claimed, Owes
<1>5. CASE ClaimSelect(d)
  <2>1. /\ tick' = [tick EXCEPT ![d] = [tick[d] EXCEPT !.pc = "claiming", !.now = clock]]
        /\ UNCHANGED <<auto, fired, lost>>
    BY <1>1, <1>5 DEF ClaimSelect, runVars
  <2>2. /\ tick'[d].todo = tick[d].todo /\ tick'[d].planned = tick[d].planned
        /\ tick'[d].pc = "claiming"
        /\ \A e \in Dispatchers \ {d} : tick'[e] = tick[e]
    BY <1>1, <2>1 DEF TickState
  <2> QED BY <1>3, <2>1, <2>2 DEF Claimed, Owes
<1>6. ASSUME NEW s \in Schedules, FireBegin(d, s)
      PROVE  Same /\ UNCHANGED <<auto, fired, lost>>
  <2>1. /\ tick' = [tick EXCEPT ![d] = [tick[d] EXCEPT !.pc = "loading", !.at = s,
                       !.todo = tick[d].todo \ {s}, !.rev = sched[s].rev]]
        /\ UNCHANGED <<auto, fired, lost>> /\ s \in tick[d].todo
    BY <1>1, <1>6 DEF FireBegin, IsNext, runVars
  <2>2. /\ tick'[d].todo = tick[d].todo \ {s} /\ tick'[d].at = s
        /\ tick'[d].planned = tick[d].planned
        /\ \A e \in Dispatchers \ {d} : tick'[e] = tick[e]
    BY <1>1, <2>1 DEF TickState
  <2> QED BY <2>1, <2>2 DEF Claimed, Owes
<1>7. ASSUME NEW s \in Schedules, FireGone(d, s)
      PROVE  Same /\ UNCHANGED <<auto, fired>> /\ Claimed(d, s) /\ ~Exists(s)
  <2>1. /\ tick' = [tick EXCEPT ![d] = Claims(tick[d].todo \ {s}, tick[d].planned)]
        /\ s \in tick[d].todo /\ ~Exists(s) /\ UNCHANGED <<auto, fired>>
    BY <1>1, <1>7 DEF FireGone, IsNext, runVars
  <2>2. tick[d].todo \ {s} \in SUBSET tick[d].todo
    OBVIOUS
  <2>3. Same
    BY <1>4, <2>1, <2>2
  <2> QED BY <2>1, <2>3 DEF Claimed
<1>8. CASE RecordFire(d)
  <2>1. /\ tick' = [tick EXCEPT ![d] = Claims(tick[d].todo, tick[d].planned)]
        /\ UNCHANGED <<auto, fired, lost>>
    BY <1>1, <1>8 DEF RecordFire, runVars
  <2>2. tick[d].todo \in SUBSET tick[d].todo
    OBVIOUS
  <2>3. Same
    BY <1>4, <2>1, <2>2
  <2> QED BY <1>3, <2>1, <2>3
<1>9. ASSUME NEW to \in {"creating", "recording"}, NEW input \in Nat,
             tick[d].pc \in {"loading", "creating"},
             tick' = [tick EXCEPT ![d] = [tick[d] EXCEPT !.pc = to, !.input = input]]
      PROVE  Same /\ tick'[d].pc = to /\ tick'[d].at = tick[d].at
             /\ tick'[d].todo = tick[d].todo
  <2>1. /\ tick'[d].todo = tick[d].todo /\ tick'[d].at = tick[d].at
        /\ tick'[d].planned = tick[d].planned /\ tick'[d].pc = to
        /\ \A e \in Dispatchers \ {d} : tick'[e] = tick[e]
    BY <1>1, <1>9 DEF TickState
  <2> QED BY <1>9, <2>1 DEF Claimed, Owes
<1>10. CASE FireLoad(d)
  <2>1. stored[tick[d].at] \in Nat
    BY <1>1, <1>10 DEF FireLoad, Typed, TypeOK, ScheduleStoreTypeOK
  <2>2. /\ tick' = [tick EXCEPT ![d] = [tick[d] EXCEPT !.pc = "creating",
                                                       !.input = stored[tick[d].at]]]
        /\ tick[d].pc = "loading" /\ UNCHANGED <<auto, fired, lost>>
    BY <1>1, <1>10 DEF FireLoad, runVars
  <2>3. Same
    BY <1>9, <2>1, <2>2
  <2> QED BY <1>3, <2>2, <2>3
<1>11. CASE FireCreate(d) \/ FireFails(d)
  <2>1. /\ tick' = [tick EXCEPT ![d].pc = "recording"]
        /\ tick[d].pc \in {"loading", "creating"} /\ lost' = lost
        /\ FireCreate(d) \/ UNCHANGED <<auto, fired>>
    BY <1>11 DEF FireCreate, FireFails, runVars
  <2>2. [tick[d] EXCEPT !.pc = "recording"]
          = [tick[d] EXCEPT !.pc = "recording", !.input = tick[d].input]
    BY <1>1 DEF TickState
  <2>3. tick' = [tick EXCEPT ![d] =
           [tick[d] EXCEPT !.pc = "recording", !.input = tick[d].input]]
    BY <1>1, <2>1, <2>2
  <2>4. /\ Same /\ tick'[d].pc = "recording" /\ tick'[d].at = tick[d].at
        /\ tick'[d].todo = tick[d].todo
    BY <1>1, <1>9, <2>1, <2>3
  <2>5. /\ tick[d].at \in Schedules /\ Owes(d, tick[d].at)
        /\ ~(tick[d].at \in tick'[d].todo)
    BY <1>1, <2>1, <2>4 DEF Owes
  <2>6. \A s \in Schedules : s = tick[d].at => ~Owes(d, s)'
    BY <2>4, <2>5 DEF Owes
  <2> QED BY <1>3, <2>1, <2>4, <2>5, <2>6
<1>12. CASE RecordRaises(d)
  <2>1. /\ tick' = [tick EXCEPT ![d] = Asleep] /\ UNCHANGED <<auto, fired>>
        /\ ~Exists(tick[d].at) /\ tick[d].pc = "recording"
    BY <1>12 DEF RecordRaises, runVars
  <2>2. Claimed(d, tick[d].at) /\ tick[d].at \in Schedules
    BY <1>1, <2>1 DEF Claimed
  <2>3. Same
    BY <1>1, <1>2, <2>1 DEF Claimed, Owes
  <2> QED BY <1>3, <2>1, <2>2, <2>3
<1>13. CASE TickAborts(d)
  <2>1. /\ tick' = [tick EXCEPT ![d] = Asleep] /\ Fault /\ UNCHANGED <<auto, fired>>
    BY <1>13 DEF TickAborts, runVars
  <2>2. faults' > 0
    BY <2>1 DEF Fault, Typed, TypeOK, ScheduleStoreTypeOK
  <2>3. Same
    BY <1>1, <1>2, <2>1 DEF Claimed, Owes
  <2> QED BY <1>3, <2>1, <2>2, <2>3
<1> QED
  BY <1>3, <1>5, <1>6, <1>7, <1>8, <1>10, <1>11, <1>12, <1>13 DEF DispatcherStep

-----------------------------------------------------------------------------
(* Claims that are lost.                                                   *)

\* What was claimed was there, and is or was deleted.
LostInv ==
    /\ LostOnlyByCrashOrDelete
    /\ \A d \in Dispatchers, s \in Schedules :
          Claimed(d, s) => Exists(s) \/ life[s] = "deleted"

LEMMA LostInit == Init => LostInv
BY DEF Init, DispatcherInit, Asleep, LostInv, LostOnlyByCrashOrDelete, Claimed

LEMMA LostService ==
    ASSUME Typed, LostInv, ServiceNext, OfCallers
    PROVE  LostInv'
<1>1. UNCHANGED <<tick, lost>>
  BY DEF OfCallers, dispatcherVars
<1>2. PICK h \in Callers : CallArrives(h) \/ CallStep(h) \/ CallLost(h)
  BY DEF ServiceNext
<1>3. life \in [Schedules -> {"unused", "used", "deleted"}] /\ faults \in Nat
  BY DEF Typed, TypeOK, ServiceTypeOK, ScheduleStoreTypeOK
<1>4. /\ \A s \in Schedules : life[s] = "deleted" => life'[s] = "deleted"
      /\ faults > 0 => faults' > 0
      /\ \A s \in Schedules : sched[s] # NoSchedule =>
            sched'[s] # NoSchedule \/ life'[s] = "deleted"
  <2>1. CASE CallArrives(h)
    <3>1. sched' = sched /\ faults' = faults
      BY <2>1, ArrivalTyped DEF tableVars
    <3>2. \/ life' = life
          \/ \E s \in Schedules : life[s] = "unused" /\ life' = [life EXCEPT ![s] = "used"]
      BY <2>1 DEF CallArrives, CreateBegin, UpdateBegin, SetEnabledBegin, DeleteBegin,
         TriggerBegin
    <3> QED BY <1>3, <3>1, <3>2
  <2>2. CASE CallStep(h) \/ CallLost(h)
    <3>1. faults' = faults \/ Fault
      BY <2>2 DEF CallStep, CallLost, CreateStore, CreateCommit, UpdateStore, ChangeCommit,
         DeleteErase, DeleteCommit, TriggerLoad, TriggerStart
    <3>2. \/ life' = life
          \/ life' = [life EXCEPT ![call[h].s] = "deleted"]
      BY <2>2, CallStepOnRow
    <3>3. \A q \in Schedules : sched[q] # NoSchedule /\ sched'[q] = NoSchedule =>
              life'[q] = "deleted"
      BY <2>2, CallStepOnRow
    <3> QED BY <1>3, <3>1, <3>2, <3>3 DEF Fault
  <2> QED BY <1>2, <2>1, <2>2
<1> QED
  BY <1>1, <1>4 DEF LostInv, LostOnlyByCrashOrDelete, Claimed, Exists

LEMMA LostDispatcher ==
    ASSUME Typed, LostInv, DispatcherNext, OfDispatchers
    PROVE  LostInv'
<1>1. PICK d \in Dispatchers : DispatcherStep(d) \/ TickAborts(d)
  BY DEF DispatcherNext
<1>2. /\ \A s \in Schedules : sched'[s] = NoSchedule <=> sched[s] = NoSchedule
      /\ faults' = faults \/ faults' > 0
      /\ life' = life
  BY <1>1, DispatcherOnRow DEF OfDispatchers, serviceVars
<1>3. \A s \in held[d] : Exists(s)
  BY DEF Typed, LocksOK
<1>4. /\ \A e \in Dispatchers \ {d} : tick'[e] = tick[e]
      /\ \A s \in Schedules : Claimed(d, s)' => Claimed(d, s) \/ Exists(s)
      /\ \/ lost' = lost
         \/ faults' > 0
         \/ \E s \in Schedules : Claimed(d, s) /\ ~Exists(s)
  <2>1. CASE ClaimCommit(d)
    BY <1>3, <2>1, ClaimStep
  <2>2. CASE ~ClaimCommit(d)
    BY <1>1, <2>2, TickStep
  <2> QED BY <2>1, <2>2
<1> QED
  BY <1>2, <1>4 DEF LostInv, LostOnlyByCrashOrDelete, Claimed, Exists

LEMMA LostStep ==
    ASSUME Typed, LostInv, [Next]_vars
    PROVE  LostInv'
<1>1. CASE (World /\ OfWorld) \/ UNCHANGED vars
  BY <1>1 DEF World, TimePasses, RunEnds, OfWorld, serviceVars, dispatcherVars, tableVars,
              vars, LostInv, LostOnlyByCrashOrDelete, Claimed, Exists
<1> QED BY <1>1, LostService, LostDispatcher DEF Next

\* Whatever becomes of the ticks, a claim goes without outcome only after a
\* crash, a failing database or a delete.
THEOREM ClaimsAreLostOnlyByCrashOrDelete == Spec => []LostOnlyByCrashOrDelete
<1>1. LostInv => LostOnlyByCrashOrDelete
  BY DEF LostInv
<1>2. Typed /\ LostInv /\ [Next]_vars => LostInv'
  BY LostStep
<1> QED BY <1>1, <1>2, LostInit, TypedHolds, PTL DEF Spec

-----------------------------------------------------------------------------
(* One firing per anchor.                                                  *)

\* Every time an occurrence became an anchor it is used up by one firing, is
\* with one dispatcher that may still fire it, or is the anchor still.
Starters(s, t) == {d \in Dispatchers : Owes(d, s) /\ tick[d].planned[s] = t}

Waits(s, t) == IF Anchor(s) = t THEN 1 ELSE 0

OnceInv ==
    \A s \in Schedules, t \in Times :
        fired[s][t] + Cardinality(Starters(s, t)) + Waits(s, t) <= anchored[s][t]

LEMMA StartersFinite ==
    ASSUME NEW s, NEW t
    PROVE  /\ IsFiniteSet(Starters(s, t)) /\ Cardinality(Starters(s, t)) \in Nat
           /\ IsFiniteSet(Starters(s, t)') /\ Cardinality(Starters(s, t)') \in Nat
BY DispatchersFinite, FS_Subset, FS_CardinalityType DEF Starters

LEMMA OnceInit == Init => OnceInv
<1> SUFFICES ASSUME Init, NEW s \in Schedules, NEW t \in Times
             PROVE  fired[s][t] + Cardinality(Starters(s, t)) + Waits(s, t) <= anchored[s][t]
  BY DEF OnceInv
<1>1. Starters(s, t) = {}
  BY DEF Starters, Owes, Init, DispatcherInit, Asleep
<1>2. Waits(s, t) = 0
  BY BoundsAssumption DEF Waits, Anchor, Exists, NoAnchor, Init, ScheduleStoreInit, Times
<1>3. fired[s][t] = 0 /\ anchored[s][t] = 0
  BY DEF Init, DispatcherInit
<1> QED BY <1>1, <1>2, <1>3, FS_EmptySet

\* The anchors are counted in every step.
LEMMA OnceRecord ==
    ASSUME Typed, Record, NEW s \in Schedules, NEW t \in Times
    PROVE  /\ anchored[s][t] \in Nat /\ anchored'[s][t] \in Nat
           /\ Waits(s, t) \in 0..1 /\ Waits(s, t)' \in 0..1
           /\ Waits(s, t)' - Waits(s, t) <= anchored'[s][t] - anchored[s][t]
           /\ anchored[s][t] <= anchored'[s][t]
<1>1. anchored[s][t] \in Nat
  BY DEF Typed, TypeOK
<1>2. anchored'[s][t] = IF Anchor(s)' = t /\ Anchor(s) # t THEN anchored[s][t] + 1
                        ELSE anchored[s][t]
  BY DEF Record
<1> QED BY <1>1, <1>2 DEF Waits

\* A step that fires nothing and claims nothing.
LEMMA OnceStays ==
    ASSUME Typed, OnceInv, Record, NEW s \in Schedules, NEW t \in Times,
           fired'[s][t] = fired[s][t], Starters(s, t)' \subseteq Starters(s, t)
    PROVE  fired'[s][t] + Cardinality(Starters(s, t)') + Waits(s, t)' <= anchored'[s][t]
<1>1. Cardinality(Starters(s, t)') <= Cardinality(Starters(s, t))
  BY StartersFinite, FS_Subset
<1>2. fired[s][t] \in Nat
  BY DEF Typed, TypeOK, DispatcherTypeOK
<1>3. fired[s][t] + Cardinality(Starters(s, t)) + Waits(s, t) <= anchored[s][t]
  BY DEF OnceInv
<1> QED BY <1>1, <1>2, <1>3, StartersFinite, OnceRecord

LEMMA OnceStep ==
    ASSUME Typed, OnceInv, [Next]_vars
    PROVE  OnceInv'
<1>1. CASE (ServiceNext /\ OfCallers) \/ (World /\ OfWorld)
  <2>1. UNCHANGED <<tick, fired>> /\ Record
    BY <1>1 DEF OfCallers, OfWorld, dispatcherVars
  <2>2. \A s \in Schedules, t \in Times : Starters(s, t)' \subseteq Starters(s, t)
    BY <2>1 DEF Starters, Owes
  <2> QED BY <2>1, <2>2, OnceStays DEF OnceInv
<1>2. CASE UNCHANGED vars
  BY <1>2 DEF vars, tableVars, dispatcherVars, OnceInv, Starters, Owes, Waits, Anchor, Exists
<1>3. CASE DispatcherNext /\ OfDispatchers
  <2>1. PICK d \in Dispatchers : DispatcherStep(d) \/ TickAborts(d)
    BY <1>3 DEF DispatcherNext
  <2>2. Record
    BY <1>3 DEF OfDispatchers
  <2>3. fired \in [Schedules -> [Times -> Nat]]
    BY DEF Typed, TypeOK, DispatcherTypeOK
  <2> SUFFICES ASSUME NEW s \in Schedules, NEW t \in Times
               PROVE  fired'[s][t] + Cardinality(Starters(s, t)') + Waits(s, t)'
                        <= anchored'[s][t]
    BY DEF OnceInv
  <2>4. fired[s][t] + Cardinality(Starters(s, t)) + Waits(s, t) <= anchored[s][t]
    BY DEF OnceInv
  <2>5. CASE ClaimCommit(d)
    <3>1. /\ \A e \in Dispatchers \ {d} : tick'[e] = tick[e]
          /\ fired' = fired
          /\ ~Owes(d, s)
      BY <2>5, ClaimStep
    <3>2. CASE d \in Starters(s, t)'
      <4>1. /\ s \in held[d] /\ tick'[d].planned[s] = sched[s].next
            /\ sched'[s].next > sched[s].next
            /\ tick'[d].planned[s] = t
        BY <2>5, <3>2, ClaimStep DEF Starters
      <4>2. sched[s].next = t /\ Anchor(s) = t /\ Waits(s, t) = 1
        BY <4>1, ClaimedRows DEF Anchor, Waits
      <4>3. Anchor(s)' # t
        <5>1. t \in Nat /\ t > 0
          BY DEF Times
        <5> QED BY <4>1, <4>2, <5>1 DEF Anchor, NoAnchor
      <4>4. Waits(s, t)' = 0 /\ anchored'[s][t] = anchored[s][t]
        BY <2>2, <4>2, <4>3 DEF Waits, Record
      <4>5. Starters(s, t)' = Starters(s, t) \union {d} /\ d \notin Starters(s, t)
        BY <3>1, <3>2 DEF Starters, Owes
      <4>6. Cardinality(Starters(s, t)') = Cardinality(Starters(s, t)) + 1
        BY <4>5, StartersFinite, FS_AddElement
      <4> QED
        BY <2>3, <2>4, <3>1, <4>2, <4>4, <4>6, StartersFinite, OnceRecord, <2>2
    <3>3. CASE d \notin Starters(s, t)'
      <4>1. Starters(s, t)' \subseteq Starters(s, t)
        BY <3>1, <3>3 DEF Starters, Owes
      <4> QED BY <2>2, <3>1, <4>1, OnceStays
    <3> QED BY <3>2, <3>3
  <2>6. CASE ~ClaimCommit(d)
    <3>1. /\ \A e \in Dispatchers \ {d} : tick'[e] = tick[e]
          /\ Owes(d, s)' =>
                Owes(d, s) /\ tick'[d].planned[s] = tick[d].planned[s]
          /\ \/ UNCHANGED <<auto, fired>>
             \/ /\ FireCreate(d) /\ tick[d].at \in Schedules
                /\ s = tick[d].at => Owes(d, s) /\ ~Owes(d, s)'
      BY <2>1, <2>6, TickStep
    <3>2. Starters(s, t)' \subseteq Starters(s, t)
      BY <3>1 DEF Starters, Owes
    <3>3. CASE fired'[s][t] = fired[s][t]
      BY <2>2, <3>2, <3>3, OnceStays
    <3>4. CASE fired'[s][t] # fired[s][t]
      <4>1. /\ s = tick[d].at /\ t = tick[d].planned[s]
            /\ fired'[s][t] = fired[s][t] + 1
            /\ Owes(d, s) /\ ~Owes(d, s)'
        <5>1. fired' = [fired EXCEPT ![tick[d].at][tick[d].planned[tick[d].at]] = @ + 1]
          BY <3>1, <3>4 DEF FireCreate
        <5>2. s = tick[d].at
          BY <2>3, <3>4, <5>1
        <5>3. fired'[s] = [fired[s] EXCEPT ![tick[d].planned[s]] = fired[s][tick[d].planned[s]] + 1]
          BY <2>3, <5>1, <5>2
        <5>4. fired[s] \in [Times -> Nat]
          BY <2>3
        <5>5. t = tick[d].planned[s] /\ fired'[s][t] = fired[s][t] + 1
          BY <3>4, <5>3, <5>4
        <5> QED BY <3>1, <3>4, <5>2, <5>5
      <4>2. d \in Starters(s, t) /\ d \notin Starters(s, t)'
        BY <4>1 DEF Starters
      <4>3. Starters(s, t)' \subseteq Starters(s, t) \ {d}
        BY <3>2, <4>2
      <4>4. /\ IsFiniteSet(Starters(s, t) \ {d})
            /\ Cardinality(Starters(s, t) \ {d}) = Cardinality(Starters(s, t)) - 1
        BY <4>2, StartersFinite, FS_RemoveElement
      <4>5. Cardinality(Starters(s, t)') <= Cardinality(Starters(s, t)) - 1
        BY <4>3, <4>4, StartersFinite, FS_Subset
      <4> QED
        BY <2>2, <2>3, <2>4, <4>1, <4>5, StartersFinite, OnceRecord
    <3> QED BY <3>3, <3>4
  <2> QED BY <2>5, <2>6
<1> QED BY <1>1, <1>2, <1>3 DEF Next

\* "Firing is at-most-once": no number of replicas fires an anchor twice,
\* whatever requests, crashes and refused calls come in between.
THEOREM FiresAtMostOncePerAnchor == Spec => []AtMostOncePerAnchor
<1>1. Typed /\ OnceInv => AtMostOncePerAnchor
  <2> SUFFICES ASSUME Typed, OnceInv, NEW s \in Schedules, NEW t \in Times
               PROVE  fired[s][t] <= anchored[s][t]
    BY DEF AtMostOncePerAnchor
  <2>1. fired[s][t] \in Nat /\ anchored[s][t] \in Nat /\ Waits(s, t) \in Nat
    BY DEF Typed, TypeOK, DispatcherTypeOK, Waits
  <2>2. fired[s][t] + Cardinality(Starters(s, t)) + Waits(s, t) <= anchored[s][t]
    BY DEF OnceInv
  <2> QED BY <2>1, <2>2, StartersFinite
<1>2. Typed /\ OnceInv /\ [Next]_vars => OnceInv'
  BY OnceStep
<1> QED BY <1>1, <1>2, OnceInit, TypedHolds, PTL DEF Spec

-----------------------------------------------------------------------------
(* The overlap policy.                                                     *)

\* A dispatcher that may still start a run counts as one it has started.
Working(s) == {d \in Dispatchers : Owes(d, s)}

SkipInv ==
    Policies = {"skip"} =>
        \A s \in Schedules :
            auto[s] + Cardinality(Working(s)) <= Cardinality(Dispatchers)

LEMMA WorkingFinite ==
    ASSUME NEW s
    PROVE  /\ IsFiniteSet(Working(s)) /\ Cardinality(Working(s)) \in Nat
           /\ IsFiniteSet(Working(s)') /\ Cardinality(Working(s)') \in Nat
           /\ Cardinality(Working(s)') <= Cardinality(Dispatchers)
           /\ Cardinality(Dispatchers) \in Nat
BY DispatchersFinite, FS_Subset, FS_CardinalityType DEF Working

LEMMA SkipInit == Init => SkipInv
<1> SUFFICES ASSUME Init, NEW s \in Schedules
             PROVE  auto[s] + Cardinality(Working(s)) <= Cardinality(Dispatchers)
  BY DEF SkipInv
<1>1. Working(s) = {}
  BY DEF Working, Owes, Init, DispatcherInit, Asleep
<1>2. auto[s] = 0
  BY DEF Init, ScheduleStoreInit
<1> QED BY <1>1, <1>2, WorkingFinite, FS_EmptySet

LEMMA SkipStep ==
    ASSUME Typed, SkipInv, [Next]_vars
    PROVE  SkipInv'
<1> SUFFICES ASSUME Policies = {"skip"}, NEW s \in Schedules
             PROVE  auto'[s] + Cardinality(Working(s)') <= Cardinality(Dispatchers)
  BY DEF SkipInv
<1>1. /\ auto \in [Schedules -> Nat] /\ manual \in [Schedules -> Nat]
      /\ auto[s] + Cardinality(Working(s)) <= Cardinality(Dispatchers)
  BY DEF Typed, TypeOK, ScheduleStoreTypeOK, SkipInv
<1>2. CASE auto'[s] \in Nat /\ auto'[s] <= auto[s] /\ Working(s)' \subseteq Working(s)
  <2>1. Cardinality(Working(s)') <= Cardinality(Working(s))
    BY <1>2, WorkingFinite, FS_Subset
  <2> QED BY <1>1, <1>2, <2>1, WorkingFinite
<1>3. CASE (ServiceNext /\ OfCallers) \/ (World /\ OfWorld) \/ UNCHANGED vars
  <2>1. UNCHANGED tick
    BY <1>3 DEF OfCallers, OfWorld, vars, dispatcherVars
  <2>2. Working(s)' \subseteq Working(s)
    BY <2>1 DEF Working, Owes
  <2>3. auto'[s] \in Nat /\ auto'[s] <= auto[s]
    <3>1. CASE ServiceNext
      BY <1>1, <3>1, ArrivalTyped, CallStepTyped DEF ServiceNext, CallLost, runVars
    <3>2. CASE World \/ UNCHANGED vars
      BY <1>1, <3>2 DEF World, TimePasses, RunEnds, vars, runVars
    <3> QED BY <1>3, <3>1, <3>2
  <2> QED BY <1>2, <2>2, <2>3
<1>4. CASE DispatcherNext
  <2>1. PICK d \in Dispatchers : DispatcherStep(d) \/ TickAborts(d)
    BY <1>4 DEF DispatcherNext
  <2>2. CASE ClaimCommit(d)
    <3>1. /\ \A e \in Dispatchers \ {d} : tick'[e] = tick[e]
          /\ auto' = auto
          /\ Owes(d, s)' => s \in held[d] /\ ToFire(s, tick[d].now)
      BY <2>2, ClaimStep
    <3>2. CASE Owes(d, s)'
      <4>1. sched[s].policy = "skip"
        BY <3>1, <3>2, ClaimedRows DEF ScheduleRow
      <4>2. auto[s] = 0
        BY <1>1, <3>1, <3>2, <4>1 DEF ToFire, Active
      <4> QED BY <3>1, <4>2, WorkingFinite
    <3>3. CASE ~Owes(d, s)'
      <4>1. Working(s)' \subseteq Working(s)
        BY <3>1, <3>3 DEF Working, Owes
      <4> QED BY <1>1, <1>2, <3>1, <4>1
    <3> QED BY <3>2, <3>3
  <2>3. CASE ~ClaimCommit(d)
    <3>1. /\ \A e \in Dispatchers \ {d} : tick'[e] = tick[e]
          /\ Owes(d, s)' => Owes(d, s)
          /\ \/ UNCHANGED <<auto, fired>>
             \/ /\ FireCreate(d) /\ tick[d].at \in Schedules
                /\ s = tick[d].at => Owes(d, s) /\ ~Owes(d, s)'
      BY <2>1, <2>3, TickStep
    <3>2. Working(s)' \subseteq Working(s)
      BY <3>1 DEF Working, Owes
    <3>3. CASE auto'[s] = auto[s]
      BY <1>1, <1>2, <3>2, <3>3
    <3>4. CASE auto'[s] # auto[s]
      <4>1. /\ s = tick[d].at /\ auto'[s] = auto[s] + 1
            /\ Owes(d, s) /\ ~Owes(d, s)'
        BY <1>1, <3>1, <3>4 DEF FireCreate
      <4>2. d \in Working(s) /\ d \notin Working(s)'
        BY <4>1 DEF Working
      <4>3. Working(s)' \subseteq Working(s) \ {d}
        BY <3>2, <4>2
      <4>4. /\ IsFiniteSet(Working(s) \ {d})
            /\ Cardinality(Working(s) \ {d}) = Cardinality(Working(s)) - 1
        BY <4>2, WorkingFinite, FS_RemoveElement
      <4>5. Cardinality(Working(s)') <= Cardinality(Working(s)) - 1
        BY <4>3, <4>4, WorkingFinite, FS_Subset
      <4> QED
        BY <1>1, <4>1, <4>5, WorkingFinite
    <3> QED BY <3>3, <3>4
  <2> QED BY <2>2, <2>3
<1> QED BY <1>3, <1>4 DEF Next

\* The overlap policy "skip" bounds the scheduled runs in flight by the
\* number of replicas, for any number of replicas.
THEOREM SkipLimitsOverlap == Spec => []SkipBoundsOverlap
<1>1. Typed /\ SkipInv => SkipBoundsOverlap
  <2> SUFFICES ASSUME Typed, SkipInv, Policies = {"skip"}, NEW s \in Schedules
               PROVE  auto[s] <= Cardinality(Dispatchers)
    BY DEF SkipBoundsOverlap
  <2>1. auto[s] \in Nat
    BY DEF Typed, TypeOK, ScheduleStoreTypeOK
  <2>2. auto[s] + Cardinality(Working(s)) <= Cardinality(Dispatchers)
    BY DEF SkipInv
  <2> QED BY <2>1, <2>2, WorkingFinite
<1>2. Typed /\ SkipInv /\ [Next]_vars => SkipInv'
  BY SkipStep
<1> QED BY <1>1, <1>2, SkipInit, TypedHolds, PTL DEF Spec

-----------------------------------------------------------------------------
(* Row and input.                                                          *)

\* With one request at a time, the stored input is as new as the row, and
\* what is to be stored next is newer than both.
RevisionsInOrder ==
    /\ \A s \in Schedules :
          /\ stored[s] <= served
          /\ Exists(s) => sched[s].rev <= served
          /\ Exists(s) /\ stored[s] # NoInput => sched[s].rev <= stored[s]
    /\ \A h \in Callers :
          /\ call[h].kind \in {"create", "update"} =>
                /\ call[h].copy.rev = served
                /\ call[h].step = "commit" =>
                      stored[call[h].s] = served
          /\ call[h].kind \in {"enable", "disable"} =>
                call[h].copy.rev = call[h].loaded.rev
    /\ \A d \in Dispatchers :
          /\ tick[d].pc = "loading" =>
                /\ tick[d].rev <= served
                /\ stored[tick[d].at] # NoInput => tick[d].rev <= stored[tick[d].at]
          /\ tick[d].pc = "creating" => tick[d].rev <= tick[d].input

NewestInv == Cardinality(Callers) = 1 => RevisionsInOrder

LEMMA NewestInit == Init => NewestInv
BY DEF Init, ScheduleStoreInit, ServiceInit, DispatcherInit, NewestInv, RevisionsInOrder,
       NoCall, Asleep, Exists, NoInput

LEMMA OneCaller ==
    ASSUME Cardinality(Callers) = 1, NEW g \in Callers, NEW h \in Callers
    PROVE  g = h
BY CallersFinite, FS_Singleton

\* The revisions are natural numbers.
LEMMA Revisions ==
    ASSUME Typed
    PROVE  /\ served \in Nat
           /\ \A s \in Schedules : /\ stored[s] \in Nat
                                   /\ Exists(s) => sched[s].rev \in Nat
           /\ \A d \in Dispatchers : tick[d].rev \in Nat /\ tick[d].input \in Nat
BY RequestsAssumption
   DEF Typed, TypeOK, ScheduleStoreTypeOK, ServiceTypeOK, DispatcherTypeOK, TickState,
       ScheduleRow, Exists

LEMMA NewestArrival ==
    ASSUME Typed, RevisionsInOrder, Cardinality(Callers) = 1,
           NEW h \in Callers, CallArrives(h), UNCHANGED tick
    PROVE  RevisionsInOrder'
<1>1. UNCHANGED <<sched, stored>>
  BY ArrivalTyped DEF tableVars
<1>2. PICK s \in Schedules :
          \/ \E enabled \in BOOLEAN, cron \in Crons, policy \in Policies :
                \/ CreateBegin(h, s, enabled, cron, policy)
                \/ UpdateBegin(h, s, enabled, cron, policy)
          \/ \E kind \in {"enable", "disable"} : SetEnabledBegin(h, s, kind)
          \/ DeleteBegin(h, s)
          \/ TriggerBegin(h, s)
  BY DEF CallArrives
<1>3. /\ served' = served + 1
      /\ call'[h].kind \in {"create", "update"} =>
            call'[h].copy.rev = served + 1 /\ call'[h].step = "store"
      /\ call'[h].kind \in {"enable", "disable"} =>
            call'[h].copy.rev = call'[h].loaded.rev
  <2>1. call \in [Callers -> Call \union {NoCall}]
    BY DEF Typed, TypeOK, ServiceTypeOK
  <2>2. CASE \E enabled \in BOOLEAN, cron \in Crons, policy \in Policies :
                \/ CreateBegin(h, s, enabled, cron, policy)
                \/ UpdateBegin(h, s, enabled, cron, policy)
    BY <2>1, <2>2 DEF CreateBegin, UpdateBegin, Accept, Requested
  <2>3. ASSUME NEW kind \in {"enable", "disable"}, SetEnabledBegin(h, s, kind)
        PROVE  /\ served' = served + 1
               /\ call'[h].kind = kind /\ call'[h].copy.rev = call'[h].loaded.rev
    <3>1. sched[s] \in ScheduleRow
      BY <2>3, RowTyped DEF SetEnabledBegin
    <3> DEFINE copy == [sched[s] EXCEPT
                           !.enabled = (kind = "enable"),
                           !.next = IF kind = "enable" THEN NextFire(sched[s].cron, clock)
                                    ELSE NoAnchor]
    <3>2. copy.rev = sched[s].rev
      BY <3>1 DEF ScheduleRow
    <3>3. Accept(h, kind, "commit", s, sched[s], copy)
      BY <2>3 DEF SetEnabledBegin
    <3> HIDE DEF copy
    <3> QED BY <2>1, <3>2, <3>3 DEF Accept
  <2>4. CASE DeleteBegin(h, s) \/ TriggerBegin(h, s)
    BY <2>1, <2>4 DEF DeleteBegin, TriggerBegin, Accept
  <2> QED BY <1>2, <2>2, <2>3, <2>4
<1>4. \A g \in Callers : g = h
  BY OneCaller
<1> QED
  BY <1>1, <1>3, <1>4, Revisions DEF RevisionsInOrder, Exists

LEMMA NewestCallStep ==
    ASSUME Typed, RevisionsInOrder, Cardinality(Callers) = 1,
           NEW h \in Callers, CallStep(h) \/ CallLost(h), UNCHANGED <<tick, served>>
    PROVE  RevisionsInOrder'
<1>1. /\ call \in [Callers -> Call \union {NoCall}]
      /\ sched \in [Schedules -> ScheduleRow \union {NoSchedule}]
      /\ stored \in [Schedules -> Nat]
      /\ CallOK(call[h])
      /\ \A d \in Dispatchers :
            tick[d].pc \in {"loading", "creating", "recording"} => tick[d].at \in Schedules
  BY DEF Typed, TypeOK, ServiceTypeOK, ScheduleStoreTypeOK, CallsOK, TickOK
<1>2. call[h].kind \in KindsOfRequest => call[h] \in Call /\ call[h].s \in Schedules
  BY <1>1 DEF NoCall, KindsOfRequest, Call
<1>3. \A g \in Callers : g = h
  BY OneCaller
<1>4. NoCall.kind = "none"
  BY DEF NoCall
<1>5. ASSUME UNCHANGED <<sched, stored>>,
             \/ call'[h] = NoCall
             \/ call[h].kind \in {"delete", "trigger"} /\ call'[h].kind = call[h].kind
      PROVE  RevisionsInOrder'
  BY <1>3, <1>4, <1>5 DEF RevisionsInOrder, Exists
<1>6. CASE CreateStore(h) \/ UpdateStore(h)
  <2>1. /\ call[h] \in Call /\ call[h].copy \in ScheduleRow /\ call[h].s \in Schedules
        /\ call[h].kind \in {"create", "update"} /\ call[h].copy.rev = served
    BY <1>1, <1>2, <1>6
       DEF CreateStore, UpdateStore, At, KindsOfRequest, CallOK, RevisionsInOrder
  <2>2. PICK next : call' = [call EXCEPT ![h].step = "commit", ![h].copy.next = next]
    BY <1>6 DEF CreateStore, UpdateStore
  <2>3. /\ call'[h].kind = call[h].kind /\ call'[h].s = call[h].s
        /\ call'[h].copy = [call[h].copy EXCEPT !.next = next]
    BY <1>1, <2>1, <2>2 DEF Call
  <2>4. call'[h].copy.rev = served
    BY <2>1, <2>3 DEF ScheduleRow
  <2>5. stored' = [stored EXCEPT ![call[h].s] = served] /\ sched' = sched
    BY <1>6, <2>1 DEF CreateStore, UpdateStore, tableVars
  <2>6. \A s \in Schedules : /\ stored'[s] <= served
                             /\ s = call[h].s => stored'[s] = served
                             /\ s # call[h].s => stored'[s] = stored[s]
    BY <1>1, <2>1, <2>5, Revisions DEF RevisionsInOrder
  <2>7. \A s \in Schedules :
          /\ Exists(s)' => sched'[s].rev <= served
          /\ Exists(s)' /\ stored'[s] # NoInput => sched'[s].rev <= stored'[s]
    BY <2>5, <2>6 DEF RevisionsInOrder, Exists
  <2>8. \A d \in Dispatchers :
          /\ tick[d].pc = "loading" =>
                /\ tick[d].rev <= served
                /\ stored'[tick[d].at] # NoInput => tick[d].rev <= stored'[tick[d].at]
          /\ tick[d].pc = "creating" => tick[d].rev <= tick[d].input
    BY <1>1, <2>6 DEF RevisionsInOrder
  <2> QED BY <1>3, <2>1, <2>3, <2>4, <2>6, <2>7, <2>8 DEF RevisionsInOrder
<1>7. CASE CreateCommit(h) \/ ChangeCommit(h)
  <2>1. /\ call[h] \in Call /\ call[h].copy \in ScheduleRow /\ call[h].s \in Schedules
        /\ call'[h] = NoCall /\ stored' = stored
    BY <1>1, <1>2, <1>7
       DEF CreateCommit, ChangeCommit, At, KindsOfRequest, CallOK, Hangup
  <2>2. \A s \in Schedules : s # call[h].s => sched'[s] = sched[s]
    BY <1>7, CallStepOnRow DEF CallStep
  <2>3. sched'[call[h].s] # NoSchedule =>
            \/ sched'[call[h].s].rev = served /\ stored[call[h].s] = served
            \/ sched[call[h].s] # NoSchedule /\ sched'[call[h].s].rev = sched[call[h].s].rev
    <3>1. CASE CreateCommit(h)
      BY <1>1, <2>1, <3>1 DEF CreateCommit, At, RevisionsInOrder
    <3>2. CASE ChangeCommit(h)
      <4>1. call[h].loaded \in ScheduleRow
        BY <1>1, <3>2 DEF ChangeCommit, CallOK
      <4>2. CASE Exists(call[h].s)
        <5>1. sched'[call[h].s] =
                  FlushColumns(sched[call[h].s], call[h].loaded, call[h].copy)
          BY <1>1, <2>1, <3>2, <4>2 DEF ChangeCommit
        <5>2. sched'[call[h].s].rev =
                  IF call[h].copy.rev # call[h].loaded.rev THEN call[h].copy.rev
                  ELSE sched[call[h].s].rev
          BY <2>1, <4>1, <4>2, <5>1, RowTyped, FlushColumnsSound
        <5> QED BY <3>2, <4>2, <5>2 DEF ChangeCommit, RevisionsInOrder, Exists
      <4>3. CASE ~Exists(call[h].s)
        BY <1>1, <2>1, <3>2, <4>3 DEF ChangeCommit
      <4> QED BY <4>2, <4>3
    <3> QED BY <1>7, <3>1, <3>2
  <2>4. \A s \in Schedules :
          /\ Exists(s)' => sched'[s].rev <= served
          /\ Exists(s)' /\ stored'[s] # NoInput => sched'[s].rev <= stored'[s]
    <3> SUFFICES ASSUME NEW s \in Schedules, sched'[s] # NoSchedule
                 PROVE  /\ sched'[s].rev <= served
                        /\ stored[s] # NoInput => sched'[s].rev <= stored[s]
      BY <2>1 DEF Exists
    <3>1. CASE s = call[h].s
      BY <2>3, <3>1, Revisions DEF RevisionsInOrder, Exists
    <3>2. CASE s # call[h].s
      BY <2>2, <3>2 DEF RevisionsInOrder, Exists
    <3> QED BY <3>1, <3>2
  <2> QED BY <1>3, <1>4, <2>1, <2>4 DEF RevisionsInOrder
<1>8. CASE DeleteErase(h)
  <2>1. /\ call[h] \in Call /\ call[h].kind = "delete"
        /\ call' = [call EXCEPT ![h].step = "commit"]
        /\ stored' = [stored EXCEPT ![call[h].s] = NoInput] /\ sched' = sched
    BY <1>2, <1>8 DEF DeleteErase, At, Onto, KindsOfRequest, tableVars
  <2>2. call'[h].kind = "delete"
    BY <1>1, <2>1 DEF Call
  <2>3. \A s \in Schedules : stored'[s] = stored[s] \/ stored'[s] = NoInput
    BY <1>1, <2>1
  <2>4. \A s \in Schedules : stored'[s] <= served
    BY <2>3, Revisions DEF RevisionsInOrder, NoInput
  <2>5. \A s \in Schedules :
          /\ Exists(s)' => sched'[s].rev <= served
          /\ Exists(s)' /\ stored'[s] # NoInput => sched'[s].rev <= stored'[s]
    BY <2>1, <2>3 DEF RevisionsInOrder, Exists
  <2>6. \A d \in Dispatchers :
          /\ tick[d].pc = "loading" =>
                /\ tick[d].rev <= served
                /\ stored'[tick[d].at] # NoInput => tick[d].rev <= stored'[tick[d].at]
          /\ tick[d].pc = "creating" => tick[d].rev <= tick[d].input
    BY <1>1, <2>3 DEF RevisionsInOrder
  <2> QED BY <1>3, <2>2, <2>4, <2>5, <2>6 DEF RevisionsInOrder
<1>9. CASE DeleteCommit(h)
  <2>1. /\ call'[h] = NoCall /\ stored' = stored
        /\ \A s \in Schedules : sched'[s] = sched[s] \/ sched'[s] = NoSchedule
    BY <1>1, <1>9 DEF DeleteCommit, Hangup
  <2> QED BY <1>3, <1>4, <2>1 DEF RevisionsInOrder, Exists
<1>10. CASE TriggerLoad(h) \/ TriggerStart(h) \/ CallLost(h)
  <2>1. UNCHANGED <<sched, stored>>
    BY <1>10 DEF TriggerLoad, TriggerStart, CallLost, tableVars
  <2>2. \/ call'[h] = NoCall
        \/ call[h].kind = "trigger" /\ call'[h].kind = call[h].kind
    BY <1>1, <1>2, <1>10
       DEF TriggerLoad, TriggerStart, CallLost, Hangup, Onto, At, KindsOfRequest, Call
  <2> QED BY <1>5, <2>1, <2>2
<1> QED BY <1>6, <1>7, <1>8, <1>9, <1>10 DEF CallStep

LEMMA NewestDispatcher ==
    ASSUME Typed, RevisionsInOrder, NEW d \in Dispatchers,
           DispatcherStep(d) \/ TickAborts(d), UNCHANGED <<call, served>>
    PROVE  RevisionsInOrder'
<1>1. /\ tick \in [Dispatchers -> TickState]
      /\ held \in [Dispatchers -> SUBSET Schedules]
      /\ stored' = stored
  BY DispatcherOnRow DEF Typed, TypeOK, DispatcherTypeOK, ScheduleStoreTypeOK
<1>2. \A s \in Schedules :
          /\ sched'[s] = NoSchedule <=> sched[s] = NoSchedule
          /\ sched[s] # NoSchedule => sched'[s].rev = sched[s].rev
  <2>1. CASE ClaimCommit(d)
    <3>1. PICK invalid \in SUBSET held[d] :
            sched' = [s \in Schedules |->
                  IF s \in invalid THEN Disabled(s)
                  ELSE IF s \in held[d] \ invalid THEN Reanchored(s, tick[d].now)
                  ELSE sched[s]]
      BY <2>1 DEF ClaimCommit
    <3>2. \A s \in held[d] : /\ Disabled(s).rev = sched[s].rev
                             /\ Reanchored(s, tick[d].now).rev = sched[s].rev
      BY ClaimedRows DEF Disabled, Reanchored, ScheduleRow
    <3> QED BY <3>1, <3>2, DispatcherOnRow
  <2>2. CASE ~ClaimCommit(d)
    BY <2>2, TickStep
  <2> QED BY <2>1, <2>2
<1>3. \A e \in Dispatchers \ {d} : tick'[e] = tick[e]
  BY ClaimStep, TickStep
<1>4. /\ tick'[d].pc = "loading" =>
            \E s \in Schedules : /\ Exists(s) /\ tick'[d].at = s
                                 /\ tick'[d].rev = sched[s].rev
      /\ tick'[d].pc = "creating" =>
            /\ tick[d].pc = "loading" /\ stored[tick[d].at] # NoInput
            /\ tick'[d].rev = tick[d].rev /\ tick'[d].input = stored[tick[d].at]
  <2>1. CASE \E s \in Schedules : FireBegin(d, s)
    <3>1. PICK s \in Schedules : FireBegin(d, s)
      BY <2>1
    <3>2. /\ tick' = [tick EXCEPT ![d] = [tick[d] EXCEPT !.pc = "loading", !.at = s,
                         !.todo = tick[d].todo \ {s}, !.rev = sched[s].rev]]
          /\ Exists(s)
      BY <1>1, <3>1 DEF FireBegin
    <3>3. tick'[d].pc = "loading" /\ tick'[d].at = s /\ tick'[d].rev = sched[s].rev
      BY <1>1, <3>2 DEF TickState
    <3> QED BY <3>2, <3>3
  <2>2. CASE FireLoad(d)
    <3>1. /\ tick' = [tick EXCEPT ![d] = [tick[d] EXCEPT !.pc = "creating",
                                                         !.input = stored[tick[d].at]]]
          /\ tick[d].pc = "loading" /\ stored[tick[d].at] # NoInput
      BY <1>1, <2>2 DEF FireLoad
    <3>2. /\ tick'[d].pc = "creating" /\ tick'[d].rev = tick[d].rev
          /\ tick'[d].input = stored[tick[d].at]
      BY <1>1, <3>1 DEF TickState
    <3> QED BY <3>1, <3>2
  <2>3. CASE ~FireLoad(d) /\ ~\E s \in Schedules : FireBegin(d, s)
    <3>1. \A todo, planned : Claims(todo, planned).pc \in {"asleep", "firing"}
      BY DEF Claims, Asleep
    <3>2. tick'[d].pc \in {"asleep", "firing", "claiming", "recording"}
      <4>1. CASE ClaimSelect(d)
        BY <1>1, <4>1 DEF ClaimSelect, TickState
      <4>2. CASE ClaimCommit(d)
        BY <1>1, <3>1, <4>2 DEF ClaimCommit
      <4>3. CASE \E s \in Schedules : FireGone(d, s)
        BY <1>1, <3>1, <4>3 DEF FireGone
      <4>4. CASE FireCreate(d) \/ FireFails(d)
        BY <1>1, <4>4 DEF FireCreate, FireFails, TickState
      <4>5. CASE RecordFire(d) \/ RecordRaises(d) \/ TickAborts(d)
        BY <1>1, <3>1, <4>5 DEF RecordFire, RecordRaises, TickAborts, Asleep
      <4> QED BY <2>3, <4>1, <4>2, <4>3, <4>4, <4>5 DEF DispatcherStep
    <3> QED BY <3>2
  <2> QED BY <2>1, <2>2, <2>3
<1>5. \A e \in Dispatchers :
          /\ tick'[e].pc = "loading" =>
                /\ tick'[e].rev <= served
                /\ stored[tick'[e].at] # NoInput => tick'[e].rev <= stored[tick'[e].at]
          /\ tick'[e].pc = "creating" => tick'[e].rev <= tick'[e].input
  <2>1. /\ tick'[d].pc = "loading" =>
                /\ tick'[d].rev <= served
                /\ stored[tick'[d].at] # NoInput => tick'[d].rev <= stored[tick'[d].at]
        /\ tick'[d].pc = "creating" => tick'[d].rev <= tick'[d].input
    BY <1>4 DEF RevisionsInOrder
  <2> QED BY <1>3, <2>1 DEF RevisionsInOrder
<1>6. \A s \in Schedules :
          /\ stored[s] <= served
          /\ Exists(s)' => sched'[s].rev <= served
          /\ Exists(s)' /\ stored[s] # NoInput => sched'[s].rev <= stored[s]
  BY <1>2 DEF RevisionsInOrder, Exists
<1> QED BY <1>1, <1>5, <1>6 DEF RevisionsInOrder

LEMMA NewestStep ==
    ASSUME Typed, NewestInv, [Next]_vars
    PROVE  NewestInv'
<1> SUFFICES ASSUME Cardinality(Callers) = 1 PROVE RevisionsInOrder'
  BY DEF NewestInv
<1>1. RevisionsInOrder
  BY DEF NewestInv
<1>2. CASE ServiceNext /\ OfCallers
  <2>1. PICK h \in Callers : CallArrives(h) \/ CallStep(h) \/ CallLost(h)
    BY <1>2 DEF ServiceNext
  <2>2. UNCHANGED tick
    BY <1>2 DEF OfCallers, dispatcherVars
  <2>3. CallStep(h) \/ CallLost(h) => UNCHANGED served
    BY CallStepTyped DEF CallLost
  <2> QED BY <1>1, <2>1, <2>2, <2>3, NewestArrival, NewestCallStep
<1>3. CASE DispatcherNext /\ OfDispatchers
  BY <1>1, <1>3, NewestDispatcher DEF DispatcherNext, OfDispatchers, serviceVars
<1>4. CASE (World /\ OfWorld) \/ UNCHANGED vars
  BY <1>1, <1>4 DEF World, TimePasses, RunEnds, OfWorld, serviceVars, dispatcherVars,
                    tableVars, vars, RevisionsInOrder, Exists
<1> QED BY <1>2, <1>3, <1>4 DEF Next

\* One request at a time, a run is started with the newest input of its row,
\* for any number of replicas, schedules and requests.
THEOREM FiresFromNewestInput == Spec => []FiredFromNewestInput
<1>1. NewestInv => FiredFromNewestInput
  <2> SUFFICES ASSUME NewestInv, Cardinality(Callers) = 1, NEW d \in Dispatchers,
                      tick[d].pc = "creating"
               PROVE  tick[d].rev <= tick[d].input
    BY DEF FiredFromNewestInput
  <2> QED BY DEF NewestInv, RevisionsInOrder
<1>2. Typed /\ NewestInv /\ [Next]_vars => NewestInv'
  BY NewestStep
<1> QED BY <1>1, <1>2, NewestInit, TypedHolds, PTL DEF Spec
-----------------------------------------------------------------------------
(* The contract of a firing.                                               *)

Anchors == [s \in Schedules |-> Anchor(s)]
Debts   == [d \in Dispatchers |-> Owed(d)]

LEMMA AnchorTyped ==
    ASSUME Typed, NEW s \in Schedules
    PROVE  Anchor(s) \in Nat
BY RowTyped DEF Anchor, NoAnchor, ScheduleRow

LEMMA AnchorsTyped ==
    ASSUME Typed, Typed'
    PROVE  /\ Anchors \in [Schedules -> Nat] /\ Anchors' \in [Schedules -> Nat]
           /\ \A s \in Schedules : Anchors[s] = Anchor(s) /\ Anchors'[s] = Anchor(s)'
<1>1. \A s \in Schedules : Anchor(s) \in Nat
  BY AnchorTyped
<1>2. \A s \in Schedules : Anchor(s)' \in Nat
  <2> SUFFICES ASSUME NEW s \in Schedules PROVE Anchor(s)' \in Nat
    OBVIOUS
  <2>1. sched'[s] \in ScheduleRow \union {NoSchedule}
    BY DEF Typed, TypeOK, ScheduleStoreTypeOK
  <2> QED BY <2>1 DEF Anchor, NoAnchor, ScheduleRow, Exists
<1> QED BY <1>1, <1>2 DEF Anchors

\* A step of one dispatcher changes what that dispatcher owes.
LEMMA DebtsOfOne ==
    ASSUME NEW d \in Dispatchers, NEW new,
           \A e \in Dispatchers \ {d} : tick'[e] = tick[e],
           Owed(d)' = new
    PROVE  Debts' = [Debts EXCEPT ![d] = new]
<1>1. \A e \in Dispatchers \ {d} : Owed(e)' = Owed(e)
  BY DEF Owed, Owes
<1> QED BY <1>1 DEF Debts

\* The transaction that moves the anchors on is the claim, whatever it skips,
\* misses, heals or disables beside the schedules it fires.
LEMMA CommitIsClaim ==
    ASSUME Typed, Typed', NEW d \in Dispatchers, ClaimCommit(d)
    PROVE  Firing!Next
<1> DEFINE S == {s \in Schedules : Owes(d, s)'}
<1>1. /\ \A e \in Dispatchers \ {d} : tick'[e] = tick[e]
      /\ fired' = fired /\ clock' = clock
      /\ \A s \in Schedules : ~Owes(d, s)
      /\ \A s \in S : /\ s \in held[d] /\ sched[s].next # NoAnchor
                      /\ tick'[d].planned[s] = sched[s].next
                      /\ sched'[s].next > sched[s].next
  BY ClaimStep DEF ClaimCommit, ToFire
<1>2. Owed(d) = {} /\ Debts[d] = {}
  BY <1>1 DEF Owed, Debts
<1>3. PICK invalid \in SUBSET held[d] :
          sched' = [s \in Schedules |->
              IF s \in invalid THEN Disabled(s)
              ELSE IF s \in held[d] \ invalid THEN Reanchored(s, tick[d].now)
              ELSE sched[s]]
  BY DEF ClaimCommit
<1>4. ASSUME NEW s \in held[d]
      PROVE  /\ s \in Schedules /\ Exists(s) /\ Exists(s)'
             /\ Anchor(s) = sched[s].next /\ Anchor(s)' = sched'[s].next
             /\ Anchor(s) <= clock
             /\ sched'[s].next > sched[s].next \/ sched'[s].next = NoAnchor
  <2>1. /\ s \in Schedules /\ Exists(s) /\ sched[s].next \in Nat
        /\ Disabled(s) # NoSchedule /\ Disabled(s).next = NoAnchor
        /\ Reanchored(s, tick[d].now) # NoSchedule
        /\ Reanchored(s, tick[d].now).next > sched[s].next
    BY ClaimedRows, NoScheduleAssumption DEF ScheduleRow
  <2>2. sched[s].next <= tick[d].now /\ tick[d].now <= clock
    BY DEF Typed, LocksOK, TickOK
  <2>3. tick[d].now \in Nat /\ clock \in Nat
    BY BoundsAssumption
       DEF Typed, TypeOK, DispatcherTypeOK, ScheduleStoreTypeOK, TickState
  <2>4. /\ sched'[s] # NoSchedule
        /\ sched'[s].next > sched[s].next \/ sched'[s].next = NoAnchor
    BY <1>3, <2>1
  <2> QED BY <2>1, <2>2, <2>3, <2>4 DEF Anchor, Exists
<1>5. ASSUME NEW s \in Schedules \ held[d] PROVE Anchor(s)' = Anchor(s)
  BY <1>3, <1>5 DEF Anchor, Exists
<1>6. Owed(d)' = {<<s, Anchors[s]>> : s \in S}
  <2>1. \A s \in S : tick'[d].planned[s] = Anchors[s]
    BY <1>1, <1>4, AnchorsTyped
  <2>2. Owed(d)' = {<<s, tick'[d].planned[s]>> : s \in S}
    BY DEF Owed
  <2> HIDE DEF S
  <2> QED BY <2>1, <2>2
<1>7. Debts' = [Debts EXCEPT ![d] = {<<s, Anchors[s]>> : s \in S}]
  BY <1>1, <1>6, DebtsOfOne
<1>8. \A s \in S : Anchors[s] # 0 /\ Anchors[s] <= clock /\ Anchors'[s] > Anchors[s]
  BY <1>1, <1>4, AnchorsTyped DEF NoAnchor
<1>9. \A s \in Schedules \ S :
          \/ Anchors'[s] = Anchors[s]
          \/ Anchors[s] <= clock /\ Anchors'[s] > Anchors[s]
          \/ Anchors[s] <= clock /\ Anchors'[s] = 0
  <2> TAKE s \in Schedules \ S
  <2>1. s \in Schedules /\ Anchors[s] = Anchor(s) /\ Anchors'[s] = Anchor(s)'
    BY AnchorsTyped
  <2>2. CASE s \in held[d]
    BY <1>4, <2>1, <2>2 DEF NoAnchor
  <2>3. CASE s \notin held[d]
    BY <1>5, <2>1, <2>3
  <2> QED BY <2>2, <2>3
<1>10. S \in SUBSET Schedules
  OBVIOUS
<1> HIDE DEF S
<1>11. Firing!Claim(d, S)
  BY <1>1, <1>2, <1>7, <1>8, <1>9, AnchorsTyped
     DEF Firing!Claim, Firing!MovesOn, Firing!Goes, Anchors, Debts
<1> QED BY <1>10, <1>11 DEF Firing!Next

\* A firing is owed only from its time on.
DebtInv ==
    \A d \in Dispatchers, s \in Schedules :
        Owes(d, s) => tick[d].planned[s] \in 1..clock

LEMMA DebtInit == Init => DebtInv
BY DEF Init, DispatcherInit, Asleep, Owes, DebtInv

LEMMA DebtStep ==
    ASSUME Typed, DebtInv, [Next]_vars
    PROVE  DebtInv'
<1> SUFFICES ASSUME NEW d \in Dispatchers, NEW s \in Schedules, Owes(d, s)'
             PROVE  tick'[d].planned[s] \in 1..clock'
  BY DEF DebtInv
<1>1. clock \in Nat /\ clock' \in Nat /\ clock <= clock'
  <2>1. clock \in Nat
    BY BoundsAssumption DEF Typed, TypeOK, ScheduleStoreTypeOK
  <2>2. clock' = clock \/ clock' = clock + 1
    BY ArrivalTyped, CallStepTyped
       DEF Next, vars, ServiceNext, CallLost, DispatcherNext, DispatcherStep, TickAborts,
           ClaimSelect, ClaimCommit, FireBegin, FireGone, FireLoad, FireCreate, FireFails,
           RecordFire, RecordRaises, World, TimePasses, RunEnds
  <2> QED BY <2>1, <2>2
<1>2. CASE Owes(d, s) /\ tick'[d].planned[s] = tick[d].planned[s]
  BY <1>1, <1>2 DEF DebtInv
<1>3. CASE UNCHANGED tick
  BY <1>2, <1>3 DEF Owes
<1>4. ASSUME NEW e \in Dispatchers, DispatcherStep(e) \/ TickAborts(e), ~ClaimCommit(e)
      PROVE  tick'[d].planned[s] \in 1..clock'
  <2>1. Owes(d, s) /\ tick'[d].planned[s] = tick[d].planned[s]
    BY <1>4, TickStep DEF Owes
  <2> QED BY <1>2, <2>1
<1>5. ASSUME NEW e \in Dispatchers, ClaimCommit(e)
      PROVE  tick'[d].planned[s] \in 1..clock'
  <2>1. CASE d = e
    <3>1. /\ s \in held[d] /\ tick'[d].planned[s] = sched[s].next
          /\ sched[s].next # NoAnchor
      BY <1>5, <2>1, ClaimStep DEF ToFire
    <3>2. sched[s].next \in Nat /\ sched[s].next <= tick[d].now
      BY <3>1, ClaimedRows DEF ScheduleRow, Typed, LocksOK
    <3>3. tick[d].now \in Nat /\ tick[d].now <= clock
      BY DEF Typed, TypeOK, DispatcherTypeOK, TickState, TickOK
    <3> QED BY <1>1, <3>1, <3>2, <3>3 DEF NoAnchor
  <2>2. CASE d # e
    <3>1. tick'[d] = tick[d]
      BY <1>5, <2>2, ClaimStep
    <3> QED BY <1>2, <3>1 DEF Owes
  <2> QED BY <2>1, <2>2
<1> QED
  BY <1>3, <1>4, <1>5
     DEF Next, vars, OfCallers, OfWorld, dispatcherVars, DispatcherNext

LEMMA DebtsAreTimes ==
    ASSUME Typed, DebtInv, NEW d \in Dispatchers
    PROVE  Owed(d) \subseteq Schedules \X Times
<1>1. \A s \in Schedules : Owes(d, s) => tick[d].planned[s] \in Times
  BY BoundsAssumption DEF DebtInv, Typed, TypeOK, ScheduleStoreTypeOK, Times
<1> QED BY <1>1 DEF Owed

\* What a dispatcher does to its claims afterwards, or without any: it fires
\* one, drops some, or only goes on to its next step.
LEMMA TickIsFireOrDrop ==
    ASSUME Typed, DebtInv, NEW d \in Dispatchers, DispatcherStep(d) \/ TickAborts(d),
           ~ClaimCommit(d)
    PROVE  Firing!Next
<1>1. /\ \A e \in Dispatchers \ {d} : tick'[e] = tick[e]
      /\ sched' = sched
      /\ \A s \in Schedules : Owes(d, s)' =>
            Owes(d, s) /\ tick'[d].planned[s] = tick[d].planned[s]
      /\ fired' = fired \/ (FireCreate(d) /\ tick[d].at \in Schedules)
  BY TickStep
<1>2. clock' = clock
  BY DEF DispatcherStep, TickAborts, ClaimSelect, FireBegin, FireGone,
         FireLoad, FireCreate, FireFails, RecordFire, RecordRaises
<1>3. Anchors' = Anchors
  BY <1>1 DEF Anchors, Anchor, Exists
<1>4. Debts' = [Debts EXCEPT ![d] = Owed(d)'] /\ Debts[d] = Owed(d)
  BY <1>1, DebtsOfOne DEF Debts
<1>5. CASE fired' = fired
  <2> DEFINE C == Owed(d) \ Owed(d)'
  <2>1. Owed(d)' \subseteq Owed(d)
    BY <1>1 DEF Owed
  <2>2. C \in SUBSET (Schedules \X Times) /\ C \subseteq Owed(d)
    BY DebtsAreTimes
  <2>3. Owed(d)' = Owed(d) \ C
    BY <2>1
  <2> HIDE DEF C
  <2>4. Firing!Drop(d, C)
    BY <1>2, <1>3, <1>4, <1>5, <2>2, <2>3 DEF Firing!Drop, Anchors, Debts
  <2> QED BY <2>2, <2>4 DEF Firing!Next
<1>6. CASE FireCreate(d) /\ tick[d].at \in Schedules
  <2> DEFINE s == tick[d].at
             t == tick[d].planned[s]
  <2>1. /\ tick \in [Dispatchers -> TickState]
        /\ tick[d].pc = "creating" /\ s \notin tick[d].todo
    BY <1>6 DEF FireCreate, Typed, TypeOK, DispatcherTypeOK, TickOK
  <2>2. tick' = [tick EXCEPT ![d].pc = "recording"]
    BY <1>6 DEF FireCreate
  <2>3. /\ tick'[d].pc = "recording" /\ tick'[d].todo = tick[d].todo
        /\ tick'[d].planned = tick[d].planned
    BY <2>1, <2>2 DEF TickState
  <2>4. \A q \in Schedules :
            /\ Owes(d, q) <=> (q \in tick[d].todo \/ q = s)
            /\ Owes(d, q)' <=> q \in tick[d].todo
    BY <2>1, <2>3 DEF Owes
  <2>5. Owed(d)' = Owed(d) \ {<<s, t>>}
    <3>1. Owed(d)' = {<<q, tick[d].planned[q]>> : q \in {x \in Schedules : x \in tick[d].todo}}
      BY <2>3, <2>4 DEF Owed
    <3>2. Owed(d) = {<<q, tick[d].planned[q]>> :
                        q \in {x \in Schedules : x \in tick[d].todo \/ x = s}}
      BY <2>4 DEF Owed
    <3> QED BY <2>1, <3>1, <3>2
  <2>6. <<s, t>> \in Owed(d) /\ t \in Times
    <3>1. Owes(d, s) /\ s \in Schedules
      BY <1>6, <2>4
    <3>2. <<s, t>> \in Owed(d)
      BY <3>1 DEF Owed
    <3> QED BY <3>2, DebtsAreTimes
  <2>7. fired' = [fired EXCEPT ![s][t] = @ + 1]
    BY <1>6 DEF FireCreate
  <2> HIDE DEF s, t
  <2>8. Firing!Fire(d, s, t)
    BY <1>2, <1>3, <1>4, <2>5, <2>6, <2>7 DEF Firing!Fire, Anchors, Debts
  <2>9. s \in Schedules
    BY <1>6 DEF s
  <2> QED BY <2>6, <2>8, <2>9 DEF Firing!Next
<1> QED BY <1>1, <1>5, <1>6

\* A request only moves the anchor of its own schedule.
LEMMA RequestIsPlan ==
    ASSUME Typed, Typed', ServiceNext, UNCHANGED dispatcherVars
    PROVE  [Firing!Next]_(Firing!vars)
<1>1. PICK h \in Callers : CallArrives(h) \/ CallStep(h) \/ CallLost(h)
  BY DEF ServiceNext
<1>2. Debts' = Debts /\ fired' = fired /\ clock' = clock
  BY ArrivalTyped, CallStepTyped, <1>1
     DEF dispatcherVars, Debts, Owed, Owes, CallLost
<1>3. CASE sched' = sched
  <2>1. Anchors' = Anchors
    BY <1>3 DEF Anchors, Anchor, Exists
  <2> QED BY <1>2, <2>1 DEF Firing!vars, Anchors, Debts
<1>4. CASE sched' # sched
  <2>1. \A q \in Schedules : q # call[h].s => sched'[q] = sched[q]
    BY <1>1, <1>4, ArrivalTyped, CallStepOnRow DEF tableVars
  <2>2. call[h].s \in Schedules
    BY <1>4, <2>1 DEF Typed, TypeOK, ScheduleStoreTypeOK
  <2>3. \A q \in Schedules : q # call[h].s => Anchor(q)' = Anchor(q)
    BY <2>1 DEF Anchor, Exists
  <2>4. Firing!Plan(call[h].s)
    BY <1>2, <2>2, <2>3, AnchorsTyped DEF Firing!Plan, Anchors, Debts
  <2> QED BY <2>2, <2>4 DEF Firing!Next
<1> QED BY <1>3, <1>4

LEMMA StepIsFiring ==
    ASSUME Typed, Typed', DebtInv, [Next]_vars
    PROVE  [Firing!Next]_(Firing!vars)
<1>1. CASE ServiceNext /\ OfCallers
  BY <1>1, RequestIsPlan DEF OfCallers
<1>2. CASE DispatcherNext /\ OfDispatchers
  BY <1>2, CommitIsClaim, TickIsFireOrDrop DEF DispatcherNext
<1>3. CASE World /\ OfWorld
  <2>1. /\ Debts' = Debts /\ Anchors' = Anchors /\ fired' = fired
        /\ clock' = clock \/ clock' = clock + 1
    BY <1>3 DEF World, OfWorld, TimePasses, RunEnds, tableVars, dispatcherVars,
                Debts, Owed, Owes, Anchors, Anchor, Exists
  <2> QED
    BY <2>1 DEF Firing!Next, Firing!TimePasses, Firing!vars, Debts, Anchors
<1>4. CASE UNCHANGED vars
  BY <1>4 DEF vars, tableVars, dispatcherVars, Firing!vars, Owed, Owes, Anchor, Exists
<1> QED BY <1>1, <1>2, <1>3, <1>4 DEF Next

\* Any number of replicas and callers keep the contract of a firing: it is
\* claimed when it is due, in the step that moves its anchor on, and starts
\* one run or none, whatever is locked, loaded, lost or changed in between.
THEOREM DispatchersImplementFiringContract == Spec => ImplementsFiringContract
<1>1. Init => Firing!Init
  BY DEF Init, ScheduleStoreInit, DispatcherInit, Asleep, Anchor, Exists, NoAnchor,
         Owed, Owes, Firing!Init
<1>2. Typed /\ Typed' /\ DebtInv /\ [Next]_vars => [Firing!Next]_(Firing!vars)
  BY StepIsFiring
<1>3. Typed /\ DebtInv /\ [Next]_vars => DebtInv'
  BY DebtStep
<1> QED
  BY <1>1, <1>2, <1>3, DebtInit, TypedHolds, PTL
     DEF Spec, ImplementsFiringContract, Firing!Spec

\* No occurrence is fired before its time: what follows from the contract
\* for every claim a firing can come from.
NothingFiredEarly ==
    \A s \in Schedules, t \in Times : fired[s][t] > 0 => t <= clock

LEMMA EarlyStep ==
    ASSUME Typed, Typed', DebtInv, NothingFiredEarly, [Next]_vars
    PROVE  NothingFiredEarly'
<1> SUFFICES ASSUME NEW s \in Schedules, NEW t \in Times, fired'[s][t] > 0
             PROVE  t <= clock'
  BY DEF NothingFiredEarly
<1>1. clock \in Nat /\ t \in Nat
  BY BoundsAssumption DEF Typed, TypeOK, ScheduleStoreTypeOK, Times
<1>2. CASE UNCHANGED <<fired, clock>>
  BY <1>2 DEF NothingFiredEarly
<1>3. CASE UNCHANGED fired /\ clock' = clock + 1
  BY <1>1, <1>3 DEF NothingFiredEarly
<1>4. ASSUME NEW d \in Dispatchers, NEW q \in Schedules, NEW u \in Times,
             Firing!Fire(d, q, u)
      PROVE  t <= clock'
  <2>1. u \in 1..clock /\ clock' = clock
    BY <1>4 DEF Firing!Fire, Owed, DebtInv
  <2>2. fired \in [Schedules -> [Times -> Nat]]
    BY DEF Typed, TypeOK, DispatcherTypeOK
  <2>3. CASE s = q /\ t = u
    BY <1>1, <2>1, <2>3
  <2>4. CASE ~(s = q /\ t = u)
    BY <1>4, <2>1, <2>2, <2>4 DEF Firing!Fire, NothingFiredEarly
  <2> QED BY <2>3, <2>4
<1>5. [Firing!Next]_(Firing!vars)
  BY StepIsFiring
<1>6. \/ UNCHANGED <<fired, clock>>
      \/ UNCHANGED fired /\ clock' = clock + 1
      \/ \E d \in Dispatchers, q \in Schedules, u \in Times : Firing!Fire(d, q, u)
  BY <1>5 DEF Firing!Next, Firing!Plan, Firing!Claim, Firing!Drop, Firing!TimePasses,
              Firing!vars
<1> QED BY <1>2, <1>3, <1>4, <1>6

\* No run of a schedule is started before the occurrence it is for, whoever
\* moved the anchor and however long the claim took.
THEOREM FiringsAreNotEarly == Spec => []NothingFiredEarly
<1>1. Init => NothingFiredEarly
  BY DEF Init, DispatcherInit, NothingFiredEarly
<1>2. Typed /\ Typed' /\ DebtInv /\ NothingFiredEarly /\ [Next]_vars
         => NothingFiredEarly'
  BY EarlyStep
<1>3. Typed /\ DebtInv /\ [Next]_vars => DebtInv'
  BY DebtStep
<1> QED BY <1>1, <1>2, <1>3, DebtInit, TypedHolds, PTL DEF Spec
=============================================================================
