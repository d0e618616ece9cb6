------------------------- MODULE ScheduleDispatcher -------------------------
(***************************************************************************)
(* ScheduleDispatcher.fire_due_once: claim a batch of due rows in one      *)
(* transaction that holds their locks and moves their anchors on, then     *)
(* fire the claimed schedules one after the other, each in a session of    *)
(* its own, outside the lock.                                              *)
(***************************************************************************)
EXTENDS ScheduleStore

CONSTANTS Grace,      \* settings.schedules_missed_grace_seconds
          BatchSize   \* settings.schedules_batch_size

ASSUME BatchAssumption == Grace \in Nat /\ BatchSize \in Nat \ {0}

VARIABLES tick,   \* per dispatcher: its step, and the tick's local variables
          fired,  \* history: runs created, per schedule and occurrence
          lost    \* history: schedules one of whose claims got no outcome

dispatcherVars == <<tick, fired, lost>>

Times == 1..MaxTime

Asleep == [pc |-> "asleep", now |-> 0, todo |-> {},
           planned |-> [s \in Schedules |-> NoAnchor],
           at |-> NoSchedule, rev |-> 0, input |-> NoInput]

TickState == [pc      : {"asleep", "claiming", "firing", "loading",
                         "creating", "recording"},
              now     : Nat,
              todo    : SUBSET Schedules,    \* claimed, not tried yet
              planned : [Schedules -> Nat],  \* the occurrences claimed
              at      : Schedules \union {NoSchedule},
              rev     : Nat,                 \* of the row that is fired
              input   : Nat]                 \* of the input it is fired with

DispatcherTypeOK == /\ tick \in [Dispatchers -> TickState]
                    /\ fired \in [Schedules -> [Times -> Nat]]
                    /\ lost \subseteq Schedules
DispatcherInit   == /\ tick = [d \in Dispatchers |-> Asleep]
                    /\ fired = [s \in Schedules |-> [t \in Times |-> 0]]
                    /\ lost = {}

-----------------------------------------------------------------------------
(* _claim_due                                                              *)

\* Mutant of Due: the anchor is not compared with the time.
DueAlways(s) == Exists(s) /\ sched[s].enabled

\* Rows that lost their anchor are due: the claim heals them.
Due(s) == Exists(s) /\ sched[s].enabled /\ sched[s].next <= clock

\* Mutant of IsBatch: the locks of the other dispatchers are not looked at.
IsBatchHeld(S) ==
    LET due == {s \in Schedules : Due(s)} IN
    /\ S # {} /\ S \subseteq due
    /\ S = due \/ Cardinality(S) = BatchSize
    /\ Cardinality(S) <= BatchSize
    /\ \A s \in S, q \in due \ S : sched[s].next <= sched[q].next

IsBatch(S) ==
    LET due == {s \in Schedules : Due(s) /\ ~Held(s)} IN
    /\ S # {} /\ S \subseteq due
    /\ S = due \/ Cardinality(S) = BatchSize
    /\ Cardinality(S) <= BatchSize
    /\ \A s \in S, q \in due \ S : sched[s].next <= sched[q].next

\* A tick that finds nothing due changes nothing.
ClaimSelect(d) ==
    /\ tick[d].pc = "asleep"
    /\ \E S \in SUBSET Schedules :
          /\ IsBatch(S)
          /\ held' = [held EXCEPT ![d] = S]
    /\ tick' = [tick EXCEPT ![d].pc = "claiming", ![d].now = clock]
    /\ UNCHANGED <<sched, stored, runVars, clock, faults, fired, lost>>

Active(s) == auto[s] + manual[s] > 0

\* Mutant of ToFire: the overlap policy is not looked at.
ToFireDespiteOverlap(s, now) ==
    /\ sched[s].next # NoAnchor
    /\ now - sched[s].next <= Grace

\* Neither healed, nor missed, nor held back by a run in flight.
ToFire(s, now) ==
    /\ sched[s].next # NoAnchor
    /\ now - sched[s].next <= Grace
    /\ sched[s].policy = "skip" => ~Active(s)

\* Mutant of Reanchored: a missed occurrence keeps its anchor.
ReanchoredUnlessMissed(s, now) ==
    IF now - sched[s].next > Grace THEN sched[s]
    ELSE [sched[s] EXCEPT !.next = NextFire(sched[s].cron, now)]

\* From now, not from the occurrence: what was missed is not made up for.
Reanchored(s, now) ==
    [sched[s] EXCEPT !.next = NextFire(sched[s].cron, now)]

\* A cron expression or timezone that was accepted and is not any more.
Disabled(s) == [sched[s] EXCEPT !.enabled = FALSE, !.next = NoAnchor]

\* What a dispatcher still has to do: claimed schedules and their occurrences.
Claims(todo, planned) ==
    IF todo = {} THEN Asleep
    ELSE [Asleep EXCEPT
            !.pc = "firing", !.todo = todo,
            !.planned = [s \in Schedules |->
                            IF s \in todo THEN planned[s] ELSE NoAnchor]]

\* The runs in flight are read just before the commit.
ClaimCommit(d) ==
    LET now == tick[d].now IN
    /\ tick[d].pc = "claiming"
    /\ \E invalid \in SUBSET held[d] :
          LET claimed == held[d] \ invalid
              todo == {s \in claimed : ToFire(s, now)}
          IN  /\ IF invalid = {} THEN UNCHANGED faults ELSE Fault
              /\ sched' = [s \in Schedules |->
                    IF s \in invalid THEN Disabled(s)
                    ELSE IF s \in claimed THEN Reanchored(s, now)
                    ELSE sched[s]]
              /\ tick' = [tick EXCEPT ![d] =
                    Claims(todo, [s \in todo |-> sched[s].next])]
    /\ held' = [held EXCEPT ![d] = {}]
    /\ UNCHANGED <<stored, runVars, clock, fired, lost>>

-----------------------------------------------------------------------------
(* _fire, for one claimed schedule after the other                         *)

IsNext(d, s) == /\ tick[d].pc = "firing"
                /\ s \in tick[d].todo
                /\ \A q \in tick[d].todo : tick[d].planned[s] <= tick[d].planned[q]

\* The row is read again: parameters come from the row as it is now.
FireBegin(d, s) ==
    /\ IsNext(d, s)
    /\ Exists(s)
    /\ tick' = [tick EXCEPT ![d].pc = "loading", ![d].at = s,
                            ![d].todo = @ \ {s}, ![d].rev = sched[s].rev]
    /\ UNCHANGED <<tableVars, stored, runVars, clock, faults, fired, lost>>

FireGone(d, s) ==
    /\ IsNext(d, s)
    /\ ~Exists(s)
    /\ tick' = [tick EXCEPT ![d] = Claims(@.todo \ {s}, @.planned)]
    /\ lost' = lost \union {s}
    /\ UNCHANGED <<tableVars, stored, runVars, clock, faults, fired>>

FireLoad(d) ==
    /\ tick[d].pc = "loading"
    /\ stored[tick[d].at] # NoInput
    /\ tick' = [tick EXCEPT ![d].pc = "creating",
                            ![d].input = stored[tick[d].at]]
    /\ UNCHANGED <<tableVars, stored, runVars, clock, faults, fired, lost>>

\* The commit of RunService.create_run.
FireCreate(d) ==
    LET s == tick[d].at IN
    /\ tick[d].pc = "creating"
    /\ auto' = [auto EXCEPT ![s] = @ + 1]
    /\ fired' = [fired EXCEPT ![s][tick[d].planned[s]] = @ + 1]
    /\ tick' = [tick EXCEPT ![d].pc = "recording"]
    /\ UNCHANGED <<tableVars, stored, manual, clock, faults, lost>>

\* Mutant of FireFails: the exception is not caught.
FireFailsUncaught(d) ==
    /\ tick[d].pc \in {"loading", "creating"}
    /\ tick' = [tick EXCEPT ![d] = Asleep]
    /\ lost' = lost \union tick[d].todo
    /\ UNCHANGED <<tableVars, stored, runVars, clock, faults, fired>>

\* The input is not there, the profile was deleted, a call was refused.
FireFails(d) ==
    /\ tick[d].pc \in {"loading", "creating"}
    /\ tick' = [tick EXCEPT ![d].pc = "recording"]
    /\ UNCHANGED <<tableVars, stored, runVars, clock, faults, fired, lost>>

\* record_fire: an UPDATE of columns nobody decides by, and a refresh.
RecordFire(d) ==
    /\ tick[d].pc = "recording"
    /\ Exists(tick[d].at) /\ ~Held(tick[d].at)
    /\ tick' = [tick EXCEPT ![d] = Claims(@.todo, @.planned)]
    /\ UNCHANGED <<tableVars, stored, runVars, clock, faults, fired, lost>>

\* It raises when the schedule was deleted meanwhile, and ends the tick.
RecordRaises(d) ==
    /\ tick[d].pc = "recording"
    /\ ~Exists(tick[d].at)
    /\ tick' = [tick EXCEPT ![d] = Asleep]
    /\ lost' = lost \union tick[d].todo
    /\ UNCHANGED <<tableVars, stored, runVars, clock, faults, fired>>

\* A crash, or an exception of the database, at any step.
TickAborts(d) ==
    /\ tick[d].pc # "asleep"
    /\ Fault
    /\ held' = [held EXCEPT ![d] = {}]
    /\ tick' = [tick EXCEPT ![d] = Asleep]
    /\ lost' = lost \union tick[d].todo
                    \union (IF tick[d].pc \in {"loading", "creating"}
                            THEN {tick[d].at} ELSE {})
    /\ UNCHANGED <<sched, stored, runVars, clock, fired>>

DispatcherStep(d) ==
    \/ ClaimSelect(d) \/ ClaimCommit(d)
    \/ \E s \in Schedules : FireBegin(d, s) \/ FireGone(d, s)
    \/ FireLoad(d) \/ FireCreate(d) \/ FireFails(d)
    \/ RecordFire(d) \/ RecordRaises(d)

DispatcherNext == \E d \in Dispatchers : DispatcherStep(d) \/ TickAborts(d)
=============================================================================
