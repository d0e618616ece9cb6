----------------------------- MODULE Schedules -----------------------------
(***************************************************************************)
(* Scheduled runs: requests, dispatchers and time over one table of        *)
(* schedules, their stored inputs and the runs they start.                 *)
(***************************************************************************)
EXTENDS ScheduleService, ScheduleDispatcher

VARIABLE anchored   \* history: how often an occurrence became next_fire_at

vars == <<tableVars, stored, runVars, clock, faults,
          serviceVars, dispatcherVars, anchored>>

TypeOK == /\ ScheduleStoreTypeOK /\ ServiceTypeOK /\ DispatcherTypeOK
          /\ anchored \in [Schedules -> [Times -> Nat]]

Init == /\ ScheduleStoreInit /\ ServiceInit /\ DispatcherInit
        /\ anchored = [s \in Schedules |-> [t \in Times |-> 0]]

-----------------------------------------------------------------------------

Anchor(s) == IF Exists(s) THEN sched[s].next ELSE NoAnchor

Record == anchored' = [s \in Schedules |-> [t \in Times |->
             IF Anchor(s)' = t /\ Anchor(s) # t THEN anchored[s][t] + 1
             ELSE anchored[s][t]]]

World == \/ TimePasses
         \/ \E s \in Schedules : RunEnds(s)

OfCallers     == UNCHANGED dispatcherVars /\ Record
OfDispatchers == UNCHANGED serviceVars /\ Record
OfWorld       == UNCHANGED <<serviceVars, dispatcherVars>> /\ Record

Next == \/ ServiceNext    /\ OfCallers
        \/ DispatcherNext /\ OfDispatchers
        \/ World          /\ OfWorld

Spec == Init /\ [][Next]_vars

\* A dispatcher catches what a tick raises and polls again.
FairSpec == /\ Spec
            /\ \A d \in Dispatchers : WF_vars(DispatcherStep(d) /\ OfDispatchers)

-----------------------------------------------------------------------------

\* "Firing is at-most-once": two replicas, ticks that crash and requests that
\* come in between never fire one anchor twice.  (An occurrence can be
\* planned a second time: an enable or a change of the expression whose
\* commit is delayed sets the anchor it computed before the occurrence was
\* fired.)
AtMostOncePerAnchor ==
    \A s \in Schedules, t \in Times : fired[s][t] <= anchored[s][t]

\* What a dispatcher has claimed and may still fire.
Owes(d, s) == \/ s \in tick[d].todo
              \/ tick[d].pc \in {"loading", "creating"} /\ tick[d].at = s

Owed(d) == {<<s, tick[d].planned[s]>> : s \in {q \in Schedules : Owes(d, q)}}

Firing == INSTANCE FiringContract
             WITH Schedule <- Schedules, Replica <- Dispatchers, Time <- Times,
                  anchor <- [s \in Schedules |-> Anchor(s)],
                  claims <- [d \in Dispatchers |-> Owed(d)],
                  now <- clock

\* Two transactions, an object store and other replicas in between do not
\* show: every firing was claimed when it was due, in the step that moved the
\* anchor on, and a claim starts one run or is dropped.  The contract is weaker
\* than the documentation on purpose: a schedule that is disabled after the
\* claim is fired all the same, which DisabledNeverFires shows.
ImplementsFiringContract == Firing!Spec

\* The overlap policy "skip" bounds the scheduled runs in flight: each
\* replica can add one, because the check and the start are two
\* transactions; with one replica there is never a second.
SkipBoundsOverlap ==
    Policies = {"skip"} =>
        \A s \in Schedules : auto[s] <= Cardinality(Dispatchers)

\* A schedule has its input, unless a delete is under way or was given up:
\* without it no firing and no update of the schedule can succeed again.
BeingDeleted(s) == \E h \in Callers : /\ call[h].kind = "delete"
                                      /\ call[h].s = s

InputIsThere ==
    \A s \in Schedules :
        Exists(s) /\ stored[s] = NoInput => BeingDeleted(s) \/ faults > 0

\* A run is never started from a row with the input of an older revision of
\* it: updates store the input first, firings read the row first.  Two
\* updates at a time can do it.
FiredFromNewestInput ==
    Cardinality(Callers) = 1 =>
        \A d \in Dispatchers :
            tick[d].pc = "creating" => tick[d].input >= tick[d].rev

\* A claimed firing without an outcome is the result of a crash, or of a
\* deletion, although it need not be the schedule that was deleted.
LostOnlyByCrashOrDelete ==
    lost # {} => faults > 0 \/ \E s \in Schedules : life[s] = "deleted"

\* Whatever happens to its firings, an enabled schedule gets an anchor that
\* is not over yet.
AnchorMovesOn ==
    \A s \in Schedules : Due(s) ~> ~Due(s)

-----------------------------------------------------------------------------
(* What the documentation says and the code does not keep.                 *)

\* "A crash between claim and run creation loses one firing", and a firing
\* that cannot be completed does not stop the tick: a claimed firing is lost
\* by a crash, or with its own schedule.
FailureStaysLocal ==
    \A s \in lost : faults > 0 \/ life[s] = "deleted"

\* "Disabled schedule: Never fires": no run is started for a schedule whose
\* row says it is disabled.  A dispatcher looks at that when it claims, and
\* not again when it loads the row to fire it.
DisabledNeverFires ==
    [][\A s \in Schedules :
          fired'[s] # fired[s] /\ Exists(s) => sched[s].enabled]_vars
=============================================================================
