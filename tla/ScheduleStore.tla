--------------------------- MODULE ScheduleStore ---------------------------
(***************************************************************************)
(* What the schedule requests and the dispatchers share: the schedule      *)
(* rows, the input stored under each schedule's id outside the database,   *)
(* the runs the schedules started, and the time.  A row and its input are  *)
(* written one after the other, by sessions that lock nothing; only a      *)
(* dispatcher's claim locks rows.                                          *)
(***************************************************************************)
EXTENDS Integers, FiniteSets

CONSTANTS Schedules,   \* schedule ids; an id is used once
          NoSchedule,  \* the value of an id that has no row
          Dispatchers, \* one per operator replica
          Crons,       \* cron expressions; one is the period it fires with
          Policies,    \* overlap policies in use: of "skip" and "allow"
          MaxTime,     \* bound: the clock stops here
          MaxFaults    \* bound: refused calls, lost requests and crashes

ASSUME CronsAssumption == Crons \subseteq Nat \ {0}
ASSUME BoundsAssumption == MaxTime \in Nat /\ MaxFaults \in Nat
ASSUME DispatchersFinite == IsFiniteSet(Dispatchers)

VARIABLES sched,    \* the table: a row, or NoSchedule
          stored,   \* the revision of the stored input, or NoInput
          held,     \* the rows each dispatcher holds FOR UPDATE
          auto,     \* active runs the dispatchers started, per schedule
          manual,   \* active runs that were triggered by hand
          clock,    \* the time
          faults    \* faults spent, at most MaxFaults

tableVars == <<sched, held>>
runVars   == <<auto, manual>>

-----------------------------------------------------------------------------

NoAnchor == 0   \* next_fire_at is NULL; it sorts before every time
NoInput  == 0   \* no object under the id; revisions are numbered from 1

\* The columns the control flow reads.  cron stands for expression and
\* timezone, rev for the request that wrote the parameters of the run.
ScheduleRow == [enabled : BOOLEAN,
                cron    : Crons,
                policy  : Policies,
                next    : Nat,
                rev     : Nat]

ASSUME NoScheduleAssumption == NoSchedule \notin Schedules \union ScheduleRow

Exists(s) == sched[s] # NoSchedule
Held(s)   == \E d \in Dispatchers : s \in held[d]

\* Mutant of NextFire: the last occurrence before t (get_prev for get_next).
NextFirePrev(cron, t) == ((t \div cron) - 1) * cron

\* The first occurrence after t.
NextFire(cron, t) == ((t \div cron) + 1) * cron

\* What a commit leaves: the columns in which the session's copy differs
\* from what it loaded, over the row as it is now.
FlushColumns(current, loaded, copy) ==
    [c \in DOMAIN copy |-> IF copy[c] # loaded[c] THEN copy[c] ELSE current[c]]

Fault == /\ faults < MaxFaults
         /\ faults' = faults + 1

TimePasses == /\ clock < MaxTime
              /\ clock' = clock + 1
              /\ UNCHANGED <<tableVars, stored, runVars, faults>>

\* A run of a schedule becomes terminal.
RunEnds(s) == /\ \/ /\ auto[s] > 0
                    /\ auto' = [auto EXCEPT ![s] = @ - 1]
                    /\ UNCHANGED manual
                 \/ /\ manual[s] > 0
                    /\ manual' = [manual EXCEPT ![s] = @ - 1]
                    /\ UNCHANGED auto
              /\ UNCHANGED <<tableVars, stored, clock, faults>>

ScheduleStoreTypeOK ==
    /\ sched \in [Schedules -> ScheduleRow \union {NoSchedule}]
    /\ stored \in [Schedules -> Nat]
    /\ held \in [Dispatchers -> SUBSET Schedules]
    /\ auto \in [Schedules -> Nat] /\ manual \in [Schedules -> Nat]
    /\ clock \in 0..MaxTime
    /\ faults \in 0..MaxFaults

ScheduleStoreInit ==
    /\ sched = [s \in Schedules |-> NoSchedule]
    /\ stored = [s \in Schedules |-> NoInput]
    /\ held = [d \in Dispatchers |-> {}]
    /\ auto = [s \in Schedules |-> 0] /\ manual = [s \in Schedules |-> 0]
    /\ clock = 0
    /\ faults = 0
=============================================================================
