-------------------------- MODULE ScheduleService --------------------------
(***************************************************************************)
(* The requests of ScheduleService.  Each is cut at its awaits: what it    *)
(* loaded from the row, the object store in between, and the commit, which *)
(* waits while a dispatcher holds the row.  A request that is rejected     *)
(* before its first write changes nothing and is left out.                 *)
(***************************************************************************)
EXTENDS ScheduleStore

CONSTANTS Callers,      \* coroutines that serve requests at one time
          Kinds,        \* the kinds of request that arrive
          MaxRequests   \* bound: requests that write, or start a run

ASSUME RequestsAssumption == MaxRequests \in Nat
ASSUME CallersFinite == IsFiniteSet(Callers)

VARIABLES call,     \* per caller: the request it serves
          served,   \* requests accepted; numbers the revisions, too
          life      \* history: what became of an id

serviceVars == <<call, served, life>>

KindsOfRequest == {"create", "update", "enable", "disable", "delete", "trigger"}

\* step: what the request does next.
NoCall == [kind |-> "none", step |-> "none", s |-> NoSchedule,
           loaded |-> NoSchedule, copy |-> NoSchedule]

Call == [kind   : KindsOfRequest,
         step   : {"store", "commit", "erase", "load", "start"},
         s      : Schedules,
         loaded : ScheduleRow \union {NoSchedule},
         copy   : ScheduleRow \union {NoSchedule}]

ServiceTypeOK == /\ call \in [Callers -> Call \union {NoCall}]
                 /\ served \in 0..MaxRequests
                 /\ life \in [Schedules -> {"unused", "used", "deleted"}]
ServiceInit   == /\ call = [h \in Callers |-> NoCall]
                 /\ served = 0
                 /\ life = [s \in Schedules |-> "unused"]

-----------------------------------------------------------------------------

Accept(h, kind, step, s, loaded, copy) ==
    /\ kind \in Kinds
    /\ call[h] = NoCall
    /\ served < MaxRequests
    /\ served' = served + 1
    /\ call' = [call EXCEPT ![h] = [kind |-> kind, step |-> step, s |-> s,
                                    loaded |-> loaded, copy |-> copy]]

At(h, kind, step) == call[h].kind = kind /\ call[h].step = step

Onto(h, step) == call' = [call EXCEPT ![h].step = step]
Hangup(h)     == call' = [call EXCEPT ![h] = NoCall]

\* The columns of a request with no anchor yet.
Requested(enabled, cron, policy) ==
    [enabled |-> enabled, cron |-> cron, policy |-> policy,
     next |-> NoAnchor, rev |-> served + 1]

CreateBegin(h, s, enabled, cron, policy) ==
    /\ life[s] = "unused"
    /\ Accept(h, "create", "store", s, NoSchedule, Requested(enabled, cron, policy))
    /\ life' = [life EXCEPT ![s] = "used"]
    /\ UNCHANGED <<tableVars, stored, runVars, clock, faults>>

\* Mutant of CreateStore: the row comes first, its input never.
CreateStoreRowOnly(h) ==
    LET s == call[h].s
        row == call[h].copy
    IN  /\ At(h, "create", "store")
        /\ call' = [call EXCEPT ![h].step = "commit",
                       ![h].copy.next = IF row.enabled
                                        THEN NextFire(row.cron, clock)
                                        ELSE NoAnchor]
        /\ UNCHANGED <<tableVars, stored, runVars, clock, faults, served, life>>

\* The input is stored under the id before there is a row with it.
CreateStore(h) ==
    LET s == call[h].s
        row == call[h].copy
    IN  /\ At(h, "create", "store")
        /\ stored' = [stored EXCEPT ![s] = row.rev]
        /\ call' = [call EXCEPT ![h].step = "commit",
                       ![h].copy.next = IF row.enabled
                                        THEN NextFire(row.cron, clock)
                                        ELSE NoAnchor]
        /\ UNCHANGED <<tableVars, runVars, clock, faults, served, life>>

CreateCommit(h) ==
    /\ At(h, "create", "commit")
    /\ sched' = [sched EXCEPT ![call[h].s] = call[h].copy]
    /\ Hangup(h)
    /\ UNCHANGED <<stored, held, runVars, clock, faults, served, life>>

-----------------------------------------------------------------------------

\* The stored input is loaded first; without one the update is refused.
UpdateBegin(h, s, enabled, cron, policy) ==
    /\ Exists(s)
    /\ stored[s] # NoInput
    /\ Accept(h, "update", "store", s, sched[s], Requested(enabled, cron, policy))
    /\ UNCHANGED <<tableVars, stored, runVars, clock, faults, life>>

\* An anchor is computed anew only when the old one cannot be kept.
UpdatedAnchor(loaded, row) ==
    IF ~row.enabled THEN NoAnchor
    ELSE IF loaded.enabled /\ loaded.cron = row.cron /\ loaded.next # NoAnchor
    THEN loaded.next
    ELSE NextFire(row.cron, clock)

\* Mutant of UpdateStore: the new input is not stored.
UpdateStoreNothing(h) ==
    /\ At(h, "update", "store")
    /\ call' = [call EXCEPT ![h].step = "commit",
                   ![h].copy.next = UpdatedAnchor(call[h].loaded, call[h].copy)]
    /\ UNCHANGED <<tableVars, stored, runVars, clock, faults, served, life>>

UpdateStore(h) ==
    /\ At(h, "update", "store")
    /\ stored' = [stored EXCEPT ![call[h].s] = call[h].copy.rev]
    /\ call' = [call EXCEPT ![h].step = "commit",
                   ![h].copy.next = UpdatedAnchor(call[h].loaded, call[h].copy)]
    /\ UNCHANGED <<tableVars, runVars, clock, faults, served, life>>

\* set_enabled: the copy is made at once.  A row that is there already is
\* not written.
SetEnabledBegin(h, s, kind) ==
    LET on == kind = "enable" IN
    /\ Exists(s)
    /\ sched[s].enabled # on
    /\ Accept(h, kind, "commit", s, sched[s],
              [sched[s] EXCEPT !.enabled = on,
                               !.next = IF on THEN NextFire(sched[s].cron, clock)
                                        ELSE NoAnchor])
    /\ UNCHANGED <<tableVars, stored, runVars, clock, faults, life>>

\* The UPDATE of a row that was deleted meanwhile writes nothing.
ChangeCommit(h) ==
    LET s == call[h].s IN
    /\ call[h].kind \in {"update", "enable", "disable"}
    /\ call[h].step = "commit"
    /\ ~Held(s)
    /\ sched' = [sched EXCEPT ![s] =
                    IF Exists(s) THEN FlushColumns(@, call[h].loaded, call[h].copy)
                    ELSE NoSchedule]
    /\ Hangup(h)
    /\ UNCHANGED <<stored, held, runVars, clock, faults, served, life>>

-----------------------------------------------------------------------------

DeleteBegin(h, s) ==
    /\ Exists(s)
    /\ Accept(h, "delete", "erase", s, NoSchedule, NoSchedule)
    /\ UNCHANGED <<tableVars, stored, runVars, clock, faults, life>>

\* The input goes first.
DeleteErase(h) ==
    /\ At(h, "delete", "erase")
    /\ stored' = [stored EXCEPT ![call[h].s] = NoInput]
    /\ Onto(h, "commit")
    /\ UNCHANGED <<tableVars, runVars, clock, faults, served, life>>

DeleteCommit(h) ==
    LET s == call[h].s IN
    /\ At(h, "delete", "commit")
    /\ ~Held(s)
    /\ sched' = [sched EXCEPT ![s] = NoSchedule]
    /\ life' = [life EXCEPT ![s] = "deleted"]
    /\ Hangup(h)
    /\ UNCHANGED <<stored, held, runVars, clock, faults, served>>

\* trigger_now: as a dispatcher fires, but without policy and without claim.
TriggerBegin(h, s) ==
    /\ Exists(s)
    /\ Accept(h, "trigger", "load", s, NoSchedule, NoSchedule)
    /\ UNCHANGED <<tableVars, stored, runVars, clock, faults, life>>

TriggerLoad(h) ==
    /\ At(h, "trigger", "load")
    /\ IF stored[call[h].s] # NoInput THEN Onto(h, "start") ELSE Hangup(h)
    /\ UNCHANGED <<tableVars, stored, runVars, clock, faults, served, life>>

\* What record_fire writes after it decides nothing, even when it fails.
TriggerStart(h) ==
    /\ At(h, "trigger", "start")
    /\ manual' = [manual EXCEPT ![call[h].s] = @ + 1]
    /\ Hangup(h)
    /\ UNCHANGED <<tableVars, stored, auto, clock, faults, served, life>>

\* A crash, a refused call or a failed commit.
CallLost(h) ==
    /\ call[h] # NoCall
    /\ Fault
    /\ Hangup(h)
    /\ UNCHANGED <<tableVars, stored, runVars, clock, served, life>>

CallArrives(h) ==
    \E s \in Schedules :
        \/ \E enabled \in BOOLEAN, cron \in Crons, policy \in Policies :
              \/ CreateBegin(h, s, enabled, cron, policy)
              \/ UpdateBegin(h, s, enabled, cron, policy)
        \/ \E kind \in {"enable", "disable"} : SetEnabledBegin(h, s, kind)
        \/ DeleteBegin(h, s)
        \/ TriggerBegin(h, s)

CallStep(h) == \/ CreateStore(h) \/ CreateCommit(h)
               \/ UpdateStore(h) \/ ChangeCommit(h)
               \/ DeleteErase(h) \/ DeleteCommit(h)
               \/ TriggerLoad(h) \/ TriggerStart(h)

ServiceNext == \E h \in Callers : CallArrives(h) \/ CallStep(h) \/ CallLost(h)
=============================================================================
