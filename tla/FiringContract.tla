--------------------------- MODULE FiringContract ---------------------------
(***************************************************************************)
(* What scheduled runs promise, with none of how it is done: a firing is   *)
(* owed once a replica has claimed a due anchor, in the same step in which *)
(* the anchor moves on, and becomes one run or none.  There are no locks,  *)
(* no transactions and no stored inputs here, and a claim of many          *)
(* schedules is one step.                                                  *)
(***************************************************************************)
EXTENDS Integers

CONSTANTS Schedule, Replica, Time

VARIABLES anchor,   \* the occurrence each schedule waits for, 0 for none
          claims,   \* per replica: the firings it owes, <<schedule, time>>
          fired,    \* runs started, per schedule and occurrence
          now

vars == <<anchor, claims, fired, now>>

Init == /\ anchor = [s \in Schedule |-> 0]
        /\ claims = [d \in Replica |-> {}]
        /\ fired = [s \in Schedule |-> [t \in Time |-> 0]]
        /\ now = 0

\* Requests create, change, enable, disable and delete one schedule at a
\* time.  Nothing is owed by that, and nothing owed is called off: not even by
\* a disable, although the documentation says that a disabled schedule never
\* fires (see Schedules!DisabledNeverFires).
Plan(s) == /\ anchor' \in [Schedule -> Nat]
           /\ \A q \in Schedule \ {s} : anchor'[q] = anchor[q]
           /\ UNCHANGED <<claims, fired, now>>

\* An anchor that is taken, missed, held back or healed moves on; one whose
\* expression is no longer valid goes.
MovesOn(s) == anchor[s] <= now /\ anchor'[s] > anchor[s]
Goes(s)    == anchor[s] <= now /\ anchor'[s] = 0

Claim(d, S) ==
    /\ claims[d] = {}
    /\ \A s \in S : anchor[s] # 0 /\ MovesOn(s)
    /\ claims' = [claims EXCEPT ![d] = {<<s, anchor[s]>> : s \in S}]
    /\ anchor' \in [Schedule -> Nat]
    /\ \A s \in Schedule \ S : anchor'[s] = anchor[s] \/ MovesOn(s) \/ Goes(s)
    /\ UNCHANGED <<fired, now>>

Fire(d, s, t) ==
    /\ <<s, t>> \in claims[d]
    /\ claims' = [claims EXCEPT ![d] = @ \ {<<s, t>>}]
    /\ fired' = [fired EXCEPT ![s][t] = @ + 1]
    /\ UNCHANGED <<anchor, now>>

\* A crash, a deleted schedule or a refused call: the firings are missed.
Drop(d, C) == /\ C \subseteq claims[d]
              /\ claims' = [claims EXCEPT ![d] = @ \ C]
              /\ UNCHANGED <<anchor, fired, now>>

TimePasses == now' = now + 1 /\ UNCHANGED <<anchor, claims, fired>>

Next == \/ \E s \in Schedule : Plan(s)
        \/ \E d \in Replica, S \in SUBSET Schedule : Claim(d, S)
        \/ \E d \in Replica, s \in Schedule, t \in Time : Fire(d, s, t)
        \/ \E d \in Replica, C \in SUBSET (Schedule \X Time) : Drop(d, C)
        \/ TimePasses

Spec == Init /\ [][Next]_vars
=============================================================================
