-------------------------- MODULE AdmissionControl --------------------------
(***************************************************************************)
(* What the queue promises about slots, with none of how it is done: a     *)
(* run waits, is started at most once, and at most Slots runs are          *)
(* started and not over at any time.  A tick starts and rejects several    *)
(* waiting runs in one step.                                               *)
(***************************************************************************)
EXTENDS Integers, FiniteSets

CONSTANTS Run, Slots

VARIABLE phase   \* "new", "waiting", "started" or "over"

InPhase(p) == {r \in Run : phase[r] = p}

Init == phase = [r \in Run |-> "new"]

Submit(r) == /\ phase[r] = "new"
             /\ phase' = [phase EXCEPT ![r] = "waiting"]

Tick(S, D) ==
    /\ S \subseteq InPhase("waiting") /\ D \subseteq InPhase("waiting")
    /\ S \intersect D = {}
    /\ S # {} => Cardinality(InPhase("started")) + Cardinality(S) <= Slots
    /\ phase' = [r \in Run |-> IF r \in S THEN "started"
                               ELSE IF r \in D THEN "over" ELSE phase[r]]

\* Runs finish, are cancelled or deleted, or are never submitted after all;
\* the reconciler finishes several at once.
Finish(D) == /\ D # {}
             /\ phase' = [r \in Run |-> IF r \in D THEN "over" ELSE phase[r]]

Next == \/ \E r \in Run : Submit(r)
        \/ \E S, D \in SUBSET Run : Tick(S, D)
        \/ \E D \in SUBSET Run : Finish(D)

Spec == Init /\ [][Next]_phase
=============================================================================
