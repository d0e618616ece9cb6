----------------------------- MODULE PodContract -----------------------------
(***************************************************************************)
(* What the operator may assume of a run's pod: it posts only after it has *)
(* got its input, a signal is noticed once and for all, it ends once, and  *)
(* it ends well only if it ran and nobody asked it to stop.                *)
(***************************************************************************)
CONSTANT Runs

VARIABLES pod,      \* "none", "pending", "running", "signalled" or "ended"
          outcome   \* "none", "succeeded" or "failed"

ContractInit == /\ pod = [r \in Runs |-> "none"]
                /\ outcome = [r \in Runs |-> "none"]

Move(r, from, to) == /\ pod[r] \in from
                     /\ pod' = [pod EXCEPT ![r] = to]
                     /\ UNCHANGED outcome

Starts(r)   == Move(r, {"none"}, "pending")
Proceeds(r) == Move(r, {"pending"}, "running")
Signals(r)  == Move(r, {"running"}, "signalled")

Ends(r) == /\ pod[r] \notin {"none", "ended"}
           /\ pod' = [pod EXCEPT ![r] = "ended"]
           /\ \E how \in {"succeeded", "failed"} :
                 /\ how = "succeeded" => pod[r] = "running"
                 /\ outcome' = [outcome EXCEPT ![r] = how]

ContractNext == \E r \in Runs : Starts(r) \/ Proceeds(r) \/ Signals(r) \/ Ends(r)

ContractSpec == ContractInit /\ [][ContractNext]_<<pod, outcome>>
=============================================================================
