---------------------------- MODULE MCSchedules ----------------------------
(***************************************************************************)
(* Small instances of Schedules.                                           *)
(***************************************************************************)
EXTENDS Schedules, TLC

\* Ids, replicas and callers are told apart by nothing.
TwoReplicas == Permutations(Dispatchers) \union Permutations(Callers)
=============================================================================
