--------------------------- MODULE MCRunLifecycle ---------------------------
(***************************************************************************)
(* Small instances of RunLifecycle.                                        *)
(***************************************************************************)
EXTENDS RunLifecycle, TLC

\* Runs are told apart by created only, workers and handlers by nothing.
Replicas     == Permutations(Runs) \union Permutations(Workers)
SameHandlers == Permutations(Handlers)
=============================================================================
