--------------------------- MODULE MCRunArtifacts ---------------------------
(***************************************************************************)
(* Small instances of RunArtifacts: a run and its retry.                   *)
(***************************************************************************)
EXTENDS RunArtifacts, TLC
=============================================================================
