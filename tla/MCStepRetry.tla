---------------------------- MODULE MCStepRetry -----------------------------
(***************************************************************************)
(* An instance of StepRetry for TLC.                                       *)
(***************************************************************************)
EXTENDS StepRetry
=============================================================================
