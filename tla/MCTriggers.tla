----------------------------- MODULE MCTriggers -----------------------------
(***************************************************************************)
(* An instance of Triggers for TLC: four chapters in two volumes, the      *)
(* bundles 1, 2-3 and 4.                                                   *)
(***************************************************************************)
EXTENDS Triggers

Volumes == {1, 4}
=============================================================================
