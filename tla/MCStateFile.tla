---------------------------- MODULE MCStateFile -----------------------------
(***************************************************************************)
(* An instance of StateFile for TLC.  The command slots are alike.         *)
(***************************************************************************)
EXTENDS StateFile, TLC

CONSTANTS next, review, status

Commands        == {next, review, status}
Interchangeable == Permutations(Commands)
=============================================================================
