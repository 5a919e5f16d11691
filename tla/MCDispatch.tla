----------------------------- MODULE MCDispatch -----------------------------
(***************************************************************************)
(* An instance of Dispatch for TLC: two declared outputs.                  *)
(***************************************************************************)
EXTENDS Dispatch

TwoFiles == <<"prose", "decisions">>
=============================================================================
