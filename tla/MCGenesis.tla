----------------------------- MODULE MCGenesis ------------------------------
(***************************************************************************)
(* An instance of Genesis for TLC: a step with two files, an optional step *)
(* that owns one of them, and the independent review, whose report is not  *)
(* followed.                                                               *)
(***************************************************************************)
EXTENDS Genesis

CONSTANTS frame, volumes

MCFiles    == {frame, volumes}
MCWritesOf == [s \in 1..3 |-> CASE s = 1 -> {frame, volumes} [] s = 2 -> {volumes} [] s = 3 -> {}]
=============================================================================
