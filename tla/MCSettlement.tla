---------------------------- MODULE MCSettlement ----------------------------
(***************************************************************************)
(* An instance of Settlement for TLC: two keys, a prop that changes hands  *)
(* between two owners, a counter; sidecars that touch one dimension, that  *)
(* repeat an operation, and that are illegal in their second dimension.    *)
(***************************************************************************)
EXTENDS Settlement

There == <<"a", "b">>
Back  == <<"b", "a">>
Ops(props, counters) == [d \in Dims |-> IF d = "props" THEN props ELSE counters]
SomeBatches ==
  {Ops(<<>>, <<1>>), Ops(<<There, Back, There>>, <<1, 1>>),
   Ops(<<There>>, <<0>>)}
=============================================================================
