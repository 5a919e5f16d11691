----------------------------- MODULE MCPipeline -----------------------------
(***************************************************************************)
(* Instances of Pipeline for TLC: a book of three chapters, as one volume  *)
(* of two bundles or as a volume of one chapter and one of two.            *)
(***************************************************************************)
EXTENDS Pipeline

OneVolume   == {3}
TwoVolumes  == {1, 3}
Killed      == {"orchestration"}
KilledAtAll == {"orchestration", "review"}
Never       == {}
=============================================================================
