---------------------------- MODULE MCAuditWave -----------------------------
(***************************************************************************)
(* An instance of AuditWave for TLC: a core circle of two parallel reviews *)
(* and one writer of shared truth, a genre circle of one review, which the *)
(* cascade may skip.                                                       *)
(***************************************************************************)
EXTENDS AuditWave

CONSTANTS factual, craft, resonance, romance

Reviews == <<{factual, craft}, {romance}>>
Writers == <<<<resonance>>, <<>>>>
Finds   == [a \in {factual, craft, resonance, romance} |->
             CASE a = factual   -> {"blocking"}
               [] a = craft     -> {"clean"}
               [] a = resonance -> {"clean", "blocking", "pending"}
               [] a = romance   -> {"clean", "follower"}]

Passed(age) == [age |-> age, passed |-> TRUE]
\* A streak, the same one out of date.
Streaks == {<<Passed(2), Passed(1)>>, <<Passed(4), Passed(3)>>}
=============================================================================
