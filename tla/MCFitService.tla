---------------------------- MODULE MCFitService ----------------------------
(* Instances of FitService for TLC: two models, one of them with two fits. *)
EXTENDS FitPatience_proofs

CONSTANTS m1, m2, f1, f2, g1

ModelOfFit == [n \in {f1, f2, g1} |-> IF n = g1 THEN m2 ELSE m1]
=============================================================================
