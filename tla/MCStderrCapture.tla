--------------------------- MODULE MCStderrCapture ---------------------------
(* Instances of StderrCapture for TLC, with the inductive invariants. *)
EXTENDS StderrCapture_proofs
=============================================================================
