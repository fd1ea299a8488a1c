---------------------------- MODULE MCModelCache ----------------------------
(* Instances of ModelCache for TLC, with the inductive invariants. *)
EXTENDS ModelCache_proofs
=============================================================================
