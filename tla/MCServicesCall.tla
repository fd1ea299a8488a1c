--------------------------- MODULE MCServicesCall ---------------------------
(* Instances of ServicesCall for TLC, with the inductive invariant. *)
EXTENDS CallPromise_proofs
=============================================================================
