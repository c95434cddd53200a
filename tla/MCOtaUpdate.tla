----------------------------- MODULE MCOtaUpdate -----------------------------
(* OtaUpdate on a few requests; the constants are in the .cfg files. *)
EXTENDS OtaUpdate, TLC

\* Requests are interchangeable; only the runs without liveness use this.
Symmetry == Permutations(Requests)
=============================================================================
