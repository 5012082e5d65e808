----------------------------- MODULE MCDocuments -----------------------------
(* A document on a small instance. *)
EXTENDS Documents, TLC

CONSTANTS p1, p2, v1

Symmetric == Permutations(Procs)
=============================================================================
