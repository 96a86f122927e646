----------------------------- MODULE MCRegistry -----------------------------
(* Small instances of Registry for TLC. *)
EXTENDS Registry, TLC

CONSTANTS d1, d2, d3

Symmetry == Permutations({d1, d2})
=============================================================================
