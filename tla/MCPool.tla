------------------------------- MODULE MCPool -------------------------------
(* Small instances of Pool for TLC. *)
EXTENDS Pool, TLC

Symmetry == Permutations(Requests) \cup Permutations(Conns)
=============================================================================
