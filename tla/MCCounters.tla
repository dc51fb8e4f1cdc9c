------------------------------ MODULE MCCounters ------------------------------
(* Symmetry of the instance of Counters for TLC. *)
EXTENDS Counters, TLC

Symmetry == Permutations(Conns) \cup Permutations(Closers)
=============================================================================
