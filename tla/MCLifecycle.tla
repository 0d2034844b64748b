---------------------------- MODULE MCLifecycle ----------------------------
(* Small instances of Lifecycle.                                           *)
EXTENDS Lifecycle, TLC

Symmetry == Permutations(Threads) \cup Permutations(Heaps)
============================================================================
