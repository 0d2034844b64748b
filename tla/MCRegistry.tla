----------------------------- MODULE MCRegistry -----------------------------
(* Small instances of Registry.                                            *)
EXTENDS Registry, TLC

Symmetry == Permutations(Threads) \cup Permutations(Leaves)
=============================================================================
