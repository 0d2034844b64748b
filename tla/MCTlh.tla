------------------------------- MODULE MCTlh -------------------------------
(* Small instances of Tlh: one or two size classes of equal slabs, which   *)
(* are therefore interchangeable, as threads and chunks are.               *)
EXTENDS Tlh, TLC

TwoEach == [k \in Classes |-> 2]

Symmetry == Permutations(Chunks) \cup Permutations(Threads) \cup Permutations(Classes)
============================================================================
