------------------------------- MODULE MCVmm -------------------------------
(* Instances of Vmm for model checking: Chunks is an interval of addresses *)
(* and threads are interchangeable.                                        *)
EXTENDS Vmm, TLC

CONSTANT ChunkCount

MCChunks == 0..(ChunkCount - 1)

Symmetry == Permutations(Threads)
============================================================================
