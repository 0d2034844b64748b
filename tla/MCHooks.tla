------------------------------ MODULE MCHooks ------------------------------
(* The constants of the code, a 28-bit size_t, and a static heap of a few  *)
(* lines that starts on an odd multiple of 16 bytes, 80 bytes below a page *)
(* boundary.                                                               *)
EXTENDS Hooks

KB == 1024
MB == KB * KB

AllSlabSizes == 0..LZ_MAX_SLAB_OBJ_SIZE

\* Each side of each limit, up to the last sums that fit size_t.
Limits ==
  {0, 1, 16, 17, 64, 65, 32 * KB, 32 * KB + 1, MB - 1, MB, MB + 1, 2 * MB - 128,
   2 * MB - 127, SIZE_MAX \div 2, 2^SIZE_WIDTH - 4 * MB - 128, 2^SIZE_WIDTH - 2 * MB - 128}

\* The last sizes of all.
Beyond == {2^SIZE_WIDTH - 2 * MB - 127, SIZE_MAX - 128, SIZE_MAX - 63, SIZE_MAX}

Swept  == AllSlabSizes \union Limits \union Beyond

\* With 32 * m and 32 * m + 1 every size that lz_memalign promotes to for an
\* alignment of 32 or 64 occurs, up to the border of the slab engine; nothing
\* else of the size decides which block is returned.
Promoted == {32 * m + d : m \in 0..(LZ_MAX_SLAB_OBJ_SIZE \div 32), d \in {0, 1}} \union Limits

HookAlignments == {0, 1, 3, 8, 16, 32, 64, 128, 4 * KB, 8 * KB, 2 * MB, 4 * MB}

Symmetry == Permutations(Threads)
============================================================================
