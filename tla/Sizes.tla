------------------------------- MODULE Sizes -------------------------------
(***************************************************************************)
(* The size-class arithmetic of internal/sizes.h and the slab geometry     *)
(* that lz_slab_create (engines/slab.c) derives from it.  Everything here  *)
(* is a pure function of a request size; the definitions keep the shifts   *)
(* and masks of the code as divisions, remainders and multiplications by   *)
(* powers of two, and sums wrap as size_t does.                            *)
(***************************************************************************)
EXTENDS Integers

CONSTANTS
  LZ_MAX_SLAB_OBJ_SIZE,   \* largest request the slab engine serves
  LZ_HUGE_PAGE_SIZE,      \* bytes of a chunk
  LZ_CACHE_LINE_SIZE,     \* alignment of the first block of a slab
  SIZE_WIDTH              \* bits of size_t

LZ_MIN_ALLOC_SIZE   == 16
LZ_SMALL_LINEAR_MAX == 128
LZ_MAX_SIZE_CLASSES == 88

ASSUME SizesAssumption ==
  /\ LZ_MAX_SLAB_OBJ_SIZE \in Nat /\ LZ_MAX_SLAB_OBJ_SIZE > LZ_SMALL_LINEAR_MAX
  /\ LZ_HUGE_PAGE_SIZE \in Nat /\ LZ_HUGE_PAGE_SIZE >= 2 * LZ_MAX_SLAB_OBJ_SIZE
  /\ LZ_CACHE_LINE_SIZE \in Nat \ {0}
  /\ SIZE_WIDTH \in Nat /\ LZ_HUGE_PAGE_SIZE < 2^SIZE_WIDTH

----------------------------------------------------------------------------
\* The index of the most significant bit of a 64-bit word.
lz_fls(x) == IF x = 0 THEN 0 ELSE CHOOSE m \in 0..63 : x \div 2^m = 1

\* A sum of two size_t.
Plus(a, b) == (a + b) % 2^SIZE_WIDTH

LZ_ALIGN_UP(size, align) == (Plus(size, align - 1) \div align) * align

\* Mutation: the request is classified without the "size - 1" correction.
SizeToClassNoDecrement(size) ==
  IF size <= LZ_MIN_ALLOC_SIZE THEN 0
  ELSE IF size < LZ_SMALL_LINEAR_MAX THEN size \div 16
  ELSE LET msb == lz_fls(size)
       IN  8 + (msb - 7) * 4 + ((size \div 2^(msb - 2)) % 4)

lz_size_to_class(size) ==
  LET s      == size - 1
      msb    == lz_fls(s)
      base   == (msb - 7) * 4
      offset == (s \div 2^(msb - 2)) % 4
  IN  IF size <= LZ_MIN_ALLOC_SIZE THEN 0
      ELSE IF s < LZ_SMALL_LINEAR_MAX THEN s \div 16
      ELSE 8 + base + offset

lz_class_to_size(class_idx) ==
  LET base_idx == class_idx - 8
  IN  IF class_idx < 8 THEN (class_idx + 1) * 16
      ELSE (5 + (base_idx % 4)) * 2^((base_idx \div 4) + 5)

----------------------------------------------------------------------------
(* Slab geometry, as offsets from the chunk's address: the header and the  *)
(* slab descriptor take a cache line each, blocks follow.                  *)

data_start == LZ_ALIGN_UP(LZ_CACHE_LINE_SIZE + 64, LZ_CACHE_LINE_SIZE)
data_end   == LZ_HUGE_PAGE_SIZE

\* Mutation: the capacity is computed from the chunk's base, not data_start.
MaxObjectsFromBase(class_idx) == data_end \div lz_class_to_size(class_idx)

max_objects(class_idx) == (data_end - data_start) \div lz_class_to_size(class_idx)

\* The test of the bump path of lz_tlh_alloc when `taken` blocks have been cut.
BumpSucceeds(class_idx, taken) ==
  data_start + (taken + 1) * lz_class_to_size(class_idx) <= data_end
============================================================================
