------------------------------- MODULE Slabs -------------------------------
(***************************************************************************)
(* Slabs (engines/slab.c) and the lists a heap keeps them on (tlh/tlh.c):  *)
(* in each size class the current slab, a doubly linked list of partial    *)
(* slabs and one of full slabs.  The operations are functions of a view,   *)
(* that is, of the slabs, the bins of one heap and the chunks given back.  *)
(***************************************************************************)
EXTENDS Integers

CONSTANTS
  Threads,              \* threads, each with its heap
  Chunks,
  Classes,              \* size classes
  MaxObjects,           \* blocks a slab holds, per class (max_objects of Sizes)
  NULL,
  WILD                  \* a pointer read in the wrong encoding, or user data

Slots  == UNION {1..MaxObjects[k] : k \in Classes}
Blocks == Chunks \X Slots
BlocksOf(c) == {b \in Blocks : b[1] = c}

ASSUME SlabsAssumption ==
  /\ MaxObjects \in [Classes -> Nat \ {0, 1}]
  /\ NULL \notin Threads \cup Chunks \cup Classes \cup Blocks
  /\ WILD \notin Blocks \cup {NULL}

OptBlocks == Blocks \cup {NULL}
OptChunks == Chunks \cup {NULL}

\* lz_slab_t with the fields of its chunk header, and lz_bin_t.
SlabType ==
  [owning_tlh : Threads \cup {NULL}, checksum : Threads \cup {NULL}, next : OptChunks,
   prev : OptChunks, bump_ptr : Nat, free_list_head : OptBlocks,
   size_class : Classes \cup {NULL}, used_objects : Nat]

BinType == [current_slab : OptChunks, partial_list : OptChunks, full_list : OptChunks]

max_objects(s) == MaxObjects[s.size_class]

----------------------------------------------------------------------------
(* lz_ptr_obfuscate is its own inverse; a word is only useful to a reader  *)
(* that expects its encoding.                                              *)

Clear(p)      == [ptr |-> p, masked |-> FALSE]
Obfuscate(p)  == [ptr |-> p, masked |-> TRUE]
ReadClear(w)  == IF w.masked THEN WILD ELSE w.ptr
Deobfuscate(w) == IF w.masked THEN w.ptr ELSE WILD

----------------------------------------------------------------------------
(* The slab lists of one heap.                                             *)

SetNext(v, c, x) == IF c = NULL THEN v ELSE [v EXCEPT !.slab[c].next = x]
SetPrev(v, c, x) == IF c = NULL THEN v ELSE [v EXCEPT !.slab[c].prev = x]
SetList(v, k, list, x) == [v EXCEPT !.bin[k][list] = x]

\* Take c out of the middle of a list, or off the head called `list`.
Unlink(v, k, list, c) ==
  LET s == v.slab[c]
      w == IF s.prev # NULL THEN SetNext(v, s.prev, s.next)
           ELSE IF list = "neither" THEN v ELSE SetList(v, k, list, s.next)
  IN  SetPrev(w, s.next, s.prev)

PushFront(v, k, list, c) ==
  IF c = NULL THEN v
  ELSE LET old == v.bin[k][list]
           w   == SetPrev(SetNext(v, c, old), c, NULL)
       IN  SetList(SetPrev(w, old, c), k, list, c)

\* The first partial slab becomes the current one.
PromotePartial(v, k) ==
  LET c == v.bin[k].partial_list
      w == SetList(SetList(v, k, "current_slab", c), k, "partial_list", v.slab[c].next)
  IN  SetNext(SetPrev(SetPrev(w, w.bin[k].partial_list, NULL), c, NULL), c, NULL)

\* Mutation: the slab is pushed on the partial list but stays on the full one.
RescueNoUnlink(v, c) ==
  LET k == v.slab[c].size_class
  IN  IF c = v.bin[k].current_slab THEN v ELSE PushFront(v, k, "partial_list", c)

lz_tlh_rescue_from_full(v, c) ==
  LET k == v.slab[c].size_class
  IN  IF c = v.bin[k].current_slab THEN v
      ELSE PushFront(Unlink(v, k, "full_list", c), k, "partial_list", c)

\* A checksum that does not match leaves the chunk where it is.
lz_slab_destroy(v, c) ==
  IF v.slab[c].checksum # v.slab[c].owning_tlh THEN v
  ELSE [v EXCEPT !.gone = @ \cup {c}]

lz_tlh_recycle_empty_slab(v, c) ==
  LET k   == v.slab[c].size_class
      bin == v.bin[k]
  IN  IF c = bin.current_slab
      THEN IF bin.partial_list = NULL THEN v
           ELSE lz_slab_destroy(PromotePartial(v, k), c)
      ELSE lz_slab_destroy(Unlink(v, k, IF c = bin.partial_list THEN "partial_list"
                                        ELSE IF c = bin.full_list THEN "full_list"
                                        ELSE "neither", c), c)

\* Mutation: the count is not taken down.
FreeToSlabNoDecrement(v, b) == [v EXCEPT !.slab[b[1]].free_list_head = b]

\* Slab s with block b on its free list.
TakeBack(s, b) == [s EXCEPT !.free_list_head = b, !.used_objects = @ - 1]

\* A block goes back to its slab, which may thereby leave the full list or be
\* destroyed: the body shared by lz_tlh_free and lz_tlh_reap.
FreeToSlab(v, b) ==
  LET c  == b[1]
      v1 == [v EXCEPT !.slab[c] = TakeBack(@, b)]
      v2 == IF v1.slab[c].used_objects = max_objects(v1.slab[c]) - 1
            THEN lz_tlh_rescue_from_full(v1, c) ELSE v1
  IN  IF v2.slab[c].used_objects = 0 THEN lz_tlh_recycle_empty_slab(v2, c) ELSE v2

\* Mutation: the checksum is computed before the owner is recorded.
SlabCreateEarlyChecksum(v, t, k, c) ==
  [v EXCEPT !.slab[c] =
     [owning_tlh |-> t, checksum |-> v.slab[c].owning_tlh, next |-> NULL, prev |-> NULL,
      bump_ptr |-> 1, free_list_head |-> NULL, size_class |-> k, used_objects |-> 0]]

lz_slab_create(v, t, k, c) ==
  [v EXCEPT !.slab[c] =
     [owning_tlh |-> t, checksum |-> t, next |-> NULL, prev |-> NULL,
      bump_ptr |-> 1, free_list_head |-> NULL, size_class |-> k, used_objects |-> 0]]
============================================================================
