------------------------------- MODULE Rtree -------------------------------
(***************************************************************************)
(* The two-level radix tree (core/rtree.c, core/rtree.h) under concurrent  *)
(* lz_rtree_set and lz_rtree_get, one shared access per step.  Addresses   *)
(* are the numbers of the 2MB blocks they lie in; a leaf is a page of      *)
(* cells that mmap hands out zeroed, or refuses.                           *)
(***************************************************************************)
EXTENDS Integers

CONSTANTS
  Threads,
  Leaves,                \* the pages mmap may return for a leaf
  LZ_RTREE_L1_ENTRIES,
  LZ_RTREE_L2_ENTRIES,
  NULL

ASSUME RtreeAssumption ==
  /\ LZ_RTREE_L1_ENTRIES \in Nat \ {0}
  /\ LZ_RTREE_L2_ENTRIES \in Nat \ {0}
  /\ NULL \notin Leaves \cup Int

VARIABLES
  leaves,    \* g_rtree_root.leaves
  entries,   \* the cells of each leaf page
  mapped,    \* leaf pages mapped by this process
  op,        \* per thread, the lz_rtree_set or lz_rtree_get it is in
  missed     \* blocks whose registration was dropped for want of a leaf

treeVars == <<leaves, entries, mapped, op, missed>>

L1 == 0..(LZ_RTREE_L1_ENTRIES - 1)
L2 == 0..(LZ_RTREE_L2_ENTRIES - 1)
Blocks == 0..(LZ_RTREE_L1_ENTRIES * LZ_RTREE_L2_ENTRIES - 1)

l1_idx(b) == (b \div LZ_RTREE_L2_ENTRIES) % LZ_RTREE_L1_ENTRIES
l2_idx(b) == b % LZ_RTREE_L2_ENTRIES

Idle == [pc |-> "idle", block |-> 0, value |-> NULL, leaf |-> NULL]

lz_rtree_init ==
  /\ leaves = [i \in L1 |-> NULL]
  /\ entries = [l \in Leaves |-> [i \in L2 |-> NULL]]
  /\ mapped = {}
  /\ op = [t \in Threads |-> Idle]
  /\ missed = {}

----------------------------------------------------------------------------
At(t, pc) == op[t].pc = pc

\* The op of a thread that calls lz_rtree_set(b, value), or lz_rtree_get(b).
Set(b, value) == [pc |-> "load", block |-> b, value |-> value, leaf |-> NULL]
Get(b)        == [pc |-> "get", block |-> b, value |-> NULL, leaf |-> NULL]

Root(t) == leaves[l1_idx(op[t].block)]

\* The operation of thread t goes on at pc.
Advance(t, pc, leaf, value) ==
  op' = [op EXCEPT ![t] = [pc |-> pc, block |-> op[t].block, leaf |-> leaf, value |-> value]]

\* A clear that meets no leaf returns at once ("FAST EXIT").
Load(t) ==
  /\ At(t, "load")
  /\ Advance(t, IF Root(t) # NULL THEN "store" ELSE IF op[t].value = NULL THEN "ret" ELSE "map",
             Root(t), op[t].value)
  /\ UNCHANGED <<leaves, entries, mapped, missed>>

\* alloc_internal_node: a zeroed page, or NULL and the registration is dropped.
MapLeaf(t) ==
  /\ At(t, "map")
  /\ \/ \E new_leaf \in Leaves \ mapped :
          /\ mapped' = mapped \cup {new_leaf}
          /\ entries' = [entries EXCEPT ![new_leaf] = [i \in L2 |-> NULL]]
          /\ Advance(t, "cas", new_leaf, op[t].value)
          /\ UNCHANGED missed
     \/ /\ Advance(t, "ret", NULL, op[t].value)
        /\ missed' = missed \cup {op[t].block}
        /\ UNCHANGED <<mapped, entries>>
  /\ UNCHANGED leaves

\* Mutation: the leaf is published with a plain store.
InstallAlways(t) == TRUE

\* The compare-exchange expects an empty root cell.
CasSucceeds(t) == Root(t) = NULL

\* The loser unmaps its page and goes on with the winner's.
Install(t) ==
  /\ At(t, "cas")
  /\ IF CasSucceeds(t)
     THEN /\ leaves' = [leaves EXCEPT ![l1_idx(op[t].block)] = op[t].leaf]
          /\ Advance(t, "store", op[t].leaf, op[t].value)
          /\ UNCHANGED mapped
     ELSE /\ mapped' = mapped \ {op[t].leaf}
          /\ Advance(t, "store", Root(t), op[t].value)
          /\ UNCHANGED leaves
  /\ UNCHANGED <<entries, missed>>

Store(t) ==
  /\ At(t, "store")
  /\ entries' = [entries EXCEPT ![op[t].leaf][l2_idx(op[t].block)] = op[t].value]
  /\ Advance(t, "ret", op[t].leaf, op[t].value)
  /\ UNCHANGED <<leaves, mapped, missed>>

\* lz_rtree_get: the leaf, then its cell.
GetLeaf(t) ==
  /\ At(t, "get")
  /\ Advance(t, IF Root(t) = NULL THEN "ret" ELSE "entry", Root(t), op[t].value)
  /\ UNCHANGED <<leaves, entries, mapped, missed>>

GetEntry(t) ==
  /\ At(t, "entry")
  /\ Advance(t, "ret", op[t].leaf, entries[op[t].leaf][l2_idx(op[t].block)])
  /\ UNCHANGED <<leaves, entries, mapped, missed>>

TreeStep(t) == Load(t) \/ MapLeaf(t) \/ Install(t) \/ Store(t) \/ GetLeaf(t) \/ GetEntry(t)

----------------------------------------------------------------------------
\* What a lookup of block b that runs alone returns.
Lookup(b) == LET leaf == leaves[l1_idx(b)]
             IN  IF leaf = NULL THEN NULL ELSE entries[leaf][l2_idx(b)]

Ops == [pc : {"idle", "load", "map", "cas", "store", "get", "entry", "ret"}, block : Blocks,
        value : Blocks \cup {NULL}, leaf : Leaves \cup {NULL}]

TreeTypeOK ==
  /\ leaves \in [L1 -> Leaves \cup {NULL}]
  /\ entries \in [Leaves -> [L2 -> Blocks \cup {NULL}]]
  /\ mapped \in SUBSET Leaves
  /\ op \in [Threads -> Ops]
  /\ missed \in SUBSET Blocks

(* A mapped leaf is in the root or in the hands of the one thread that is  *)
(* about to install it, and what the root or a thread uses is mapped: the  *)
(* loser of the race in lz_rtree_set neither leaks its page nor unmaps one *)
(* that is in use.                                                         *)
NoLeafLost ==
  LET rooted  == {leaves[i] : i \in L1} \ {NULL}
      private == {op[t].leaf : t \in {u \in Threads : At(u, "cas")}}
  IN  /\ mapped = rooted \cup private
      /\ rooted \cap private = {}
      /\ \A t, u \in Threads : At(t, "cas") /\ At(u, "cas") /\ op[t].leaf = op[u].leaf => t = u
      /\ \A t \in Threads : At(t, "store") \/ At(t, "entry") => op[t].leaf \in rooted
=============================================================================
