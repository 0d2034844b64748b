--------------------------- MODULE RegistrySteps ---------------------------
(***************************************************************************)
(* The inductive invariants of the registry, and the steps of the radix    *)
(* tree calls that keep them.                                              *)
(*                                                                         *)
(* TreeInv is the inductive invariant of the tree alone (module Rtree).    *)
(* RegInv adds who owns which blocks (the program's objects and the calls  *)
(* in progress own disjoint extents of blocks in use), where each call     *)
(* stands, and how much of its extent the tree shows.                      *)
(***************************************************************************)
EXTENDS Registry, TLAPS

USE ZenonT(40)

EmptyLeaf == [i \in L2 |-> NULL]

\* t has a leaf of its own that it is about to install.
Installing(t) == op[t].pc = "cas"

\* t has found a leaf in the root.
Using(t) == op[t].pc \in {"store", "entry"}

Rooted(l) == \E i \in L1 : leaves[i] = l

TreeInv ==
  /\ TreeTypeOK
  /\ \A i, j \in L1 : leaves[i] = leaves[j] /\ leaves[i] # NULL => i = j
  /\ \A i \in L1 : leaves[i] # NULL => leaves[i] \in mapped
  /\ \A t \in Threads : Installing(t) =>
       /\ op[t].leaf \in mapped /\ ~Rooted(op[t].leaf)
       /\ entries[op[t].leaf] = EmptyLeaf
  /\ \A t, u \in Threads : Installing(t) /\ Installing(u) /\ op[t].leaf = op[u].leaf => t = u
  /\ \A t \in Threads : Using(t) => op[t].leaf = Root(t) /\ Root(t) # NULL
  /\ \A l \in mapped : Rooted(l) \/ \E t \in Threads : Installing(t) /\ op[t].leaf = l

----------------------------------------------------------------------------
(* The bits above and below the split of an address select cells of the    *)
(* root and of a leaf ...                                                  *)
LEMMA IndexBounds ==
  ASSUME NEW b \in Blocks
  PROVE  l1_idx(b) \in L1 /\ l2_idx(b) \in L2
<1>1. b \div LZ_RTREE_L2_ENTRIES \in Int
  BY RtreeAssumption, SMTT(30) DEF Blocks
<1> QED
  BY <1>1, RtreeAssumption, SMTT(30) DEF Blocks, l1_idx, l2_idx, L1, L2

(* ... and together determine the block.                                   *)
LEMMA IndexUnique ==
  ASSUME NEW a \in Blocks, NEW b \in Blocks, l1_idx(a) = l1_idx(b), l2_idx(a) = l2_idx(b)
  PROVE  a = b
<1> DEFINE N == LZ_RTREE_L2_ENTRIES
           M == LZ_RTREE_L1_ENTRIES
<1>1. N \in Nat \ {0} /\ M \in Nat \ {0}
  BY RtreeAssumption
<1> HIDE DEF N, M
<1>2. ASSUME NEW c \in Nat, c < M * N
      PROVE  (c \div N) % M = c \div N /\ c = N * (c \div N) + (c % N)
  <2>1. c \div N \in Nat /\ c % N \in Nat /\ c = N * (c \div N) + (c % N)
    BY <1>1, SMTT(30)
  <2>2. N * (c \div N) < M * N
    BY <2>1, <1>1, <1>2, SMTT(30)
  <2>3. c \div N < M
    BY <2>1, <2>2, <1>1, SMTT(30)
  <2> QED
    BY <2>1, <2>3, <1>1, SMTT(30)
<1>3. a \in Nat /\ a < M * N /\ b \in Nat /\ b < M * N
  BY <1>1, SMTT(30) DEF Blocks, M, N
<1>4. a \div N = b \div N /\ a % N = b % N
  BY <1>2, <1>3 DEF l1_idx, l2_idx, M, N
<1> QED
  BY <1>2, <1>3, <1>4

(* Nobody is lost and nobody is used after it has been unmapped: what      *)
(* TreeInv says of leaves is what NoLeafLost says of lz_rtree_set.         *)
LEMMA TreeInvNoLeafLost == TreeInv => NoLeafLost
<1> SUFFICES ASSUME TreeInv PROVE NoLeafLost
  BY SMTT(30)
<1> DEFINE rooted  == {leaves[i] : i \in L1} \ {NULL}
           private == {op[t].leaf : t \in {u \in Threads : At(u, "cas")}}
<1>1. \A l \in mapped : l \in rooted \cup private
  BY RtreeAssumption, SMTT(30) DEF TreeInv, Rooted, Installing, At, TreeTypeOK
<1>2. rooted \cup private \subseteq mapped
  BY SMTT(30) DEF TreeInv, Installing, At
<1>3. rooted \cap private = {}
  BY SMTT(30) DEF TreeInv, Installing, At, Rooted
<1>4. \A t, u \in Threads : At(t, "cas") /\ At(u, "cas") /\ op[t].leaf = op[u].leaf => t = u
  BY DEF TreeInv, Installing, At
<1>5. \A t \in Threads : At(t, "store") \/ At(t, "entry") => op[t].leaf \in rooted
  BY IndexBounds, SMTT(30) DEF TreeInv, Using, At, Root, TreeTypeOK, Ops
<1> QED
  BY <1>1, <1>2, <1>3, <1>4, <1>5 DEF NoLeafLost

----------------------------------------------------------------------------

\* A step that no lookup can see.
Invisible == \A b \in Blocks : Lookup(b)' = Lookup(b)

(* One thread's operation changes; the others' stay.                       *)
LEMMA OpChange ==
  ASSUME op \in [Threads -> Ops], NEW t \in Threads, NEW o \in Ops, op' = [op EXCEPT ![t] = o]
  PROVE  op' \in [Threads -> Ops] /\ op'[t] = o /\ \A u \in Threads \ {t} : op'[u] = op[u]
BY SMTT(30)

(* An operation goes on, with the same block.                              *)
LEMMA AdvanceChange ==
  ASSUME TreeInv, NEW t \in Threads,
         NEW pc \in {"map", "cas", "store", "entry", "ret"},
         NEW leaf \in Leaves \cup {NULL}, NEW value \in Blocks \cup {NULL},
         Advance(t, pc, leaf, value)
  PROVE  /\ op' \in [Threads -> Ops]
         /\ op'[t] = [pc |-> pc, block |-> op[t].block, leaf |-> leaf, value |-> value]
         /\ \A u \in Threads \ {t} : op'[u] = op[u]
<1>1. [pc |-> pc, block |-> op[t].block, leaf |-> leaf, value |-> value] \in Ops
  BY DEF TreeInv, TreeTypeOK, Ops
<1> QED
  BY <1>1, OpChange, SMTT(30) DEF TreeInv, TreeTypeOK, Advance

(* What the fields of an operation hold, and the leaf under its block.     *)
LEMMA OpTypes ==
  ASSUME TreeInv, NEW t \in Threads
  PROVE  /\ op[t].block \in Blocks /\ op[t].value \in Blocks \cup {NULL}
         /\ op[t].leaf \in Leaves \cup {NULL} /\ Root(t) \in Leaves \cup {NULL}
         /\ l1_idx(op[t].block) \in L1 /\ l2_idx(op[t].block) \in L2
BY IndexBounds, SMTT(30) DEF TreeInv, TreeTypeOK, Ops, Root

(* What a lookup of the operation's block would find.                      *)
LEMMA OpLookup ==
  ASSUME TreeInv, NEW t \in Threads
  PROVE  Lookup(op[t].block) \in Blocks \cup {NULL}
BY OpTypes, SMTT(30) DEF TreeInv, TreeTypeOK, Lookup

(* A thread between two calls of the tree may start another one, or none.  *)
LEMMA CallPreserves ==
  ASSUME TreeInv, NEW t \in Threads, op[t].pc \in {"idle", "ret"},
         NEW o \in Ops, o.pc \in {"idle", "load", "get"},
         op' = [op EXCEPT ![t] = o], missed' \in SUBSET Blocks,
         UNCHANGED <<leaves, entries, mapped>>
  PROVE  TreeInv' /\ Invisible
<1>1. op' \in [Threads -> Ops] /\ op'[t] = o /\ \A u \in Threads \ {t} : op'[u] = op[u]
  BY OpChange DEF TreeInv, TreeTypeOK
<1>2. TreeTypeOK'
  BY <1>1 DEF TreeInv, TreeTypeOK
<1>3. ~Installing(t) /\ ~Installing(t)' /\ ~Using(t)'
  BY <1>1 DEF Installing, Using
<1> QED
  BY <1>1, <1>2, <1>3, SMTT(30) DEF TreeInv, Invisible, Lookup, Installing, Using, Rooted, Root

(* The thread goes on with the leaf it found in the root, if any.          *)
LEMMA ReadPreserves ==
  ASSUME TreeInv, NEW t \in Threads, Load(t) \/ GetLeaf(t) \/ GetEntry(t)
  PROVE  TreeInv' /\ Invisible
<1>1. PICK pc \in {"map", "store", "entry", "ret"}, leaf \in Leaves \cup {NULL},
           value \in Blocks \cup {NULL} :
        /\ Advance(t, pc, leaf, value)
        /\ pc \in {"store", "entry"} => leaf = Root(t) /\ Root(t) # NULL
  <2>1. CASE Load(t)
    BY <2>1, OpTypes DEF Load
  <2>2. CASE GetLeaf(t)
    BY <2>2, OpTypes DEF GetLeaf
  <2>3. CASE GetEntry(t)
    <3>1. entries[op[t].leaf][l2_idx(op[t].block)] \in Blocks \cup {NULL}
      BY <2>3, OpTypes, SMTT(30) DEF TreeInv, TreeTypeOK, GetEntry, At, Using
    <3> QED
      BY <2>3, <3>1, OpTypes DEF GetEntry
  <2> QED
    BY <2>1, <2>2, <2>3
<1>2. /\ op' \in [Threads -> Ops]
      /\ op'[t] = [pc |-> pc, block |-> op[t].block, leaf |-> leaf, value |-> value]
      /\ \A u \in Threads \ {t} : op'[u] = op[u]
  BY <1>1, AdvanceChange, SMTT(30)
<1>3. UNCHANGED <<leaves, entries, mapped, missed>>
  BY DEF Load, GetLeaf, GetEntry
<1>4. ~Installing(t) /\ ~Installing(t)'
  BY <1>2, SMTT(30) DEF Load, GetLeaf, GetEntry, At, Installing
<1>5. Using(t)' => op'[t].leaf = Root(t)' /\ Root(t)' # NULL
  BY <1>1, <1>2, <1>3, SMTT(30) DEF Using, Root
<1>6. TreeTypeOK'
  BY <1>2, <1>3 DEF TreeInv, TreeTypeOK
<1> QED
  BY <1>2, <1>3, <1>4, <1>5, <1>6, SMTT(30) DEF TreeInv, Invisible, Lookup, Installing, Using,
     Rooted, Root

(* A page that mmap returns is nobody's; a thread that gets none gives up. *)
LEMMA MapPreserves ==
  ASSUME TreeInv, NEW t \in Threads, MapLeaf(t)
  PROVE  TreeInv' /\ Invisible
<1>1. ~Installing(t) /\ UNCHANGED leaves
  BY DEF MapLeaf, At, Installing
<1>2. CASE /\ Advance(t, "ret", NULL, op[t].value)
           /\ missed' = missed \cup {op[t].block}
           /\ UNCHANGED <<mapped, entries>>
  <2>1. /\ op' \in [Threads -> Ops]
        /\ op'[t] = [pc |-> "ret", block |-> op[t].block, leaf |-> NULL, value |-> op[t].value]
        /\ \A u \in Threads \ {t} : op'[u] = op[u]
    <3>1. op[t].value \in Blocks \cup {NULL}
      BY OpTypes
    <3> QED
      BY <1>2, <3>1, AdvanceChange
  <2>2. TreeTypeOK'
    BY <1>1, <1>2, <2>1, OpTypes, SMTT(30) DEF TreeInv, TreeTypeOK
  <2>3. ~Installing(t)' /\ ~Using(t)'
    BY <2>1, SMTT(30) DEF Installing, Using
  <2> QED
    BY <1>1, <1>2, <2>1, <2>2, <2>3, SMTT(30) DEF TreeInv, Invisible, Lookup, Installing, Using,
       Rooted, Root
<1>3. ASSUME NEW new_leaf \in Leaves \ mapped,
             mapped' = mapped \cup {new_leaf},
             entries' = [entries EXCEPT ![new_leaf] = EmptyLeaf],
             Advance(t, "cas", new_leaf, op[t].value),
             UNCHANGED missed
      PROVE  TreeInv' /\ Invisible
  <2>1. /\ op' \in [Threads -> Ops]
        /\ op'[t] = [pc |-> "cas", block |-> op[t].block, leaf |-> new_leaf, value |-> op[t].value]
        /\ \A u \in Threads \ {t} : op'[u] = op[u]
    <3>1. op[t].value \in Blocks \cup {NULL}
      BY OpTypes
    <3> QED
      BY <1>3, <3>1, AdvanceChange
  <2>2. /\ entries' \in [Leaves -> [L2 -> Blocks \cup {NULL}]]
        /\ entries'[new_leaf] = EmptyLeaf
        /\ \A l \in Leaves \ {new_leaf} : entries'[l] = entries[l]
    BY <1>3, SMTT(30) DEF TreeInv, TreeTypeOK, EmptyLeaf
  <2>3. TreeTypeOK'
    BY <1>1, <1>3, <2>1, <2>2 DEF TreeInv, TreeTypeOK
  <2>4. /\ new_leaf # NULL /\ ~Rooted(new_leaf)
        /\ \A u \in Threads : Installing(u) => op[u].leaf # new_leaf
    BY RtreeAssumption, SMTT(30) DEF TreeInv, Rooted
  <2>5. Invisible
    BY <1>1, <2>2, <2>4, IndexBounds DEF Invisible, Lookup, Rooted, TreeInv, TreeTypeOK
  <2>6. ASSUME NEW u \in Threads, Installing(u)'
        PROVE  /\ op'[u].leaf \in mapped' /\ ~Rooted(op[u].leaf)'
               /\ entries'[op'[u].leaf] = EmptyLeaf
    <3>1. CASE u = t
      BY <1>1, <1>3, <2>1, <2>2, <2>4, <3>1, SMTT(30) DEF Rooted
    <3>2. CASE u # t
      <4>1. op'[u] = op[u] /\ Installing(u)
        BY <2>1, <2>6, <3>2 DEF Installing
      <4>2. op[u].leaf \in mapped /\ ~Rooted(op[u].leaf) /\ entries[op[u].leaf] = EmptyLeaf
        BY <4>1 DEF TreeInv
      <4>3. op[u].leaf # new_leaf /\ op[u].leaf \in Leaves
        BY <4>1, <4>2, <2>4 DEF TreeInv, TreeTypeOK
      <4> QED
        BY <1>1, <1>3, <2>2, <4>1, <4>2, <4>3 DEF Rooted
    <3> QED
      BY <3>1, <3>2
  <2>7. \A u \in Threads : Using(u)' => op'[u].leaf = Root(u)' /\ Root(u)' # NULL
    BY <1>1, <2>1, SMTT(30) DEF TreeInv, Using, Root
  <2>8. \A u, v \in Threads : Installing(u)' /\ Installing(v)' /\ op'[u].leaf = op'[v].leaf => u = v
    BY <2>1, <2>4, SMTT(30) DEF TreeInv, Installing
  <2>9. \A l \in mapped' : Rooted(l)' \/ \E u \in Threads : Installing(u)' /\ op'[u].leaf = l
    <3>1. CASE \E u \in Threads : Installing(u)' /\ op'[u].leaf = new_leaf
      BY <1>1, <1>3, <2>1, <3>1, SMTT(30) DEF TreeInv, Installing, Rooted
    <3> QED
      BY <2>1, <3>1, SMTT(30) DEF Installing
  <2>10. /\ \A i, j \in L1 : leaves'[i] = leaves'[j] /\ leaves'[i] # NULL => i = j
         /\ \A i \in L1 : leaves'[i] # NULL => leaves'[i] \in mapped'
    BY <1>1, <1>3 DEF TreeInv
  <2>11. EmptyLeaf' = EmptyLeaf
    BY DEF EmptyLeaf
  <2> QED
    BY <2>3, <2>5, <2>6, <2>7, <2>8, <2>9, <2>10, <2>11 DEF TreeInv
<1> QED
  BY <1>2, <1>3 DEF MapLeaf, EmptyLeaf

(* The winner of the race publishes an empty leaf, the loser unmaps the    *)
(* one nobody else has seen and goes on with the winner's.                 *)
LEMMA InstallPreserves ==
  ASSUME TreeInv, NEW t \in Threads, Install(t)
  PROVE  TreeInv' /\ Invisible
<1> DEFINE mine == op[t].leaf
           cell == l1_idx(op[t].block)
<1>1. /\ Installing(t) /\ mine \in mapped /\ ~Rooted(mine) /\ entries[mine] = EmptyLeaf
      /\ mine \in Leaves /\ mine # NULL /\ cell \in L1 /\ Root(t) = leaves[cell]
      /\ op[t].block \in Blocks /\ op[t].value \in Blocks \cup {NULL}
      /\ UNCHANGED <<entries, missed>>
  BY OpTypes, RtreeAssumption, SMTT(30) DEF TreeInv, TreeTypeOK, Install, At, Installing, Root
<1>2. CASE /\ Root(t) = NULL /\ leaves' = [leaves EXCEPT ![cell] = mine]
           /\ Advance(t, "store", mine, op[t].value) /\ UNCHANGED mapped
  <2>1. /\ op' \in [Threads -> Ops]
        /\ op'[t] = [pc |-> "store", block |-> op[t].block, leaf |-> mine, value |-> op[t].value]
        /\ \A u \in Threads \ {t} : op'[u] = op[u]
    BY <1>1, <1>2, AdvanceChange
  <2>2. leaves'[cell] = mine /\ \A i \in L1 \ {cell} : leaves'[i] = leaves[i]
    BY <1>1, <1>2, SMTT(30) DEF TreeInv, TreeTypeOK
  <2>3. TreeTypeOK'
    BY <1>1, <1>2, <2>1 DEF TreeInv, TreeTypeOK
  <2>4. /\ \A i, j \in L1 : leaves'[i] = leaves'[j] /\ leaves'[i] # NULL => i = j
        /\ \A i \in L1 : leaves'[i] # NULL => leaves'[i] \in mapped'
    BY <1>1, <1>2, <2>2, SMTT(30) DEF TreeInv, Rooted
  <2>5. Invisible
    <3>1. SUFFICES ASSUME NEW b \in Blocks PROVE Lookup(b)' = Lookup(b)
      BY DEF Invisible
    <3>2. l1_idx(b) \in L1 /\ l2_idx(b) \in L2
      BY IndexBounds
    <3>3. CASE l1_idx(b) = cell
      <4>1. EmptyLeaf[l2_idx(b)] = NULL
        BY <3>2 DEF EmptyLeaf
      <4>2. Lookup(b) = NULL
        BY <1>1, <1>2, <3>3 DEF Lookup
      <4>3. Lookup(b)' = entries[mine][l2_idx(b)]
        BY <1>1, <2>2, <3>3 DEF Lookup
      <4> QED
        BY <1>1, <4>1, <4>2, <4>3
    <3>4. CASE l1_idx(b) # cell
      BY <1>1, <2>2, <3>2, <3>4 DEF Lookup
    <3> QED
      BY <3>3, <3>4
  <2>6. ASSUME NEW u \in Threads, Installing(u)'
        PROVE  /\ op'[u].leaf \in mapped' /\ ~Rooted(op[u].leaf)'
               /\ entries'[op'[u].leaf] = EmptyLeaf
    <3>1. u # t /\ op'[u] = op[u] /\ Installing(u)
      BY <2>1, <2>6, SMTT(30) DEF Installing
    <3>2. op[u].leaf # mine
      BY <1>1, <3>1 DEF TreeInv
    <3> QED
      BY <1>1, <1>2, <2>2, <3>1, <3>2, SMTT(30) DEF TreeInv, Rooted
  <2>7. \A u \in Threads : Using(u)' => op'[u].leaf = Root(u)' /\ Root(u)' # NULL
    <3>1. Root(t)' = mine
      BY <2>1, <2>2, SMTT(30) DEF Root
    <3>2. ASSUME NEW u \in Threads \ {t}, Using(u)
          PROVE  op[u].leaf = Root(u)' /\ Root(u)' # NULL
      BY <1>2, <2>1, <2>2, <3>2, <1>1, OpTypes, SMTT(30) DEF TreeInv, Root
    <3> QED
      BY <1>1, <2>1, <3>1, <3>2, SMTT(30) DEF Using
  <2>8. \A u, v \in Threads : Installing(u)' /\ Installing(v)' /\ op'[u].leaf = op'[v].leaf => u = v
    BY <2>1, SMTT(30) DEF TreeInv, Installing
  <2>9. \A l \in mapped' : Rooted(l)' \/ \E u \in Threads : Installing(u)' /\ op'[u].leaf = l
    <3>1. SUFFICES ASSUME NEW l \in mapped, l # mine
                   PROVE  Rooted(l)' \/ \E u \in Threads : Installing(u)' /\ op'[u].leaf = l
      BY <1>1, <1>2, <2>2 DEF Rooted
    <3>2. CASE Rooted(l)
      <4>1. l # NULL
        BY RtreeAssumption, SMTT(30) DEF TreeInv, TreeTypeOK
      <4> QED
        BY <1>1, <1>2, <2>2, <3>2, <4>1 DEF Rooted
    <3>3. CASE \E u \in Threads : Installing(u) /\ op[u].leaf = l
      BY <2>1, <3>1, <3>3 DEF Installing
    <3> QED
      BY <3>2, <3>3 DEF TreeInv
  <2>10. EmptyLeaf' = EmptyLeaf
    BY DEF EmptyLeaf
  <2> QED
    BY <2>3, <2>4, <2>5, <2>6, <2>7, <2>8, <2>9, <2>10 DEF TreeInv
<1>3. CASE /\ Root(t) # NULL /\ mapped' = mapped \ {mine}
           /\ Advance(t, "store", Root(t), op[t].value) /\ UNCHANGED leaves
  <2>1. /\ op' \in [Threads -> Ops]
        /\ op'[t] = [pc |-> "store", block |-> op[t].block, leaf |-> Root(t), value |-> op[t].value]
        /\ \A u \in Threads \ {t} : op'[u] = op[u]
    <3>1. Root(t) \in Leaves \cup {NULL}
      BY OpTypes
    <3> QED
      BY <1>1, <1>3, <3>1, AdvanceChange
  <2>2. TreeTypeOK' /\ Invisible
    BY <1>1, <1>3, <2>1 DEF TreeInv, TreeTypeOK, Invisible, Lookup
  <2>3. \A i \in L1 : leaves[i] # NULL => leaves[i] \in mapped'
    BY <1>1, <1>3 DEF TreeInv, Rooted
  <2>4. ASSUME NEW u \in Threads, Installing(u)'
        PROVE  u # t /\ op'[u] = op[u] /\ Installing(u) /\ op[u].leaf \in mapped'
    <3>1. u # t /\ op'[u] = op[u] /\ Installing(u)
      BY <2>1, <2>4, SMTT(30) DEF Installing
    <3> QED
      BY <1>1, <1>3, <3>1 DEF TreeInv
  <2>5. \A u \in Threads : Using(u)' => op'[u].leaf = Root(u)' /\ Root(u)' # NULL
    BY <1>3, <2>1, SMTT(30) DEF TreeInv, Using, Root
  <2>6. \A l \in mapped' : Rooted(l) \/ \E u \in Threads : Installing(u)' /\ op'[u].leaf = l
    BY <1>3, <2>1, SMTT(30) DEF TreeInv, Installing
  <2> QED
    BY <1>1, <1>3, <2>2, <2>3, <2>4, <2>5, <2>6, SMTT(30) DEF TreeInv, Rooted, EmptyLeaf
<1> QED
  BY <1>2, <1>3 DEF Install, CasSucceeds

(* The store of lz_rtree_set writes the cell of its block and no other.    *)
LEMMA StorePreserves ==
  ASSUME TreeInv, NEW t \in Threads, Store(t)
  PROVE  /\ TreeInv'
         /\ \A b \in Blocks : Lookup(b)' = IF b = op[t].block THEN op[t].value ELSE Lookup(b)
<1> DEFINE leaf == op[t].leaf
           slot == l2_idx(op[t].block)
<1>1. /\ Using(t) /\ leaf = Root(t) /\ leaf # NULL /\ leaf \in Leaves /\ slot \in L2
      /\ op[t].block \in Blocks /\ op[t].value \in Blocks \cup {NULL}
  BY OpTypes DEF TreeInv, Store, At, Using
<1>2. /\ op' \in [Threads -> Ops]
      /\ op'[t] = [pc |-> "ret", block |-> op[t].block, leaf |-> leaf, value |-> op[t].value]
      /\ \A u \in Threads \ {t} : op'[u] = op[u]
  BY <1>1, AdvanceChange DEF Store
<1>3. UNCHANGED <<leaves, mapped, missed>>
  BY DEF Store
<1>4. /\ entries' \in [Leaves -> [L2 -> Blocks \cup {NULL}]]
      /\ \A l \in Leaves \ {leaf} : entries'[l] = entries[l]
      /\ \A i \in L2 \ {slot} : entries'[leaf][i] = entries[leaf][i]
      /\ entries'[leaf][slot] = op[t].value
  BY <1>1, SMTT(30) DEF Store, TreeInv, TreeTypeOK
<1>5. TreeTypeOK'
  BY <1>2, <1>3, <1>4 DEF TreeInv, TreeTypeOK
<1>6. ~Installing(t)' /\ ~Using(t)' /\ ~Installing(t)
  BY <1>1, <1>2, SMTT(30) DEF Installing, Using
<1>7. ASSUME NEW u \in Threads, Installing(u)
      PROVE  entries'[op[u].leaf] = EmptyLeaf
  <2>1. op[u].leaf # leaf /\ op[u].leaf \in Leaves
    BY <1>1, <1>7, OpTypes, SMTT(30) DEF TreeInv, TreeTypeOK, Rooted, Root
  <2> QED
    BY <1>4, <1>7, <2>1 DEF TreeInv
<1>8. TreeInv'
  BY <1>2, <1>3, <1>5, <1>6, <1>7, SMTT(30) DEF TreeInv, Installing, Using, Rooted, Root,
     EmptyLeaf
<1>9. ASSUME NEW b \in Blocks
      PROVE  Lookup(b)' = IF b = op[t].block THEN op[t].value ELSE Lookup(b)
  <2>1. l1_idx(b) \in L1 /\ l2_idx(b) \in L2 /\ l1_idx(op[t].block) \in L1
    BY <1>1, IndexBounds
  <2>2. CASE b = op[t].block
    BY <1>1, <1>3, <1>4, <2>2 DEF Lookup, Root
  <2>3. CASE b # op[t].block /\ leaves[l1_idx(b)] = leaf
    <3>1. l1_idx(b) = l1_idx(op[t].block)
      BY <1>1, <2>1, <2>3, SMTT(30) DEF TreeInv, Root
    <3>2. l2_idx(b) # slot
      BY <1>1, <2>3, <3>1, IndexUnique
    <3> QED
      BY <1>1, <1>3, <1>4, <2>1, <2>3, <3>2 DEF Lookup
  <2>4. CASE b # op[t].block /\ leaves[l1_idx(b)] # leaf
    BY <1>3, <1>4, <2>1, <2>4 DEF Lookup, TreeInv, TreeTypeOK
  <2> QED
    BY <2>2, <2>3, <2>4
<1> QED
  BY <1>8, <1>9

(* The records of the calls are operations of the tree.                    *)
LEMMA CallTypes ==
  /\ Idle \in Ops
  /\ \A b \in Blocks : Get(b) \in Ops
  /\ \A b \in Blocks : \A v \in Blocks \cup {NULL} : Set(b, v) \in Ops
<1>1. Idle \in Ops
  <2>1. 0 \in Blocks
    <3>1. \A m, n \in Nat \ {0} : m * n \in Nat /\ m * n > 0
      BY SMTT(30)
    <3> QED
      BY <3>1, RtreeAssumption, SMTT(30) DEF Blocks
  <2> QED
    BY <2>1 DEF Idle, Ops
<1> QED
  BY <1>1 DEF Get, Set, Ops

----------------------------------------------------------------------------
Kinds   == {"none", "register", "lookup", "clear", "release"}
Objects == [base : Nat, total : Nat, ptr : Nat]
Jobs    == [kind : Kinds, obj : Objects, k : Nat]

RegTypes ==
  /\ use \in [Blocks -> {"os", "pool", "held"}]
  /\ header \in [Blocks -> [direct : BOOLEAN, total : Nat] \cup {NULL}]
  /\ job \in [Threads -> Jobs]
  /\ objects \subseteq Objects

Busy(t) == job[t].kind # "none"

\* The blocks of o are in use, and its header says how many they are.
Sound(o) ==
  /\ o.total > 0 /\ o.ptr \in Extent(o)
  /\ \A b \in Extent(o) : b \in Blocks /\ use[b] = "held"
  /\ header[o.base] # NULL /\ header[o.base].total = o.total

Apart(o, p) == \A b \in Extent(o) : b \notin Extent(p)

Ownership ==
  /\ \A o \in objects : Sound(o)
  /\ \A t \in Threads : Busy(t) => Sound(job[t].obj)
  /\ \A o, p \in objects : o # p => Apart(o, p)
  /\ \A t \in Threads : \A o \in objects : Busy(t) => Apart(job[t].obj, o)
  /\ \A t, u \in Threads : t # u /\ Busy(t) /\ Busy(u) => Apart(job[t].obj, job[u].obj)

\* Where the operation of a call stands.
Control(t) ==
  /\ job[t].kind \in {"none", "release"} => op[t].pc = "idle"
  /\ job[t].kind \in {"register", "clear"} =>
       /\ op[t].pc \in {"load", "map", "cas", "store", "ret"}
       /\ job[t].k < job[t].obj.total
       /\ op[t].block = job[t].obj.base + job[t].k
       /\ op[t].value = Value(t)
       /\ op[t].pc \in {"map", "cas"} => job[t].kind = "register"
  /\ job[t].kind = "lookup" =>
       /\ op[t].pc \in {"get", "entry", "ret"}
       /\ op[t].block = job[t].obj.ptr
       /\ op[t].value \in {NULL, job[t].obj.base}

\* The loop of t has dealt with block b.
Done(t, b) == b < op[t].block \/ (b = op[t].block /\ op[t].pc = "ret")

FoundAt(b, base) == Lookup(b) = base \/ (b \in missed /\ Lookup(b) = NULL)

\* What lookups show of the extent a call is working on.
Shown(t, b) ==
  /\ job[t].kind = "register" => IF Done(t, b) THEN FoundAt(b, job[t].obj.base) ELSE Lookup(b) = NULL
  /\ job[t].kind = "lookup"   => FoundAt(b, job[t].obj.base)
  /\ job[t].kind = "clear"    => Lookup(b) = NULL \/ (~Done(t, b) /\ Lookup(b) = job[t].obj.base)
  /\ job[t].kind = "release"  => Lookup(b) = NULL

Contents ==
  /\ NothingStale
  /\ \A o \in objects : \A b \in Extent(o) : FoundAt(b, o.base)
  /\ \A t \in Threads : \A b \in Extent(job[t].obj) : Shown(t, b)

RegInv ==
  /\ TreeInv
  /\ RegTypes
  /\ Ownership
  /\ \A t \in Threads : Control(t)
  /\ Contents

----------------------------------------------------------------------------
(* The calls of other threads, and the objects of the program, notice      *)
(* nothing of a change to blocks that are not theirs.                      *)
LEMMA OthersKeep ==
  ASSUME RegInv, NEW t \in Threads, NEW j \in Jobs, job' = [job EXCEPT ![t] = j],
         \A u \in Threads \ {t} : op'[u] = op[u],
         NEW S,
         \A b \in Blocks \ S : Lookup(b)' = Lookup(b) /\ (b \in missed => b \in missed'),
         \A o \in objects : \A b \in Extent(o) : b \notin S,
         \A u \in Threads \ {t} : Busy(u) => \A b \in Extent(job[u].obj) : b \notin S
  PROVE  /\ job' \in [Threads -> Jobs] /\ job'[t] = j /\ \A u \in Threads \ {t} : job'[u] = job[u]
         /\ \A u \in Threads \ {t} : Control(u)' /\ \A b \in Extent(job'[u].obj) : Shown(u, b)'
         /\ \A o \in objects : \A b \in Extent(o) : FoundAt(b, o.base)'
<1>1. job' \in [Threads -> Jobs] /\ job'[t] = j /\ \A u \in Threads \ {t} : job'[u] = job[u]
  BY DEF RegInv, RegTypes
<1>2. ASSUME NEW u \in Threads \ {t} PROVE Control(u)'
  BY <1>1, SMTT(30) DEF RegInv, Control, Value
<1>3. ASSUME NEW o \in objects, NEW b \in Extent(o) PROVE FoundAt(b, o.base)'
  BY SMTT(30) DEF RegInv, Ownership, Sound, Contents, FoundAt
<1>4. ASSUME NEW u \in Threads \ {t}, NEW b \in Extent(job'[u].obj) PROVE Shown(u, b)'
  <2>1. CASE Busy(u)
    <3>1. b \in Blocks \ S /\ op'[u] = op[u] /\ job'[u] = job[u] /\ Shown(u, b)
      BY <1>1, <2>1 DEF RegInv, Ownership, Sound, Contents
    <3> QED
      BY <3>1 DEF Shown, Done, FoundAt
  <2>2. CASE ~Busy(u)
    BY <1>1, <2>2 DEF Busy, Shown
  <2> QED
    BY <2>1, <2>2
<1> QED
  BY <1>1, <1>2, <1>3, <1>4

(* A call that goes on, with the same blocks, and changes what lookups     *)
(* show of these blocks only, disturbs nobody else.                        *)
LEMMA GoesOn ==
  ASSUME RegInv, NEW t \in Threads, Busy(t), TreeInv',
         NEW j \in Jobs, j.kind # "none", job' = [job EXCEPT ![t] = j],
         j.obj.base = job[t].obj.base, j.obj.total = job[t].obj.total,
         j.obj.ptr \in Extent(job[t].obj),
         \A u \in Threads \ {t} : op'[u] = op[u],
         UNCHANGED <<use, header, objects>>,
         \A b \in Blocks \ Extent(job[t].obj) : Lookup(b)' = Lookup(b) /\ (b \in missed => b \in missed'),
         Control(t)',
         \A b \in Extent(job[t].obj) : Shown(t, b)'
  PROVE  RegInv'
<1>1. /\ job' \in [Threads -> Jobs] /\ job'[t] = j /\ \A u \in Threads \ {t} : job'[u] = job[u]
      /\ \A u \in Threads \ {t} : Control(u)' /\ \A b \in Extent(job'[u].obj) : Shown(u, b)'
      /\ \A o \in objects : \A b \in Extent(o) : FoundAt(b, o.base)'
  <2>1. /\ \A o \in objects : \A b \in Extent(o) : b \notin Extent(job[t].obj)
        /\ \A u \in Threads \ {t} : Busy(u) => \A b \in Extent(job[u].obj) : b \notin Extent(job[t].obj)
    BY DEF RegInv, Ownership, Apart
  <2> QED
    BY <2>1, OthersKeep
<1>2. Extent(j.obj) = Extent(job[t].obj)
  BY DEF Extent
<1>3. RegTypes'
  BY <1>1 DEF RegInv, RegTypes
<1>4. \A o : Sound(o)' <=> Sound(o)
  BY DEF Sound
<1>5. Sound(j.obj)
  BY <1>2 DEF RegInv, Ownership, Sound
<1>6. Ownership'
  <2>1. \A u \in Threads : Busy(u)' => Busy(u) /\ Sound(job'[u].obj)
    BY <1>1, <1>5 DEF RegInv, Ownership, Busy
  <2>2. \A u \in Threads : Extent(job'[u].obj) = Extent(job[u].obj)
    BY <1>1, <1>2
  <2> QED
    BY <1>4, <2>1, <2>2 DEF RegInv, Ownership, Apart
<1>7. NothingStale'
  BY SMTT(30) DEF RegInv, Contents, NothingStale, Ownership, Sound
<1> QED
  BY <1>1, <1>2, <1>3, <1>6, <1>7 DEF RegInv, Contents

(* A tree operation of a call works inside the extent of its object.       *)
LEMMA OwnBlock ==
  ASSUME RegInv, NEW t \in Threads, op[t].pc # "idle"
  PROVE  /\ Busy(t) /\ job[t] \in Jobs /\ job[t].kind \in {"register", "lookup", "clear"}
         /\ op[t].block \in Extent(job[t].obj)
         /\ job[t].obj.ptr \in Extent(job[t].obj)
         /\ job[t].obj.base \in Nat /\ job[t].obj.base # NULL
         /\ \A b \in Extent(job[t].obj) : b \in Blocks /\ b \in Nat /\ Shown(t, b)
         /\ job[t].obj.total > 0
<1>1. job[t] \in Jobs /\ job[t].kind \in Kinds /\ job[t].obj \in Objects /\ job[t].k \in Nat
  BY DEF RegInv, RegTypes, Jobs
<1>2. job[t].kind \in {"register", "lookup", "clear"} /\ Busy(t)
  BY <1>1 DEF RegInv, Control, Kinds, Busy
<1>3. Sound(job[t].obj)
  BY <1>2 DEF RegInv, Ownership
<1>4. job[t].obj.base \in Nat /\ job[t].obj.total \in Nat /\ job[t].obj.base # NULL
  BY <1>1, RtreeAssumption, SMTT(30) DEF Objects
<1>5. op[t].block \in Extent(job[t].obj)
  BY <1>1, <1>2, <1>3, <1>4, SMTT(30) DEF RegInv, Control, Sound, Extent
<1>6. \A b \in Extent(job[t].obj) : b \in Nat
  BY <1>4, SMTT(30) DEF Extent
<1> QED
  BY <1>1, <1>2, <1>3, <1>4, <1>5, <1>6 DEF RegInv, Contents, Sound

(* GoesOn for a step of the tree operation itself.                         *)
LEMMA TreeStepGoesOn ==
  ASSUME RegInv, NEW t \in Threads, op[t].pc # "idle", TreeInv',
         UNCHANGED <<use, header, job, objects>>,
         \A u \in Threads \ {t} : op'[u] = op[u],
         \A b \in Blocks \ Extent(job[t].obj) : Lookup(b)' = Lookup(b) /\ (b \in missed => b \in missed'),
         Control(t)',
         \A b \in Extent(job[t].obj) : Shown(t, b)'
  PROVE  RegInv'
<1>1. job' = [job EXCEPT ![t] = job[t]]
  BY DEF RegInv, RegTypes
<1>2. Busy(t) /\ job[t] \in Jobs /\ job[t].kind # "none" /\ job[t].obj.ptr \in Extent(job[t].obj)
  BY OwnBlock DEF Busy
<1> QED
  BY <1>1, <1>2, GoesOn

\* The change of at most one cell, as ChunkIndex allows it.
OneCell == \E b \in Blocks : /\ \A c \in Blocks \ {b} : Lookup(c)' = Lookup(c)
                             /\ Lookup(b)' = NULL \/ (Lookup(b) = NULL /\ Lookup(b)' \in Blocks)

(* lz_rtree_set reads the root.                                            *)
LEMMA LoadStep ==
  ASSUME RegInv, NEW t \in Threads, Load(t), UNCHANGED <<use, header, job, objects>>
  PROVE  RegInv' /\ Invisible
<1> DEFINE pc == IF Root(t) # NULL THEN "store" ELSE IF op[t].value = NULL THEN "ret" ELSE "map"
<1>1. TreeInv /\ TreeInv' /\ Invisible /\ op[t].pc = "load"
  BY ReadPreserves DEF RegInv, Load, At
<1>2. op'[t] = [pc |-> pc, block |-> op[t].block, leaf |-> Root(t), value |-> op[t].value]
      /\ \A u \in Threads \ {t} : op'[u] = op[u]
  <2>1. pc \in {"map", "store", "ret"} /\ Root(t) \in Leaves \cup {NULL} /\ op[t].value \in Blocks \cup {NULL}
    BY <1>1, OpTypes
  <2> QED
    BY <1>1, <2>1, AdvanceChange, SMTT(30) DEF Load
<1>3. /\ job[t].kind \in {"register", "clear"} /\ op[t].block \in Extent(job[t].obj)
      /\ \A b \in Extent(job[t].obj) : b \in Blocks /\ b \in Nat /\ Shown(t, b)
      /\ op[t].value = Value(t) /\ job[t].obj.base # NULL
  BY <1>1, OwnBlock DEF RegInv, Control
<1>4. Control(t)'
  BY <1>1, <1>2, <1>3, SMTT(30) DEF RegInv, Control, Value
<1>5. pc = "ret" => job[t].kind = "clear" /\ Lookup(op[t].block) = NULL
  BY <1>3, SMTT(30) DEF Value, Root, Lookup
<1>6. ASSUME NEW b \in Extent(job[t].obj) PROVE Shown(t, b)'
  BY <1>1, <1>2, <1>3, <1>5, SMTT(30) DEF Shown, Done, FoundAt, Invisible, Load
<1> QED
  BY <1>1, <1>2, <1>4, <1>6, TreeStepGoesOn DEF Invisible, Load

(* lz_rtree_get reads the root, then the cell.                             *)
LEMMA GetStep ==
  ASSUME RegInv, NEW t \in Threads, GetLeaf(t) \/ GetEntry(t), UNCHANGED <<use, header, job, objects>>
  PROVE  RegInv' /\ Invisible
<1>1. TreeInv /\ TreeInv' /\ Invisible /\ op[t].pc \in {"get", "entry"} /\ UNCHANGED missed
  BY ReadPreserves DEF RegInv, GetLeaf, GetEntry, At
<1>2. /\ job[t].kind = "lookup" /\ op[t].block \in Extent(job[t].obj)
      /\ \A b \in Extent(job[t].obj) : b \in Blocks /\ Shown(t, b)
  BY <1>1, OwnBlock DEF RegInv, Control
<1>3. PICK pc \in {"entry", "ret"}, value \in Blocks \cup {NULL}, leaf \in Leaves \cup {NULL} :
        /\ Advance(t, pc, leaf, value)
        /\ value \in {NULL, job[t].obj.base}
  <2>1. CASE GetLeaf(t)
    BY <1>1, <1>2, <2>1, OpTypes DEF GetLeaf, RegInv, Control
  <2>2. CASE GetEntry(t)
    <3>1. entries[op[t].leaf][l2_idx(op[t].block)] = Lookup(op[t].block)
      BY <1>1, <2>2 DEF GetEntry, At, TreeInv, Using, Root, Lookup
    <3>2. Lookup(op[t].block) \in {NULL, job[t].obj.base}
      BY <1>2 DEF Shown, FoundAt
    <3>3. Lookup(op[t].block) \in Blocks \cup {NULL}
      BY <1>1, OpLookup
    <3> QED
      BY <1>1, <2>2, <3>1, <3>2, <3>3, OpTypes DEF GetEntry
  <2> QED
    BY <2>1, <2>2
<1>4. op'[t] = [pc |-> pc, block |-> op[t].block, leaf |-> leaf, value |-> value]
      /\ \A u \in Threads \ {t} : op'[u] = op[u]
  BY <1>1, <1>3, AdvanceChange, SMTT(30)
<1>5. Control(t)'
  BY <1>2, <1>3, <1>4, SMTT(30) DEF RegInv, Control
<1>6. ASSUME NEW b \in Extent(job[t].obj) PROVE Shown(t, b)'
  BY <1>1, <1>2 DEF Shown, FoundAt, Invisible
<1> QED
  BY <1>1, <1>4, <1>5, <1>6, TreeStepGoesOn DEF Invisible

(* lz_rtree_set maps a leaf, or gives the registration up.                 *)
LEMMA MapStep ==
  ASSUME RegInv, NEW t \in Threads, MapLeaf(t), UNCHANGED <<use, header, job, objects>>
  PROVE  RegInv' /\ Invisible
<1>1. TreeInv /\ TreeInv' /\ Invisible /\ op[t].pc = "map"
  BY MapPreserves DEF RegInv, MapLeaf, At
<1>2. /\ job[t].kind = "register" /\ op[t].block \in Extent(job[t].obj)
      /\ \A b \in Extent(job[t].obj) : b \in Blocks /\ b \in Nat /\ Shown(t, b)
  BY <1>1, OwnBlock DEF RegInv, Control
<1>3. PICK pc \in {"cas", "ret"}, leaf \in Leaves \cup {NULL} :
        /\ Advance(t, pc, leaf, op[t].value)
        /\ missed' = IF pc = "ret" THEN missed \cup {op[t].block} ELSE missed
  BY DEF MapLeaf
<1>4. op'[t] = [pc |-> pc, block |-> op[t].block, leaf |-> leaf, value |-> op[t].value]
      /\ \A u \in Threads \ {t} : op'[u] = op[u]
  <2>1. op[t].value \in Blocks \cup {NULL}
    BY <1>1, OpTypes
  <2>2. PICK w : w = op[t].value
    BY SMTT(30)
  <2>3. w \in Blocks \cup {NULL} /\ Advance(t, pc, leaf, w)
    BY <1>3, <2>1, <2>2
  <2> QED
    BY <1>1, <1>3, <2>2, <2>3, AdvanceChange, SMTT(30)
<1>5. Control(t)'
  BY <1>2, <1>3, <1>4, SMTT(30) DEF RegInv, Control, Value
<1>6. ASSUME NEW b \in Extent(job[t].obj) PROVE Shown(t, b)'
  <2>1. Lookup(b)' = Lookup(b) /\ Shown(t, b)
    BY <1>1, <1>2 DEF Invisible
  <2>2. Done(t, b)' => Done(t, b) \/ (b = op[t].block /\ b \in missed' /\ ~Done(t, b))
    BY <1>1, <1>2, <1>3, <1>4, SMTT(30) DEF Done
  <2>3. Done(t, b) => Done(t, b)'
    BY <1>1, <1>4, SMTT(30) DEF Done
  <2> QED
    BY <1>2, <1>3, <2>1, <2>2, <2>3 DEF Shown, FoundAt
<1> QED
  BY <1>1, <1>3, <1>4, <1>5, <1>6, TreeStepGoesOn DEF Invisible

(* lz_rtree_set wins or loses the race for the root cell.                  *)
LEMMA InstallStep ==
  ASSUME RegInv, NEW t \in Threads, Install(t), UNCHANGED <<use, header, job, objects>>
  PROVE  RegInv' /\ Invisible
<1>1. TreeInv /\ TreeInv' /\ Invisible /\ op[t].pc = "cas" /\ UNCHANGED missed
  BY InstallPreserves DEF RegInv, Install, At
<1>2. /\ job[t].kind = "register" /\ op[t].block \in Extent(job[t].obj)
      /\ \A b \in Extent(job[t].obj) : b \in Blocks /\ Shown(t, b)
  BY <1>1, OwnBlock DEF RegInv, Control
<1>3. PICK leaf \in Leaves \cup {NULL} : Advance(t, "store", leaf, op[t].value)
  BY <1>1, OpTypes DEF Install
<1>4. op'[t] = [pc |-> "store", block |-> op[t].block, leaf |-> leaf, value |-> op[t].value]
      /\ \A u \in Threads \ {t} : op'[u] = op[u]
  <2>1. op[t].value \in Blocks \cup {NULL}
    BY <1>1, OpTypes
  <2> QED
    BY <1>1, <1>3, <2>1, AdvanceChange, SMTT(30)
<1>5. Control(t)'
  <2>1. Control(t)
    BY DEF RegInv
  <2>2. op'[t].pc = "store" /\ op'[t].block = op[t].block /\ op'[t].value = op[t].value
    BY <1>4, SMTT(30)
  <2> QED
    BY <1>1, <1>2, <2>1, <2>2 DEF Control, Value
<1>6. ASSUME NEW b \in Extent(job[t].obj) PROVE Shown(t, b)'
  BY <1>1, <1>2, <1>4, SMTT(30) DEF Shown, Done, FoundAt, Invisible
<1> QED
  BY <1>1, <1>4, <1>5, <1>6, TreeStepGoesOn DEF Invisible

(* The store of lz_rtree_set: a cell the thread's object owns goes from    *)
(* NULL to the object's base, or to NULL.                                  *)
LEMMA StoreStep ==
  ASSUME RegInv, NEW t \in Threads, Store(t), UNCHANGED <<use, header, job, objects>>
  PROVE  RegInv' /\ OneCell
<1>1. /\ TreeInv /\ TreeInv' /\ op[t].pc = "store" /\ UNCHANGED missed
      /\ \A b \in Blocks : Lookup(b)' = IF b = op[t].block THEN op[t].value ELSE Lookup(b)
  BY StorePreserves DEF RegInv, Store, At
<1>2. /\ job[t].kind \in {"register", "clear"} /\ op[t].block \in Extent(job[t].obj)
      /\ \A b \in Extent(job[t].obj) : b \in Blocks /\ b \in Nat /\ Shown(t, b)
      /\ op[t].value = Value(t)
  BY <1>1, OwnBlock DEF RegInv, Control
<1>3. op'[t] = [pc |-> "ret", block |-> op[t].block, leaf |-> op[t].leaf, value |-> op[t].value]
      /\ \A u \in Threads \ {t} : op'[u] = op[u]
  <2>1. op[t].value \in Blocks \cup {NULL} /\ op[t].leaf \in Leaves \cup {NULL}
    BY <1>1, OpTypes
  <2> QED
    BY <1>1, <2>1, AdvanceChange, SMTT(30) DEF Store
<1>4. Control(t)'
  BY <1>2, <1>3, SMTT(30) DEF RegInv, Control, Value
<1>5. ASSUME NEW b \in Extent(job[t].obj) PROVE Shown(t, b)'
  <2>1. CASE b = op[t].block
    <3>1. Lookup(b)' = Value(t) /\ Done(t, b)'
      BY <1>1, <1>2, <1>3, <2>1, SMTT(30) DEF Done
    <3> QED
      BY <1>2, <3>1 DEF Shown, FoundAt, Value
  <2>2. CASE b # op[t].block
    <3>1. Lookup(b)' = Lookup(b) /\ Shown(t, b) /\ (Done(t, b)' <=> Done(t, b))
      BY <1>1, <1>2, <1>3, <2>2, SMTT(30) DEF Done
    <3> QED
      BY <1>1, <1>2, <3>1 DEF Shown, FoundAt
  <2> QED
    BY <2>1, <2>2
<1>6. OneCell
  <2>1. ~Done(t, op[t].block)
    BY <1>1, <1>2, SMTT(30) DEF Done
  <2>2. op[t].value = NULL \/ (Lookup(op[t].block) = NULL /\ op[t].value \in Blocks)
    BY <1>1, <1>2, <2>1, OpTypes DEF Shown, Value
  <2> QED
    BY <1>1, <1>2, <2>2 DEF OneCell
<1> QED
  BY <1>1, <1>2, <1>3, <1>4, <1>5, <1>6, TreeStepGoesOn

(* Every step of the tree keeps the invariant, and shows as one cell's     *)
(* change or not at all.                                                   *)
LEMMA TreeStepKeeps ==
  ASSUME RegInv, NEW t \in Threads, TreeStep(t), UNCHANGED <<use, header, job, objects>>
  PROVE  RegInv' /\ (Invisible \/ OneCell)
BY LoadStep, GetStep, MapStep, InstallStep, StoreStep DEF TreeStep

----------------------------------------------------------------------------
(* A thread between two tree operations calls the next, or none.           *)
LEMMA NewCall ==
  ASSUME RegInv, NEW t \in Threads, op[t].pc \in {"idle", "ret"},
         NEW o \in Ops, o.pc \in {"idle", "load", "get"}, Call(t, o), missed' \subseteq missed,
         UNCHANGED <<leaves, entries, mapped>>
  PROVE  /\ TreeInv' /\ Invisible /\ op'[t] = o
         /\ \A u \in Threads \ {t} : op'[u] = op[u]
<1>1. missed' \in SUBSET Blocks /\ op \in [Threads -> Ops] /\ TreeInv
  BY DEF RegInv, TreeInv, TreeTypeOK
<1> QED
  BY <1>1, CallPreserves, OpChange DEF Call

(* The first block of an object is one of its blocks.                      *)
LEMMA BaseInExtent ==
  ASSUME NEW o \in Objects, o.total > 0
  PROVE  o.base \in Extent(o) /\ \A b \in Extent(o) : b \in Nat
BY SMTT(30) DEF Objects, Extent

(* A call whose tree operation has returned goes on with another, or with  *)
(* none, about the same blocks.                                            *)
LEMMA CallGoesOn ==
  ASSUME RegInv, NEW t \in Threads, op[t].pc = "ret",
         NEW kind \in Kinds \ {"none"}, NEW p \in Objects, NEW k \in Nat, Work(t, kind, p, k),
         p.base = job[t].obj.base, p.total = job[t].obj.total, p.ptr \in Extent(job[t].obj),
         NEW o \in Ops, o.pc \in {"idle", "load", "get"}, Call(t, o),
         UNCHANGED <<leaves, entries, mapped, missed, use, header, objects>>,
         job'[t] = [kind |-> kind, obj |-> p, k |-> k] /\ op'[t] = o => Control(t)',
         \A b \in Extent(job[t].obj) :
           Lookup(b)' = Lookup(b) /\ job'[t] = [kind |-> kind, obj |-> p, k |-> k] /\ op'[t] = o
             => Shown(t, b)'
  PROVE  RegInv' /\ Invisible
<1> DEFINE j == [kind |-> kind, obj |-> p, k |-> k]
<1>1. j \in Jobs /\ j.kind # "none" /\ j.obj = p
  BY DEF Jobs
<1>2. TreeInv' /\ Invisible /\ op'[t] = o /\ \A u \in Threads \ {t} : op'[u] = op[u]
  BY NewCall
<1>3. job' = [job EXCEPT ![t] = j] /\ job'[t] = j
  BY DEF Work, RegInv, RegTypes
<1>4. Busy(t) /\ \A b \in Extent(job[t].obj) : b \in Blocks
  BY OwnBlock
<1>5. ASSUME NEW b \in Extent(job[t].obj) PROVE Shown(t, b)'
  BY <1>2, <1>3, <1>4 DEF Invisible
<1>6. Control(t)'
  BY <1>2, <1>3
<1> HIDE DEF j
<1> QED
  BY <1>1, <1>2, <1>3, <1>4, <1>5, <1>6, GoesOn DEF Invisible

=============================================================================
