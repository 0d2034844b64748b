----------------------------- MODULE TlhProofs ------------------------------
(***************************************************************************)
(* The inductive invariant of the thread-local heaps, and the steps that   *)
(* keep it: allocation, local and remote frees, and reaping.               *)
(***************************************************************************)
EXTENDS Tlh, SlabProofs

USE ZenonT(40)

----------------------------------------------------------------------------
(* The invariant.                                                          *)

\* The blocks that thread t has `where` form a list from top.
Chain(top, pl, lk, where, t) == ListOf(top, Clears(lk), In(pl, where, t), NULL)

\* Thread t's batch bt and the node nd it wants to add, at pc p.
BatchOK(t, bt, pl, lk, p, old, nd) ==
  /\ Numbered(In(pl, "batch", t), bt.count)
  /\ bt.count = 0 => bt = EmptyBatch
  /\ bt.count # 0 =>
       /\ bt.target_tlh \in Threads \ {t} /\ bt.tail \in In(pl, "batch", t)
       /\ ListOf(bt.head, Clears(lk), In(pl, "batch", t), Clears(lk)[bt.tail])
  /\ p = "flush" => bt.count # 0 /\ old \notin In(pl, "batch", t)
  /\ p # "flush" => nd = NULL /\ (bt.count # 0 => Clears(lk)[bt.tail] = NULL)
  /\ In(pl, "node", t) = {nd} \ {NULL}
  /\ nd # NULL => Clears(lk)[nd] = NULL

\* A thread at pc p is reaping just when it has a list to reap, and wants a
\* class only in an allocation.
LocalsOK(p, hd, k) ==
  /\ p = "reap" <=> hd # NULL
  /\ p = "retry" => k \in Classes
  /\ p \in {"idle", "flush"} => k = NULL

\* A block at `at` is on its way to its owner.
RouteOK(at, owner, bt) ==
  \A t \in Threads : /\ at = <<"batch", t>> => owner = bt[t].target_tlh
                     /\ at \in {<<"mail", t>>, <<"reap", t>>} => owner = t
                     /\ at = <<"node", t>> => owner # t

\* Every list, batch and block outside the slabs is in order.
Roads ==
  /\ \A b \in Blocks : RouteOK(place[b], slab[b[1]].owning_tlh, batch)
  /\ \A t \in Threads :
       /\ BatchOK(t, batch[t], place, link, pc[t], old_head[t], node[t])
       /\ Chain(remote_free_head[t], place, link, "mail", t)
       /\ Chain(head[t], place, link, "reap", t)
       /\ LocalsOK(pc[t], head[t], sc_idx[t])

\* The inductive invariant.
TInv == TypeOK /\ HeapOK(slab, bins, rtree, place, link) /\ Roads

----------------------------------------------------------------------------
(* Steps that leave a list alone.                                          *)

\* The blocks that thread t has `where` before or after the step have not changed.
Same(pl, pm, lk, lm, where, t) ==
  \A b \in Blocks : (pl[b] = <<where, t>> \/ pm[b] = <<where, t>>) => pm[b] = pl[b] /\ lm[b] = lk[b]

\* Blocks that stay where they are with their links form the same set and chain.
LEMMA SameIn ==
  ASSUME NEW pl, NEW pm, NEW lk, NEW lm, NEW where, NEW t, Same(pl, pm, lk, lm, where, t)
  PROVE  /\ In(pm, where, t) = In(pl, where, t)
         /\ \A b \in In(pl, where, t) : Clears(lm)[b] = Clears(lk)[b]
BY DEF Same, In, Clears

\* A list of blocks that stay where they are with their links is the same list.
LEMMA ChainFrame ==
  ASSUME NEW pl, NEW pm, NEW lk, NEW lm, NEW where, NEW t, Same(pl, pm, lk, lm, where, t),
         NEW top, Chain(top, pl, lk, where, t)
  PROVE  Chain(top, pm, lm, where, t)
BY SameIn, ListFrame, SMTT(30) DEF Chain

\* A batch whose blocks stay where they are is as sound as it was.
LEMMA BatchFrame ==
  ASSUME NEW pl, NEW pm, NEW lk, NEW lm, NEW t, Same(pl, pm, lk, lm, "batch", t),
         Same(pl, pm, lk, lm, "node", t), NEW bt, NEW p, NEW q, NEW old, NEW nd,
         BatchOK(t, bt, pl, lk, p, old, nd), p = "flush" <=> q = "flush"
  PROVE  BatchOK(t, bt, pm, lm, q, old, nd)
<1>1. /\ In(pm, "batch", t) = In(pl, "batch", t)
      /\ \A b \in In(pl, "batch", t) : Clears(lm)[b] = Clears(lk)[b]
  BY SameIn, SMTT(30)
<1>2. /\ In(pm, "node", t) = In(pl, "node", t)
      /\ \A b \in In(pl, "node", t) : Clears(lm)[b] = Clears(lk)[b]
  BY SameIn, SMTT(30)
<1>3. ASSUME bt.count # 0
      PROVE  /\ Clears(lm)[bt.tail] = Clears(lk)[bt.tail]
             /\ ListOf(bt.head, Clears(lm), In(pm, "batch", t), Clears(lm)[bt.tail])
  BY <1>1, <1>3, ListFrame DEF BatchOK
<1>4. nd # NULL => Clears(lm)[nd] = Clears(lk)[nd]
  BY <1>2 DEF BatchOK
<1> QED
  BY <1>1, <1>2, <1>3, <1>4 DEF BatchOK

\* What a step of t leaves alone: all lists of blocks on their way, but for
\* blocks of X, which t takes off the list it reaps or which were on none.
Moves(pl, b) == pl[b][1] \in {"batch", "mail", "reap", "node"}

IsLive(pl, b) == pl[b] = <<"live", NULL>>

\* Block b is counted as given out once more.
Handed(b) == given' = [given EXCEPT ![b] = @ + 1]

\* What a step does to the program's view: block b is given out, freed or taken
\* back from its way, or (b = NULL) nothing is.
Effect(b) ==
  /\ Keeps(slab, slab', rtree)
  /\ \A x \in Blocks \ {b} : /\ IsLive(place', x) <=> IsLive(place, x)
                             /\ Moves(place', x) <=> Moves(place, x)
  /\ \/ b \in Blocks /\ Rests(place, b) /\ IsLive(place', b) /\ Handed(b)
     \/ b \in Blocks /\ IsLive(place, b) /\ ~IsLive(place', b) /\ Freed(b)
     \/ b \in Blocks /\ Moves(place, b) /\ Rests(place', b) /\ given' = given
     \/ b = NULL /\ given' = given

\* The counts stay integers.
LEMMA GivenTyped ==
  ASSUME TInv, NEW b \in Blocks, Handed(b) \/ Freed(b)
  PROVE  given' \in [Blocks -> Int]
<1>1. given \in [Blocks -> Int]
  BY DEF TInv, TypeOK
<1>2. given[b] + 1 \in Int /\ given[b] - 1 \in Int
  BY <1>1, SMTT(30)
<1> QED
  BY <1>1, <1>2 DEF Handed, Freed

\* A step at the slabs of heap t that moves at most the blocks of X.
Quiet(t, X) ==
  /\ \A b \in Blocks \ X : Moves(place, b) \/ Moves(place', b) =>
                             place'[b] = place[b] /\ link'[b] = link[b]
  /\ \A b \in X : ~Moves(place', b) /\ (Moves(place, b) => place[b] = <<"reap", t>>)
  /\ \A b \in Blocks : Moves(place', b) => slab'[b[1]].owning_tlh = slab[b[1]].owning_tlh
  /\ UNCHANGED <<remote_free_head, batch, old_head, node>>
  /\ \A u \in Threads \ {t} : head'[u] = head[u]
  /\ \A u \in Threads : /\ pc'[u] = "flush" <=> pc[u] = "flush"
                        /\ LocalsOK(pc'[u], head'[u], sc_idx'[u])

\* A step at the slabs of heap t leaves the batches and mailboxes sound, if the
\* list it reaps is sound.
LEMMA QuietRoads ==
  ASSUME TInv, NEW t \in Threads, NEW X, Quiet(t, X),
         (head'[t] = head[t] /\ \A b \in X : ~Moves(place, b))
           \/ Chain(head'[t], place', link', "reap", t)
  PROVE  Roads'
<1>1. ASSUME NEW u \in Threads, NEW where \in {"batch", "mail", "reap", "node"},
             (where # "reap" \/ u # t) \/ \A b \in X : ~Moves(place, b)
      PROVE  Same(place, place', link, link', where, u)
  BY <1>1, SMTT(30) DEF Same, Quiet, Moves
<1>2. \A b \in Blocks : RouteOK(place'[b], slab'[b[1]].owning_tlh, batch')
  <2>1. ASSUME NEW b \in Blocks, ~Moves(place', b)
        PROVE  RouteOK(place'[b], slab'[b[1]].owning_tlh, batch')
    BY <2>1, SMTT(30) DEF RouteOK, Moves
  <2>2. ASSUME NEW b \in Blocks, Moves(place', b)
        PROVE  RouteOK(place'[b], slab'[b[1]].owning_tlh, batch')
    BY <2>2 DEF Quiet, TInv, Roads
  <2> QED
    BY <2>1, <2>2
<1>3. ASSUME NEW u \in Threads
      PROVE  /\ BatchOK(u, batch'[u], place', link', pc'[u], old_head'[u], node'[u])
             /\ Chain(remote_free_head'[u], place', link', "mail", u)
             /\ Chain(head'[u], place', link', "reap", u)
             /\ LocalsOK(pc'[u], head'[u], sc_idx'[u])
  <2>1. /\ BatchOK(u, batch[u], place, link, pc[u], old_head[u], node[u])
        /\ Chain(remote_free_head[u], place, link, "mail", u)
        /\ Chain(head[u], place, link, "reap", u)
    BY DEF TInv, Roads
  <2>2. /\ batch'[u] = batch[u] /\ old_head'[u] = old_head[u] /\ node'[u] = node[u]
        /\ remote_free_head'[u] = remote_free_head[u]
        /\ pc[u] = "flush" <=> pc'[u] = "flush"
        /\ LocalsOK(pc'[u], head'[u], sc_idx'[u])
    BY DEF Quiet
  <2>3. BatchOK(u, batch[u], place', link', pc'[u], old_head[u], node[u])
    BY <1>1, <2>1, <2>2, BatchFrame
  <2>4. Chain(remote_free_head[u], place', link', "mail", u)
    BY <1>1, <2>1, ChainFrame
  <2>5. Chain(head'[u], place', link', "reap", u)
    <3>1. CASE u = t /\ Chain(head'[t], place', link', "reap", t)
      BY <3>1
    <3>2. CASE u # t \/ ~Chain(head'[t], place', link', "reap", t)
      <4>1. head'[u] = head[u] /\ Same(place, place', link, link', "reap", u)
        BY <1>1, <3>2 DEF Quiet
      <4> QED
        BY <2>1, <4>1, ChainFrame
    <3> QED
      BY <3>1, <3>2
  <2> QED
    BY <2>2, <2>3, <2>4, <2>5
<1> QED
  BY <1>2, <1>3 DEF Roads

----------------------------------------------------------------------------
(* Allocation.                                                             *)

\* What the type invariant says of blocks and of slabs in the tree.
LEMMA Facts ==
  ASSUME TInv
  PROVE  /\ Tidy(place) /\ place \in [Blocks -> Places]
         /\ link \in [Blocks -> [ptr : OptBlocks \cup {WILD}, masked : BOOLEAN]]
         /\ \A b \in Blocks : ~Rests(place, b) => b[1] \in rtree
         /\ rtree \in SUBSET Chunks
         /\ \A t \in Threads : /\ pc[t] \in {"idle", "reap", "retry", "flush"}
                               /\ pc[t] # "reap" => head[t] = NULL
                               /\ pc[t] = "retry" => sc_idx[t] \in Classes
                               /\ pc[t] = "idle" => sc_idx[t] = NULL
<1>1. place \in [Blocks -> Places]
  BY DEF TInv, TypeOK
<1>2. Tidy(place)
  BY <1>1, SMTT(30) DEF Tidy, Places
<1>3. \A b \in Blocks : ~Rests(place, b) => b[1] \in rtree
  BY SMTT(30) DEF TInv, HeapOK, Rests
<1> QED
  BY <1>1, <1>2, <1>3 DEF TInv, TypeOK, Roads, LocalsOK

\* A block at rest is given out: blocks on their way are not touched.
LEMMA HandOutRoads ==
  ASSUME TInv, NEW t \in Threads, pc[t] \in {"idle", "retry"}, NEW v, NEW b \in Blocks,
         Rests(place, b), HandOut(t, v, b), Keeps(slab, slab', rtree)
  PROVE  Roads'
<1>1. \A x \in Blocks \ {b} : place'[x] = place[x] /\ link'[x] = link[x]
  BY Facts DEF HandOut
<1>2. ~Moves(place', b) /\ ~Moves(place, b)
  BY Facts DEF HandOut, Moves, Rests
<1>3. ASSUME NEW x \in Blocks, Moves(place', x)
      PROVE  slab'[x[1]].owning_tlh = slab[x[1]].owning_tlh
  <2>1. x # b /\ Moves(place, x)
    BY <1>1, <1>2, <1>3 DEF Moves
  <2>2. x[1] \in rtree
    BY <2>1, Facts DEF Moves, Rests
  <2> QED
    BY <2>2 DEF Keeps
<1>4. ASSUME NEW u \in Threads
      PROVE  (pc'[u] = "flush" <=> pc[u] = "flush") /\ LocalsOK(pc'[u], head'[u], sc_idx'[u])
  <2>1. CASE u = t
    BY <2>1, Facts DEF HandOut, LocalsOK, TInv, TypeOK
  <2>2. CASE u # t
    BY <2>2 DEF HandOut, TInv, TypeOK, Roads
  <2> QED
    BY <2>1, <2>2
<1>5. UNCHANGED <<remote_free_head, batch, old_head, node, head>>
  BY DEF HandOut
<1>6. Quiet(t, {b})
  BY <1>1, <1>2, <1>3, <1>4, <1>5 DEF Quiet
<1> QED
  BY <1>2, <1>5, <1>6, QuietRoads

\* The invariant after a step that gives out a block.
LEMMA HandOutTypes ==
  ASSUME TInv, NEW t \in Threads, NEW v, NEW b \in Blocks, HandOut(t, v, b),
         HeapOK(slab', bins', rtree', place', link'), Roads'
  PROVE  TInv'
<1>1. /\ slab' \in [Chunks -> SlabType] /\ bins' \in [Threads -> [Classes -> BinType]]
      /\ rtree' \in SUBSET Chunks
  BY DEF HeapOK
<1>2. /\ link' \in [Blocks -> [ptr : OptBlocks \cup {WILD}, masked : BOOLEAN]]
      /\ place' \in [Blocks -> Places]
  BY Facts DEF HandOut, Clear, Places
<1>3. pc' \in [Threads -> {"idle", "reap", "retry", "flush"}] /\ sc_idx' \in [Threads -> Classes \cup {NULL}]
  BY DEF HandOut, TInv, TypeOK
<1>4. given' \in [Blocks -> Int]
  BY GivenTyped DEF HandOut, Handed
<1>5. TypeOK'
  BY <1>1, <1>2, <1>3, <1>4 DEF HandOut, TInv, TypeOK
<1> QED
  BY <1>5 DEF TInv

\* With view v of heap t, slab c is current in class k and the heap is in order.
Ready(v, t, k, c, R) == Serves(slab, bins, rtree, v, t, k, c, R, place, link)

\* The slab an allocation serves from is one of the heap, and sound.
LEMMA ReadySlab ==
  ASSUME TInv, NEW t \in Threads, NEW k \in Classes, NEW v, NEW c, NEW R, Ready(v, t, k, c, R)
  PROVE  /\ c \in R /\ c \in Chunks /\ SlabOK(v.slab[c], c, place, link)
         /\ v.slab \in [Chunks -> SlabType] /\ [bins EXCEPT ![t] = v.bin][t] = v.bin
<1> DEFINE bn == [bins EXCEPT ![t] = v.bin]
<1>1. bn[t] = v.bin
  BY DEF TInv, TypeOK
<1>2. HeapOK(v.slab, bn, R, place, link) /\ v.bin[k].current_slab = c /\ c # NULL
  BY DEF Ready, Serves
<1> HIDE DEF bn
<1>3. /\ MineOf(v.slab, R, t, k) \subseteq R
      /\ BinOK(ViewOf(v.slab, bn[t]), k, MineOf(v.slab, R, t, k))
  BY <1>2, HeapView
<1>4. c \in R
  BY <1>1, <1>2, <1>3 DEF BinOK, ViewOf
<1> QED
  BY <1>1, <1>2, <1>4 DEF HeapOK, bn

\* A block of the current slab, at rest, is given out.
LEMMA GiveStep ==
  ASSUME TInv, NEW t \in Threads, pc[t] \in {"idle", "retry"}, NEW k \in Classes,
         NEW v, NEW c, Ready(v, t, k, c, rtree'), NEW b, Rests(place, b),
         NEW x, HandOut(t, x, b), x.bin = v.bin,
         GivenFrom(v.slab, slab', c, place, place', link, link', b)
  PROVE  TInv' /\ Effect(b)
<1>0. /\ b \in BlocksOf(c) /\ slab' \in [Chunks -> SlabType]
      /\ \A d \in Chunks \ {c} : slab'[d] = v.slab[d]
      /\ Given(v.slab[c], slab'[c], c, place, place', link, link', b)
  BY DEF GivenFrom
<1>1. c \in Chunks /\ [bins EXCEPT ![t] = v.bin][t] = v.bin
  BY ReadySlab
<1>2. PICK sl, bn : sl = v.slab /\ bn = [bins EXCEPT ![t] = v.bin]
  OBVIOUS
<1>3. /\ HeapOK(sl, bn, rtree', place, link) /\ c = bn[t][k].current_slab /\ c # NULL
      /\ bins' = bn /\ GivenFrom(sl, slab', c, place, place', link, link', b)
  BY <1>1, <1>2 DEF Ready, Serves, HandOut
<1>4. b \in Blocks /\ \A y \in Blocks \ {b} : place'[y] = place[y] /\ link'[y] = link[y]
  BY <1>0, Facts DEF HandOut, BlocksOf
<1>5. HeapOK(slab', bn, rtree', place', link')
  BY <1>3, HeapGive, SMTT(30)
<1>6. Keeps(slab, slab', rtree)
  <2>1. Keeps(slab, v.slab, rtree) /\ rtree \subseteq Chunks
    BY Facts DEF Ready, Serves
  <2> QED
    BY <1>0, <2>1 DEF Keeps, Given
<1>7. Roads'
  BY <1>4, <1>6, HandOutRoads
<1>8. TInv'
  BY <1>0, <1>3, <1>4, <1>5, <1>7, HandOutTypes
<1>9. place'[b] = <<"live", NULL>> /\ Handed(b)
  BY <1>4, Facts DEF HandOut, Handed
<1> QED
  BY <1>4, <1>6, <1>8, <1>9 DEF Effect, IsLive, Moves

\* lz_tlh_alloc takes the head of the free list of the current slab.
LEMMA PopStep ==
  ASSUME TInv, NEW t \in Threads, pc[t] \in {"idle", "retry"}, NEW k \in Classes,
         NEW v, NEW c, Ready(v, t, k, c, rtree), v.slab[c].free_list_head # NULL,
         PopFreeList(t, v, c)
  PROVE  TInv' /\ \E b \in OptBlocks : Effect(b)
<1>1. PICK s, b, e, x : /\ s = v.slab[c] /\ b = s.free_list_head /\ e = Deobfuscate(link[b])
                        /\ x = [v EXCEPT !.slab[c].free_list_head = e]
  OBVIOUS
<1>2. c \in Chunks /\ SlabOK(s, c, place, link) /\ v.slab \in [Chunks -> SlabType] /\ v \in ViewType
  <2>1. c \in Chunks /\ SlabOK(v.slab[c], c, place, link) /\ v.slab \in [Chunks -> SlabType]
    BY ReadySlab
  <2> QED
    BY <1>1, <2>1 DEF Ready, Serves
<1>3. HandOut(t, x, b) /\ b # NULL /\ rtree' = rtree
  BY <1>1 DEF PopFreeList
<1>4. b \in FreeOf(c, place) /\ ListOf(Frees(link)[b], Frees(link), FreeOf(c, place) \ {b}, NULL)
  BY <1>1, <1>2, <1>3, ListPop DEF SlabOK
<1>5. /\ b \in BlocksOf(c) /\ b \in Blocks /\ b[1] = c /\ Rests(place, b)
      /\ e = Frees(link)[b] /\ e \in OptBlocks
  <2>1. Frees(link)[b] \in (FreeOf(c, place) \ {b}) \cup {NULL}
    BY <1>4, ListTop, SMTT(30)
  <2>2. /\ b \in BlocksOf(c) /\ place[b] = <<"free", NULL>>
        /\ Frees(link)[b] \in BlocksOf(c) \cup {NULL}
    BY <1>4, <2>1 DEF FreeOf
  <2>3. e = Frees(link)[b]
    BY <1>1, <2>2, SMTT(30) DEF Frees, BlocksOf
  <2> QED
    BY <2>2, <2>3, SMTT(30) DEF BlocksOf, Rests, OptBlocks
<1>6. x.bin = v.bin /\ x.slab = [v.slab EXCEPT ![c].free_list_head = e]
  BY <1>1, <1>2 DEF ViewType
<1>7. slab' = [x.slab EXCEPT ![c].used_objects = @ + 1]
  BY <1>3, <1>5 DEF HandOut
<1>8. Counted(v.slab, slab', c, e, s.bump_ptr)
  <2>1. PICK sl, so : sl = v.slab /\ so = x.slab
    OBVIOUS
  <2>2. /\ sl \in [Chunks -> SlabType] /\ so = [sl EXCEPT ![c].free_list_head = e]
        /\ slab' = [so EXCEPT ![c].used_objects = @ + 1]
    BY <1>2, <1>6, <1>7, <2>1
  <2>3. Counted(sl, slab', c, e, sl[c].bump_ptr)
    BY <1>2, <1>5, <2>2, PoppedData
  <2> QED
    BY <1>1, <2>1, <2>3
<1>9. PICK r : r = slab'[c]
  OBVIOUS
<1>10. /\ slab' \in [Chunks -> SlabType] /\ \A d \in Chunks \ {c} : slab'[d] = v.slab[d]
       /\ r \in SlabType /\ r.owning_tlh = s.owning_tlh /\ r.checksum = s.checksum
       /\ r.size_class = s.size_class /\ r.bump_ptr = s.bump_ptr
       /\ r.free_list_head = e /\ r.used_objects = s.used_objects + 1
  BY <1>1, <1>2, <1>8, <1>9 DEF Counted
<1>11. /\ place'[b] = <<"live", NULL>>
       /\ \A y \in Blocks \ {b} : place'[y] = place[y] /\ link'[y] = link[y]
  BY <1>3, <1>5, Facts DEF HandOut
<1>12. Given(s, r, c, place, place', link, link', b)
  BY <1>10, <1>11 DEF Given, BlocksOf
<1>13. SlabOK(r, c, place', link')
  <2>1. b = s.free_list_head /\ r.bump_ptr = s.bump_ptr /\ r.free_list_head = Frees(link)[b]
    BY <1>1, <1>5, <1>10
  <2> QED
    BY <1>2, <1>3, <1>12, <2>1, PopSlab
<1>14. TInv' /\ Effect(b)
  <2>1. GivenFrom(v.slab, slab', c, place, place', link, link', b)
    BY <1>1, <1>5, <1>9, <1>10, <1>11, <1>12, <1>13 DEF GivenFrom
  <2>2. Ready(v, t, k, c, rtree')
    BY <1>3
  <2> QED
    BY <1>3, <1>5, <1>6, <2>1, <2>2, GiveStep
<1> QED
  BY <1>5, <1>14 DEF OptBlocks

\* lz_tlh_alloc cuts a block at the cursor of the current slab.
LEMMA BumpStep ==
  ASSUME TInv, NEW t \in Threads, pc[t] \in {"idle", "retry"}, NEW k \in Classes,
         NEW v, NEW c, Ready(v, t, k, c, rtree'), v.slab[c].bump_ptr \in 1..max_objects(v.slab[c]),
         Bump(t, v, c)
  PROVE  TInv' /\ \E b \in OptBlocks : Effect(b)
<1>1. PICK s, b, x : /\ s = v.slab[c] /\ b = <<c, s.bump_ptr>>
                     /\ x = [v EXCEPT !.slab[c].bump_ptr = @ + 1]
  OBVIOUS
<1>2. c \in Chunks /\ SlabOK(s, c, place, link) /\ v.slab \in [Chunks -> SlabType] /\ v \in ViewType
  <2>1. c \in Chunks /\ SlabOK(v.slab[c], c, place, link) /\ v.slab \in [Chunks -> SlabType]
    BY ReadySlab
  <2> QED
    BY <1>1, <2>1 DEF Ready, Serves
<1>3. HandOut(t, x, b) /\ s.bump_ptr \in 1..max_objects(s) /\ b[1] = c
  BY <1>1 DEF Bump
<1>4. x.bin = v.bin /\ x.slab = [v.slab EXCEPT ![c].bump_ptr = @ + 1]
  BY <1>1, <1>2 DEF ViewType
<1>5. slab' = [x.slab EXCEPT ![c].used_objects = @ + 1]
  BY <1>3 DEF HandOut
<1>6. Counted(v.slab, slab', c, s.free_list_head, s.bump_ptr + 1)
  <2>1. PICK sl, so : sl = v.slab /\ so = x.slab
    OBVIOUS
  <2>2. /\ sl \in [Chunks -> SlabType] /\ so = [sl EXCEPT ![c].bump_ptr = @ + 1]
        /\ slab' = [so EXCEPT ![c].used_objects = @ + 1]
    BY <1>2, <1>4, <1>5, <2>1
  <2>3. Counted(sl, slab', c, sl[c].free_list_head, sl[c].bump_ptr + 1)
    BY <1>2, <2>2, BumpedData
  <2> QED
    BY <1>1, <2>1, <2>3
<1>7. b \in Blocks
  BY <1>1, <1>2, <1>3 DEF Blocks, Slots, max_objects, SlabOK
<1>8. PICK r : r = slab'[c]
  OBVIOUS
<1>9. /\ slab' \in [Chunks -> SlabType] /\ \A d \in Chunks \ {c} : slab'[d] = v.slab[d]
      /\ r \in SlabType /\ r.owning_tlh = s.owning_tlh /\ r.checksum = s.checksum
      /\ r.size_class = s.size_class /\ r.bump_ptr = s.bump_ptr + 1
      /\ r.free_list_head = s.free_list_head /\ r.used_objects = s.used_objects + 1
  BY <1>1, <1>2, <1>6, <1>8 DEF Counted
<1>10. /\ place'[b] = <<"live", NULL>>
       /\ \A y \in Blocks \ {b} : place'[y] = place[y] /\ link'[y] = link[y]
  BY <1>3, <1>7, Facts DEF HandOut
<1>11. Given(s, r, c, place, place', link, link', b)
  BY <1>9, <1>10 DEF Given, BlocksOf
<1>12. place[b][1] = "raw" /\ SlabOK(r, c, place', link')
  <2>1. /\ b = <<c, s.bump_ptr>> /\ r.bump_ptr = s.bump_ptr + 1
        /\ r.free_list_head = s.free_list_head
    BY <1>1, <1>9
  <2> QED
    BY <1>2, <1>3, <1>11, <2>1, BumpSlab, SMTT(30)
<1>13. b \in BlocksOf(c) /\ Rests(place, b)
  BY <1>3, <1>7, <1>12 DEF BlocksOf, Rests
<1>14. TInv' /\ Effect(b)
  <2>1. GivenFrom(v.slab, slab', c, place, place', link, link', b)
    BY <1>1, <1>8, <1>9, <1>10, <1>11, <1>12, <1>13 DEF GivenFrom
  <2> QED
    BY <1>3, <1>4, <1>13, <2>1, GiveStep
<1> QED
  BY <1>7, <1>14 DEF OptBlocks

\* lz_tlh_alloc, and its retry after a reap, from the current slab.
LEMMA ReadyNow ==
  ASSUME TInv, NEW t \in Threads, NEW k \in Classes, bins[t][k].current_slab # NULL
  PROVE  Ready(View(t), t, k, bins[t][k].current_slab, rtree)
<1>1. View(t) \in ViewType /\ View(t).bin = bins[t] /\ View(t).slab = slab
  BY DEF View, ViewType, TInv, TypeOK
<1>2. [bins EXCEPT ![t] = bins[t]] = bins
  BY DEF TInv, TypeOK
<1>3. Keeps(slab, slab, rtree)
  BY DEF Keeps
<1> QED
  BY <1>1, <1>2, <1>3 DEF Ready, Serves, TInv

\* The allocations that find a block in the current slab, before or after a reap.
LEMMA CurrentStep ==
  ASSUME TInv, NEW t \in Threads,
         (\E k \in Classes : AllocFast(t, k)) \/ AllocFreeList(t) \/ AllocBump(t)
  PROVE  TInv' /\ \E b \in OptBlocks : Effect(b)
<1>1. ASSUME NEW k \in Classes, AllocFast(t, k)
      PROVE  TInv' /\ \E b \in OptBlocks : Effect(b)
  <2>1. PICK c : c = bins[t][k].current_slab
    BY SMTT(30)
  <2>2. c # NULL /\ View(t).slab[c].free_list_head # NULL /\ PopFreeList(t, View(t), c) /\ pc[t] = "idle"
    BY <1>1, <2>1 DEF AllocFast, HasFree, View
  <2>3. Ready(View(t), t, k, c, rtree)
    BY <2>1, <2>2, ReadyNow
  <2> QED
    BY <2>2, <2>3, PopStep
<1>2. CASE AllocFreeList(t)
  <2>1. PICK k, c : k = sc_idx[t] /\ c = bins[t][k].current_slab
    OBVIOUS
  <2>2. /\ c # NULL /\ View(t).slab[c].free_list_head # NULL /\ PopFreeList(t, View(t), c)
        /\ pc[t] = "retry" /\ k \in Classes
    BY <1>2, <2>1, Facts DEF AllocFreeList, HasFree, View
  <2>3. Ready(View(t), t, k, c, rtree)
    BY <2>1, <2>2, ReadyNow
  <2> QED
    BY <2>2, <2>3, PopStep
<1>3. CASE AllocBump(t)
  <2>1. PICK k, c : k = sc_idx[t] /\ c = bins[t][k].current_slab
    OBVIOUS
  <2>2. /\ c # NULL /\ View(t).slab[c].bump_ptr \in 1..max_objects(View(t).slab[c])
        /\ Bump(t, View(t), c) /\ rtree' = rtree /\ pc[t] = "retry" /\ k \in Classes
    BY <1>3, <2>1, Facts DEF AllocBump, CanBump, View
  <2>3. Ready(View(t), t, k, c, rtree')
    BY <2>1, <2>2, ReadyNow
  <2> QED
    BY <2>2, <2>3, BumpStep
<1> QED
  BY <1>1, <1>2, <1>3

\* The cursor of the exhausted slab is cleared.
LEMMA SpentNow ==
  ASSUME TInv, NEW t \in Threads, Exhausted(t), NEW v, v = ExhaustedView(t)
  PROVE  /\ sc_idx[t] \in Classes /\ v = ViewOf(v.slab, bins[t])
         /\ HeapOK(v.slab, bins, rtree, place, link)
         /\ Spent(v, sc_idx[t]) /\ Keeps(slab, v.slab, rtree)
<1>1. PICK k, c : k = sc_idx[t] /\ c = bins[t][k].current_slab
  BY SMTT(30)
<1>2. PICK sm : sm = Cleared(slab, c)
  BY SMTT(30)
<1>3. k \in Classes
  BY <1>1, Facts DEF Exhausted
<1>4. HasNothing(slab, c)
  BY <1>1 DEF Exhausted, HasFree, CanBump, HasNothing
<1>5. v = ViewOf(sm, bins[t]) /\ v.slab = sm
  BY <1>1, <1>2 DEF ExhaustedView, View, ViewOf, Cleared
<1>6. /\ HeapOK(sm, bins, rtree, place, link) /\ Spent(ViewOf(sm, bins[t]), k)
      /\ Keeps(slab, sm, rtree)
  <2>1. HeapOK(slab, bins, rtree, place, link) /\ Tidy(place) /\ c = bins[t][k].current_slab
    BY <1>1, Facts DEF TInv
  <2> QED
    BY <1>2, <1>3, <1>4, <2>1, HeapSpend
<1> QED
  BY <1>1, <1>3, <1>5, <1>6

\* Owners and classes that two steps keep are kept by both.
LEMMA KeepsTwice ==
  ASSUME NEW sl, NEW sm, NEW sn, NEW R, Keeps(sl, sm, R), Keeps(sm, sn, R)
  PROVE  Keeps(sl, sn, R)
BY DEF Keeps

\* A slab made ready after the spent cursor was cleared is ready.
LEMMA ReadyAfter ==
  ASSUME NEW v, NEW w, NEW t, NEW k, NEW c, NEW R, Keeps(slab, v.slab, rtree),
         Serves(v.slab, bins, rtree, w, t, k, c, R, place, link)
  PROVE  Ready(w, t, k, c, R)
BY KeepsTwice DEF Ready, Serves

\* A partial slab, or a new one, takes its place.
LEMMA PartialStep ==
  ASSUME TInv, NEW t \in Threads, AllocPartial(t)
  PROVE  TInv' /\ \E b \in OptBlocks : Effect(b)
<1>1. PICK k, c, v, w : /\ k = sc_idx[t] /\ c = bins[t][k].partial_list /\ v = ExhaustedView(t)
                        /\ w = Promoted(v, k)
  BY SMTT(30)
<1>2. Exhausted(t) /\ c # NULL /\ pc[t] = "retry"
  BY <1>1 DEF AllocPartial, Exhausted
<1>3. /\ k \in Classes /\ v = ViewOf(v.slab, bins[t]) /\ HeapOK(v.slab, bins, rtree, place, link)
      /\ Spent(v, k) /\ Keeps(slab, v.slab, rtree)
  BY <1>1, <1>2, SpentNow
<1>4. PopFreeList(t, w, c)
  BY <1>1, <1>3, SMTT(30) DEF AllocPartial, Promoted, ViewOf
<1>5. Serves(v.slab, bins, rtree, w, t, k, c, rtree, place, link) /\ w.slab[c].free_list_head # NULL
  <2>1. PICK sl : sl = v.slab
    OBVIOUS
  <2>2. /\ HeapOK(sl, bins, rtree, place, link) /\ v = ViewOf(sl, bins[t]) /\ Spent(v, k)
        /\ Tidy(place)
    BY <1>3, <2>1, Facts
  <2>3. Serves(sl, bins, rtree, w, t, k, c, rtree, place, link) /\ w.slab[c].free_list_head # NULL
    <3>1. k \in Classes /\ c = bins[t][k].partial_list /\ c # NULL /\ w = Promoted(v, k)
      BY <1>1, <1>2, <1>3
    <3> QED
      BY <2>2, <3>1, HeapPromote
  <2> QED
    BY <2>1, <2>3
<1>6. Ready(w, t, k, c, rtree)
  BY <1>3, <1>5, ReadyAfter
<1> QED
  BY <1>2, <1>3, <1>4, <1>5, <1>6, PopStep

\* lz_tlh_alloc with no partial slab: a new slab gives its first block.
LEMMA NewSlabStep ==
  ASSUME TInv, NEW t \in Threads, AllocNewSlab(t)
  PROVE  TInv' /\ \E b \in OptBlocks : Effect(b)
<1>1. PICK k, v : k = sc_idx[t] /\ v = ExhaustedView(t)
  BY SMTT(30)
<1>2. Exhausted(t) /\ pc[t] = "retry"
  BY DEF AllocNewSlab, Exhausted
<1>3. /\ k \in Classes /\ v = ViewOf(v.slab, bins[t]) /\ HeapOK(v.slab, bins, rtree, place, link)
      /\ Spent(v, k) /\ Keeps(slab, v.slab, rtree)
  BY <1>1, <1>2, SpentNow
<1>4. PICK c \in Chunks \ rtree : Bump(t, Renewed(v, t, k, c), c) /\ rtree' = rtree \cup {c}
  BY <1>1, <1>3, SMTT(30) DEF AllocNewSlab, Renewed, ViewOf
<1>5. PICK w : w = Renewed(v, t, k, c)
  OBVIOUS
<1>6. /\ Serves(v.slab, bins, rtree, w, t, k, c, rtree \cup {c}, place, link)
      /\ w.slab[c] = NewSlab(t, k)
  <2>1. PICK sl : sl = v.slab
    OBVIOUS
  <2>2. HeapOK(sl, bins, rtree, place, link) /\ v = ViewOf(sl, bins[t]) /\ Spent(v, k)
    BY <1>3, <2>1
  <2>3. /\ Serves(sl, bins, rtree, w, t, k, c, rtree \cup {c}, place, link)
        /\ w.slab[c] = NewSlab(t, k)
    <3>1. k \in Classes /\ c \in Chunks \ rtree /\ w = Renewed(v, t, k, c)
      BY <1>3, <1>5
    <3> QED
      BY <2>2, <3>1, HeapAdd, SMTT(30)
  <2> QED
    BY <2>1, <2>3
<1>7. w.slab[c].bump_ptr \in 1..max_objects(w.slab[c])
  BY <1>3, <1>6, SlabsAssumption, SMTT(30) DEF NewSlab, max_objects
<1>8. Ready(w, t, k, c, rtree')
  BY <1>3, <1>4, <1>6, ReadyAfter
<1> QED
  BY <1>2, <1>3, <1>4, <1>5, <1>7, <1>8, BumpStep

\* There is no chunk.
LEMMA FailStep ==
  ASSUME TInv, NEW t \in Threads, AllocFails(t)
  PROVE  TInv' /\ Effect(NULL)
<1>1. PICK v : v = ExhaustedView(t)
  BY SMTT(30)
<1>2. HeapOK(v.slab, bins, rtree, place, link) /\ Keeps(slab, v.slab, rtree)
  BY <1>1, SpentNow DEF AllocFails
<1>3. /\ slab' = v.slab /\ pc[t] = "retry" /\ pc' = [pc EXCEPT ![t] = "idle"]
      /\ sc_idx' = [sc_idx EXCEPT ![t] = NULL]
      /\ UNCHANGED <<bins, rtree, link, remote_free_head, batch, head, old_head, node, place, given>>
  BY <1>1 DEF AllocFails, Exhausted
<1>4. HeapOK(slab', bins', rtree', place', link') /\ slab' \in [Chunks -> SlabType]
  BY <1>2, <1>3 DEF HeapOK
<1>5. TypeOK'
  BY <1>3, <1>4 DEF TInv, TypeOK
<1>6. \A b \in Blocks : Moves(place, b) => slab'[b[1]].owning_tlh = slab[b[1]].owning_tlh
  BY <1>2, <1>3, Facts DEF Keeps, Moves, Rests
<1>7. ASSUME NEW u \in Threads
      PROVE  (pc'[u] = "flush" <=> pc[u] = "flush") /\ LocalsOK(pc'[u], head'[u], sc_idx'[u])
  <2>1. CASE u = t
    BY <1>3, <2>1, Facts DEF LocalsOK, TInv, TypeOK
  <2>2. CASE u # t
    BY <1>3, <2>2 DEF TInv, TypeOK, Roads
  <2> QED
    BY <2>1, <2>2
<1>8. Quiet(t, {}) /\ head'[t] = head[t]
  BY <1>3, <1>6, <1>7 DEF Quiet
<1>9. Roads'
  BY <1>8, QuietRoads
<1>10. Effect(NULL)
  BY <1>2, <1>3 DEF Effect
<1> QED
  BY <1>4, <1>5, <1>9, <1>10 DEF TInv

----------------------------------------------------------------------------
(* A block comes back to its slab.                                         *)

\* lz_tlh_free and lz_tlh_reap return a block to its slab: the heap is sound after
\* it, the block is at rest, and no block on its way to an owner is touched.
LEMMA ReturnStep ==
  ASSUME TInv, NEW t \in Threads, NEW b \in Blocks, ~Rests(place, b),
         slab[b[1]].owning_tlh = t, ReturnBlock(t, b),
         (IsLive(place, b) /\ Freed(b)) \/ (Moves(place, b) /\ given' = given)
  PROVE  /\ HeapOK(slab', bins', rtree', place', link')
         /\ place' \in [Blocks -> Places]
         /\ link' \in [Blocks -> [ptr : OptBlocks \cup {WILD}, masked : BOOLEAN]]
         /\ \A x \in Blocks \ {b} : Moves(place, x) \/ Moves(place', x) =>
                                      place'[x] = place[x] /\ link'[x] = link[x]
         /\ ~Moves(place', b) /\ Effect(b)
         /\ \A x \in Blocks : Moves(place', x) => slab'[x[1]].owning_tlh = slab[x[1]].owning_tlh
<1>1. PICK w, old : w = FreeToSlab(ViewOf(slab, bins[t]), b) /\ old = slab[b[1]].free_list_head
  OBVIOUS
<1>2. View(t) = ViewOf(slab, bins[t])
  BY DEF View, ViewOf
<1>3. /\ slab' = w.slab /\ bins' = [bins EXCEPT ![t] = w.bin] /\ rtree' = rtree \ w.gone
      /\ place' = [x \in Blocks |->
                     IF x # b /\ place[x] # <<"free", NULL>> THEN place[x]
                     ELSE IF x[1] \in w.gone THEN <<"raw", NULL>>
                     ELSE IF x = b THEN <<"free", NULL>> ELSE place[x]]
      /\ link' = [link EXCEPT ![b] = Obfuscate(old)]
  BY <1>1, <1>2 DEF ReturnBlock
<1>4. BackIn(place, place', link, link', b, slab[b[1]].free_list_head, w.gone)
  BY <1>1, <1>3, Facts DEF BackIn
<1>5. /\ w \in ViewType /\ Keeps(slab, w.slab, rtree)
      /\ HeapOK(w.slab, [bins EXCEPT ![t] = w.bin], rtree \ w.gone, place', link')
  <2>1. HeapOK(slab, bins, rtree, place, link) /\ Tidy(place)
    BY Facts DEF TInv
  <2> QED
    BY <1>1, <1>4, <2>1, HeapReturn
<1>6. old \in OptBlocks
  BY <1>1 DEF TInv, TypeOK, SlabType, Blocks
<1>7. place' \in [Blocks -> Places]
  BY <1>3, Facts DEF Places
<1>8. link' \in [Blocks -> [ptr : OptBlocks \cup {WILD}, masked : BOOLEAN]]
  BY <1>3, <1>6, Facts DEF Obfuscate
<1>9. \A x \in Blocks \ {b} : Moves(place, x) \/ Moves(place', x) =>
                                place'[x] = place[x] /\ link'[x] = link[x]
  BY <1>3, Facts, SMTT(30) DEF Moves
<1>10. ~Moves(place', b)
  BY <1>3 DEF Moves
<1>11. ASSUME NEW x \in Blocks, Moves(place', x)
       PROVE  slab'[x[1]].owning_tlh = slab[x[1]].owning_tlh
  <2>1. Moves(place, x)
    BY <1>9, <1>10, <1>11 DEF Moves
  <2>2. x[1] \in rtree
    BY <2>1, Facts DEF Moves, Rests
  <2> QED
    BY <1>3, <1>5, <2>2 DEF Keeps
<1>12. Rests(place', b) /\ (Moves(place, b) \/ IsLive(place, b)) /\ ~IsLive(place', b)
  <2>1. place[b] \in Places
    BY Facts
  <2> QED
    BY <1>3, <2>1, SMTT(30) DEF Rests, Moves, IsLive, Places
<1>13. \A x \in Blocks \ {b} : IsLive(place', x) <=> IsLive(place, x)
  BY <1>3, Facts, SMTT(30) DEF IsLive
<1>14. Effect(b)
  BY <1>3, <1>5, <1>9, <1>12, <1>13 DEF Effect, Moves
<1> QED
  BY <1>3, <1>5, <1>7, <1>8, <1>9, <1>10, <1>11, <1>14

\* lz_tlh_free of a block of the calling thread's heap.
LEMMA LocalStep ==
  ASSUME TInv, NEW t \in Threads, NEW b \in Blocks, FreeLocal(t, b)
  PROVE  TInv' /\ Effect(b)
<1>1. /\ place[b] = <<"live", NULL>> /\ slab[b[1]].owning_tlh = t /\ ReturnBlock(t, b)
      /\ Freed(b) /\ IsLive(place, b)
      /\ UNCHANGED <<remote_free_head, batch, pc, sc_idx, head, old_head, node>>
  BY DEF FreeLocal, Freeable, locals, IsLive
<1>2. ~Rests(place, b) /\ ~Moves(place, b)
  BY <1>1, SMTT(30) DEF Rests, Moves
<1>3. /\ HeapOK(slab', bins', rtree', place', link')
      /\ place' \in [Blocks -> Places]
      /\ link' \in [Blocks -> [ptr : OptBlocks \cup {WILD}, masked : BOOLEAN]]
      /\ \A x \in Blocks \ {b} : Moves(place, x) \/ Moves(place', x) =>
                                   place'[x] = place[x] /\ link'[x] = link[x]
      /\ ~Moves(place', b) /\ Effect(b)
      /\ \A x \in Blocks : Moves(place', x) => slab'[x[1]].owning_tlh = slab[x[1]].owning_tlh
  BY <1>1, <1>2, ReturnStep
<1>4. \A u \in Threads : LocalsOK(pc'[u], head'[u], sc_idx'[u])
  BY <1>1 DEF TInv, Roads
<1>5. Quiet(t, {b}) /\ head'[t] = head[t]
  BY <1>1, <1>2, <1>3, <1>4 DEF Quiet
<1>6. Roads'
  BY <1>2, <1>5, QuietRoads
<1>7. TypeOK'
  BY <1>1, <1>3, GivenTyped DEF TInv, TypeOK, HeapOK
<1> QED
  BY <1>3, <1>6, <1>7 DEF TInv

\* One turn of the loop of lz_tlh_reap, which frees a block of the list it took.
LEMMA ReapStep ==
  ASSUME TInv, NEW t \in Threads, ReapNode(t)
  PROVE  TInv' /\ \E b \in OptBlocks : Effect(b)
<1>1. PICK b, h : b = head[t] /\ h = Clears(link)[b]
  OBVIOUS
<1>2. /\ pc[t] = "reap" /\ ReturnBlock(t, b) /\ b # NULL
      /\ UNCHANGED <<remote_free_head, batch, sc_idx, old_head, node, given>>
  BY <1>1 DEF ReapNode, TInv, Roads, LocalsOK
<1>3. b \in In(place, "reap", t) /\ ListOf(h, Clears(link), In(place, "reap", t) \ {b}, NULL)
  BY <1>1, <1>2, ListPop DEF TInv, Roads, Chain
<1>4. /\ b \in Blocks /\ place[b] = <<"reap", t>> /\ ~Rests(place, b) /\ h \in OptBlocks
      /\ Moves(place, b)
  <2>1. h \in (In(place, "reap", t) \ {b}) \cup {NULL}
    BY <1>3, ListTop, SMTT(30)
  <2> QED
    BY <1>3, <2>1, SMTT(30) DEF In, Rests, Moves, OptBlocks
<1>5. slab[b[1]].owning_tlh = t
  BY <1>4 DEF TInv, Roads, RouteOK
<1>6. /\ HeapOK(slab', bins', rtree', place', link')
      /\ place' \in [Blocks -> Places]
      /\ link' \in [Blocks -> [ptr : OptBlocks \cup {WILD}, masked : BOOLEAN]]
      /\ \A x \in Blocks \ {b} : Moves(place, x) \/ Moves(place', x) =>
                                   place'[x] = place[x] /\ link'[x] = link[x]
      /\ ~Moves(place', b) /\ Effect(b)
      /\ \A x \in Blocks : Moves(place', x) => slab'[x[1]].owning_tlh = slab[x[1]].owning_tlh
  BY <1>2, <1>4, <1>5, ReturnStep
<1>7. /\ head' = [head EXCEPT ![t] = h]
      /\ pc' = [pc EXCEPT ![t] = IF h # NULL THEN "reap" ELSE IF sc_idx[t] = NULL THEN "idle" ELSE "retry"]
  BY <1>1, <1>4 DEF ReapNode, ReapFrom, Clears
<1>8. TypeOK'
  <2>1. head' \in [Threads -> OptBlocks] /\ pc' \in [Threads -> {"idle", "reap", "retry", "flush"}]
    BY <1>4, <1>7 DEF TInv, TypeOK
  <2> QED
    BY <1>2, <1>6, <2>1 DEF TInv, TypeOK, HeapOK
<1>9. ASSUME NEW u \in Threads
      PROVE  (pc'[u] = "flush" <=> pc[u] = "flush") /\ LocalsOK(pc'[u], head'[u], sc_idx'[u])
  <2>1. CASE u = t
    BY <1>2, <1>7, <2>1 DEF LocalsOK, TInv, TypeOK
  <2>2. CASE u # t
    BY <1>2, <1>7, <2>2 DEF TInv, TypeOK, Roads
  <2> QED
    BY <2>1, <2>2
<1>10. \A u \in Threads \ {t} : head'[u] = head[u]
  BY <1>7 DEF TInv, TypeOK
<1>11. Quiet(t, {b})
  BY <1>2, <1>4, <1>6, <1>9, <1>10 DEF Quiet
<1>12. Chain(head'[t], place', link', "reap", t)
  <2>1. /\ In(place', "reap", t) = In(place, "reap", t) \ {b}
        /\ \A x \in In(place', "reap", t) : Clears(link')[x] = Clears(link)[x]
    BY <1>4, <1>6, SMTT(30) DEF In, Moves, Clears
  <2>2. head'[t] = h
    BY <1>7 DEF TInv, TypeOK
  <2> QED
    BY <1>3, <2>1, <2>2, ListFrame DEF Chain
<1>13. Roads'
  BY <1>11, <1>12, QuietRoads
<1> QED
  BY <1>4, <1>6, <1>8, <1>13 DEF TInv, OptBlocks

----------------------------------------------------------------------------
(* Remote frees: batches and mailboxes.                                    *)

\* Only the empty set has no elements.
LEMMA NumberedZero ==
  ASSUME NEW S, Numbered(S, 0)
  PROVE  S = {}
BY SMTT(30) DEF Numbered

\* An empty batch holds nothing, and the tail of another is one of its blocks.
LEMMA BatchEmpty ==
  ASSUME NEW t, NEW bt, NEW pl, NEW lk, NEW p, NEW old, NEW nd,
         BatchOK(t, bt, pl, lk, p, old, nd)
  PROVE  /\ bt.count = 0 => In(pl, "batch", t) = {} /\ bt = EmptyBatch
         /\ bt.count # 0 => bt.tail \in In(pl, "batch", t)
BY NumberedZero DEF BatchOK

\* A node is added to a batch that is not being flushed.
LEMMA BatchAdd ==
  ASSUME NEW t, NEW bt, NEW pl, NEW pm, NEW lk, NEW lm, NEW p, NEW old, NEW nd,
         p # "flush", BatchOK(t, bt, pl, lk, p, old, nd), bt.count \in Nat,
         NEW b \in Blocks, b \notin In(pl, "batch", t), In(pm, "batch", t) = In(pl, "batch", t) \cup {b},
         In(pm, "node", t) = {},
         Clears(lm)[b] = bt.head, \A x \in In(pl, "batch", t) : Clears(lm)[x] = Clears(lk)[x],
         NEW o \in Threads \ {t}, NEW be, be = Enqueue(bt, o, b)
  PROVE  BatchOK(t, be, pm, lm, p, old, NULL)
<1>1. /\ be.count = bt.count + 1 /\ be.head = b /\ be.target_tlh = o
      /\ be.tail = IF bt.count = 0 THEN b ELSE bt.tail
  BY DEF Enqueue
<1>2. Numbered(In(pm, "batch", t), be.count) /\ be.count # 0
  BY <1>1, NumberedAdd, SMTT(30) DEF BatchOK
<1>3. ListOf(bt.head, Clears(lk), In(pl, "batch", t), NULL)
  <2>1. CASE bt.count = 0
    <3>1. In(pl, "batch", t) = {} /\ bt.head = NULL
      BY <2>1, BatchEmpty, SMTT(30) DEF EmptyBatch
    <3> QED
      BY <3>1, ListEmpty, SMTT(30)
  <2>2. CASE bt.count # 0
    BY <2>2 DEF BatchOK
  <2> QED
    BY <2>1, <2>2
<1>4. b # NULL
  BY SlabsAssumption
<1>5. ListOf(b, Clears(lm), In(pl, "batch", t) \cup {b}, NULL)
  BY <1>3, <1>4, ListPush
<1>6. be.tail \in In(pm, "batch", t) /\ Clears(lm)[be.tail] = NULL
  <2>1. CASE bt.count = 0
    <3>1. bt.head = NULL
      BY <2>1, BatchEmpty, SMTT(30) DEF EmptyBatch
    <3> QED
      BY <1>1, <2>1, <3>1
  <2>2. CASE bt.count # 0
    BY <1>1, <2>2 DEF BatchOK
  <2> QED
    BY <2>1, <2>2
<1> QED
  BY <1>1, <1>2, <1>5, <1>6 DEF BatchOK

\* A flush begins, perhaps with a node to be added after it.
LEMMA BatchFlush ==
  ASSUME NEW t, NEW bt, NEW pl, NEW pm, NEW lk, NEW lm, NEW p, NEW old, NEW nd,
         BatchOK(t, bt, pl, lk, p, old, nd), bt.count # 0,
         Same(pl, pm, lk, lm, "batch", t), NEW ne, In(pm, "node", t) = {ne} \ {NULL},
         ne # NULL => Clears(lm)[ne] = NULL, NEW oe, oe \notin In(pl, "batch", t)
  PROVE  BatchOK(t, bt, pm, lm, "flush", oe, ne)
<1>1. /\ In(pm, "batch", t) = In(pl, "batch", t)
      /\ \A b \in In(pl, "batch", t) : Clears(lm)[b] = Clears(lk)[b]
  BY SameIn, SMTT(30)
<1>2. ListOf(bt.head, Clears(lm), In(pl, "batch", t), Clears(lk)[bt.tail])
  BY ListFrame, <1>1, SMTT(30) DEF BatchOK
<1> QED
  BY <1>1, <1>2 DEF BatchOK

\* The tail of a batch in a flush is linked to the head that was read.
LEMMA BatchTail ==
  ASSUME NEW t, NEW bt, NEW pl, NEW lk, NEW lm, NEW old, NEW nd,
         BatchOK(t, bt, pl, lk, "flush", old, nd),
         Clears(lm)[bt.tail] = old, \A x \in Blocks \ {bt.tail} : lm[x] = lk[x],
         NEW oe, oe \notin In(pl, "batch", t)
  PROVE  /\ BatchOK(t, bt, pl, lm, "flush", oe, nd)
         /\ ListOf(bt.head, Clears(lm), In(pl, "batch", t), old)
<1>1. /\ bt.tail \in In(pl, "batch", t) /\ old \notin In(pl, "batch", t) /\ bt.count # 0
      /\ ListOf(bt.head, Clears(lk), In(pl, "batch", t), Clears(lk)[bt.tail])
  BY DEF BatchOK
<1>2. \A x \in Blocks \ {bt.tail} : Clears(lm)[x] = Clears(lk)[x]
  BY DEF Clears
<1>3. ListOf(bt.head, Clears(lm), In(pl, "batch", t), old)
  <2>1. \A x \in In(pl, "batch", t) \ {bt.tail} : Clears(lm)[x] = Clears(lk)[x]
    BY <1>2 DEF In
  <2> QED
    BY <1>1, <2>1, ListEnd, SMTT(30)
<1>4. nd # NULL => Clears(lm)[nd] = NULL
  <2>1. nd # NULL => nd \in In(pl, "node", t) /\ Clears(lk)[nd] = NULL
    BY DEF BatchOK
  <2>2. nd # NULL => nd \in Blocks \ {bt.tail}
    BY <1>1, <2>1, SMTT(30) DEF In
  <2> QED
    BY <1>2, <2>1, <2>2
<1> QED
  BY <1>1, <1>3, <1>4 DEF BatchOK

\* What the threads other than t have of their own, and the heaps, stay as they are.
Others(t) ==
  /\ UNCHANGED heap
  /\ \A b \in Blocks : (place'[b] = place[b] /\ link'[b] = link[b])
                         \/ ~(Rests(place', b) \/ Rests(place, b))
  /\ \A u \in Threads \ {t} :
       /\ Same(place, place', link, link', "batch", u) /\ Same(place, place', link, link', "node", u)
       /\ Same(place, place', link, link', "reap", u)
       /\ batch'[u] = batch[u] /\ pc'[u] = pc[u] /\ old_head'[u] = old_head[u]
       /\ node'[u] = node[u] /\ head'[u] = head[u] /\ sc_idx'[u] = sc_idx[u]

\* A step that leaves the slabs and the other threads' batches and lists alone
\* keeps the invariant if what it changes is sound.
LEMMA OthersKeep ==
  ASSUME TInv, NEW t \in Threads, Others(t), TypeOK',
         \A b \in Blocks : RouteOK(place'[b], slab[b[1]].owning_tlh, batch'),
         \A u \in Threads : Chain(remote_free_head'[u], place', link', "mail", u),
         BatchOK(t, batch'[t], place', link', pc'[t], old_head'[t], node'[t]),
         Chain(head'[t], place', link', "reap", t),
         LocalsOK(pc'[t], head'[t], sc_idx'[t])
  PROVE  TInv'
<1>1. HeapOK(slab, bins, rtree, place', link')
  BY HeapStill DEF TInv, Others
<1>2. ASSUME NEW u \in Threads
      PROVE  /\ BatchOK(u, batch'[u], place', link', pc'[u], old_head'[u], node'[u])
             /\ Chain(head'[u], place', link', "reap", u)
             /\ LocalsOK(pc'[u], head'[u], sc_idx'[u])
  <2>1. CASE u = t
    BY <2>1
  <2>2. CASE u # t
    <3>1. /\ Same(place, place', link, link', "batch", u) /\ Same(place, place', link, link', "node", u)
          /\ Same(place, place', link, link', "reap", u)
          /\ batch'[u] = batch[u] /\ pc'[u] = pc[u] /\ old_head'[u] = old_head[u]
          /\ node'[u] = node[u] /\ head'[u] = head[u] /\ sc_idx'[u] = sc_idx[u]
      BY <2>2 DEF Others
    <3>2. /\ BatchOK(u, batch[u], place, link, pc[u], old_head[u], node[u])
          /\ Chain(head[u], place, link, "reap", u) /\ LocalsOK(pc[u], head[u], sc_idx[u])
      BY DEF TInv, Roads
    <3>3. BatchOK(u, batch[u], place', link', pc[u], old_head[u], node[u])
      BY <3>1, <3>2, BatchFrame
    <3>4. Chain(head[u], place', link', "reap", u)
      BY <3>1, <3>2, ChainFrame
    <3> QED
      BY <3>1, <3>2, <3>3, <3>4
  <2> QED
    BY <2>1, <2>2
<1>3. UNCHANGED <<slab, bins, rtree>>
  BY DEF Others, heap
<1>4. Roads'
  BY <1>2, <1>3 DEF Roads
<1> QED
  BY <1>1, <1>3, <1>4 DEF TInv

\* What the invariant says of thread t and its heap.
LEMMA Own ==
  ASSUME TInv, NEW t \in Threads
  PROVE  /\ BatchOK(t, batch[t], place, link, pc[t], old_head[t], node[t])
         /\ Chain(remote_free_head[t], place, link, "mail", t)
         /\ Chain(head[t], place, link, "reap", t)
         /\ LocalsOK(pc[t], head[t], sc_idx[t])
         /\ batch[t].count \in 0..LZ_BATCH_MAX_SIZE /\ batch[t].count \in Nat
         /\ remote_free_head[t] \in In(place, "mail", t) \cup {NULL}
<1>1. Chain(remote_free_head[t], place, link, "mail", t)
  BY DEF TInv, Roads
<1>2. remote_free_head[t] \in In(place, "mail", t) \cup {NULL}
  BY <1>1, ListTop DEF Chain
<1>3. batch[t].count \in 0..LZ_BATCH_MAX_SIZE
  BY DEF TInv, TypeOK
<1>4. batch[t].count \in Nat
  BY <1>3, TlhAssumption, SMTT(30)
<1>5. /\ BatchOK(t, batch[t], place, link, pc[t], old_head[t], node[t])
      /\ Chain(head[t], place, link, "reap", t)
      /\ LocalsOK(pc[t], head[t], sc_idx[t])
  BY DEF TInv, Roads
<1> QED
  BY <1>1, <1>2, <1>3, <1>4, <1>5

\* A block that has been given out belongs to a slab with an owner.
LEMMA Owner ==
  ASSUME TInv, NEW b \in Blocks, ~Rests(place, b)
  PROVE  slab[b[1]].owning_tlh \in Threads
<1>1. b[1] \in rtree
  BY Facts
<1> QED
  BY <1>1 DEF TInv, HeapOK, SlabOK
============================================================================
