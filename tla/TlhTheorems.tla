----------------------------- MODULE TlhTheorems ----------------------------
(***************************************************************************)
(* For any number of threads, size classes and chunks, any capacity of the *)
(* slabs and of the outgoing batch: the lists of slabs and of blocks are   *)
(* exact, every block is backed, and the thread-local heaps implement      *)
(* BlockHeap.                                                              *)
(***************************************************************************)
EXTENDS TlhProofs

USE ZenonT(40)

\* lz_tlh_reap takes the mailbox.
LEMMA ExchangeStep ==
  ASSUME TInv, NEW t \in Threads, pc[t] = "idle", NEW k \in Classes \cup {NULL}, Exchange(t, k)
  PROVE  TInv'
<1>1. /\ head' = [head EXCEPT ![t] = remote_free_head[t]]
      /\ pc' = [pc EXCEPT ![t] = IF remote_free_head[t] # NULL THEN "reap"
                                 ELSE IF k = NULL THEN "idle" ELSE "retry"]
      /\ sc_idx' = [sc_idx EXCEPT ![t] = k]
      /\ remote_free_head' = [remote_free_head EXCEPT ![t] = NULL]
      /\ place' = [b \in Blocks |-> IF place[b] = <<"mail", t>> THEN <<"reap", t>> ELSE place[b]]
      /\ UNCHANGED <<slab, bins, rtree, link, batch, old_head, node, given>>
  BY DEF Exchange, ReapFrom, heap
<1>2. head[t] = NULL /\ In(place, "reap", t) = {}
  BY Own, Facts, ListNull DEF Chain
<1>3. TypeOK'
  <2>1. /\ head' \in [Threads -> OptBlocks] /\ sc_idx' \in [Threads -> Classes \cup {NULL}]
        /\ pc' \in [Threads -> {"idle", "reap", "retry", "flush"}]
        /\ remote_free_head' \in [Threads -> OptBlocks]
    BY <1>1 DEF TInv, TypeOK, OptBlocks
  <2>2. place' \in [Blocks -> Places]
    BY <1>1, Facts DEF Places
  <2> QED
    BY <1>1, <2>1, <2>2 DEF TInv, TypeOK
<1>4. \A b \in Blocks : /\ place'[b] = IF place[b] = <<"mail", t>> THEN <<"reap", t>> ELSE place[b]
                        /\ link'[b] = link[b]
  BY <1>1
<1>5. ASSUME NEW u \in Threads
      PROVE  /\ Same(place, place', link, link', "batch", u)
             /\ Same(place, place', link, link', "node", u)
             /\ u # t => Same(place, place', link, link', "reap", u)
                         /\ Same(place, place', link, link', "mail", u)
  BY <1>4, SMTT(30) DEF Same
<1>6. Others(t)
  <2>1. \A u \in Threads \ {t} :
          /\ batch'[u] = batch[u] /\ pc'[u] = pc[u] /\ old_head'[u] = old_head[u]
          /\ node'[u] = node[u] /\ head'[u] = head[u] /\ sc_idx'[u] = sc_idx[u]
    BY <1>1 DEF TInv, TypeOK
  <2>2. \A b \in Blocks : (place'[b] = place[b] /\ link'[b] = link[b])
                            \/ ~(Rests(place', b) \/ Rests(place, b))
    BY <1>4, SMTT(30) DEF Rests
  <2> QED
    BY <1>1, <1>5, <2>1, <2>2 DEF Others, heap
<1>7. ASSUME NEW b \in Blocks
      PROVE  RouteOK(place'[b], slab[b[1]].owning_tlh, batch')
  <2>1. RouteOK(place[b], slab[b[1]].owning_tlh, batch)
    BY DEF TInv, Roads
  <2> QED
    BY <1>1, <1>4, <2>1 DEF RouteOK
<1>8. /\ In(place', "mail", t) = {} /\ In(place', "reap", t) = In(place, "mail", t)
      /\ Clears(link') = Clears(link)
  BY <1>1, <1>2, <1>4 DEF In
<1>9. ASSUME NEW u \in Threads
      PROVE  Chain(remote_free_head'[u], place', link', "mail", u)
  <2>1. CASE u = t
    <3>1. remote_free_head'[u] = NULL
      BY <1>1, <2>1 DEF TInv, TypeOK
    <3> QED
      BY <1>8, <2>1, <3>1, ListEmpty, SMTT(30) DEF Chain
  <2>2. CASE u # t
    <3>1. remote_free_head'[u] = remote_free_head[u] /\ Same(place, place', link, link', "mail", u)
      BY <1>1, <1>5, <2>2 DEF TInv, TypeOK
    <3> QED
      BY <3>1, Own, ChainFrame
  <2> QED
    BY <2>1, <2>2
<1>10. head'[t] = remote_free_head[t] /\ sc_idx'[t] = k
       /\ pc'[t] = IF remote_free_head[t] # NULL THEN "reap" ELSE IF k = NULL THEN "idle" ELSE "retry"
  BY <1>1 DEF TInv, TypeOK
<1>11. Chain(head'[t], place', link', "reap", t)
  BY <1>8, <1>10, Own DEF Chain
<1>12. LocalsOK(pc'[t], head'[t], sc_idx'[t])
  BY <1>10 DEF LocalsOK
<1>13. BatchOK(t, batch'[t], place', link', pc'[t], old_head'[t], node'[t])
  <2>1. BatchOK(t, batch[t], place, link, pc[t], old_head[t], node[t]) /\ pc'[t] # "flush"
    BY <1>10, Own
  <2>2. BatchOK(t, batch[t], place', link', pc'[t], old_head[t], node[t])
    BY <1>5, <2>1, BatchFrame
  <2> QED
    BY <1>1, <2>2
<1> QED
  BY <1>3, <1>6, <1>7, <1>9, <1>11, <1>12, <1>13, OthersKeep

\* The lists a step leaves alone that only changes blocks of X, of which none
\* is in a mailbox or being reaped.
LEMMA FreeFrame ==
  ASSUME TInv, NEW t \in Threads, NEW X,
         \A b \in Blocks \ X : place'[b] = place[b] /\ link'[b] = link[b],
         \A b \in X : /\ place[b] \in {<<"live", NULL>>, <<"batch", t>>, <<"node", t>>}
                      /\ place'[b] \in {<<"batch", t>>, <<"node", t>>},
         UNCHANGED <<slab, bins, rtree, sc_idx, head>>,
         \A u \in Threads \ {t} : /\ batch'[u] = batch[u] /\ pc'[u] = pc[u]
                                  /\ old_head'[u] = old_head[u] /\ node'[u] = node[u]
  PROVE  /\ Others(t)
         /\ \A u \in Threads : Chain(remote_free_head[u], place', link', "mail", u)
         /\ Chain(head[t], place', link', "reap", t)
<1>1. ASSUME NEW u \in Threads
      PROVE  /\ Same(place, place', link, link', "mail", u) /\ Same(place, place', link, link', "reap", u)
             /\ u # t => Same(place, place', link, link', "batch", u)
                         /\ Same(place, place', link, link', "node", u)
  <2>1. ASSUME NEW where \in {"mail", "reap", "batch", "node"}, NEW x \in Blocks,
               where \in {"mail", "reap"} \/ u # t,
               place[x] = <<where, u>> \/ place'[x] = <<where, u>>
        PROVE  place'[x] = place[x] /\ link'[x] = link[x]
    <3>1. x \notin X
      BY <2>1, SMTT(30)
    <3> QED
      BY <3>1
  <2> QED
    BY <2>1 DEF Same
<1>2. \A b \in Blocks : (place'[b] = place[b] /\ link'[b] = link[b])
                          \/ ~(Rests(place', b) \/ Rests(place, b))
  BY SMTT(30) DEF Rests
<1>3. Others(t)
  BY <1>1, <1>2 DEF Others, heap
<1> QED
  BY <1>1, <1>3, Own, ChainFrame

\* A block of another heap is freed into the batch.
LEMMA RemoteStep ==
  ASSUME TInv, NEW t \in Threads, NEW b \in Blocks, FreeRemote(t, b)
  PROVE  TInv'
<1>1. PICK o, bt : o = slab[b[1]].owning_tlh /\ bt = batch[t]
  OBVIOUS
<1>2. /\ pc[t] = "idle" /\ place[b] = <<"live", NULL>> /\ o # t /\ ~MustFlush(bt, o)
      /\ link' = [link EXCEPT ![b] = Clear(bt.head)]
      /\ batch' = [batch EXCEPT ![t] = Enqueue(bt, o, b)]
      /\ place' = [place EXCEPT ![b] = <<"batch", t>>]
      /\ UNCHANGED <<slab, bins, rtree, remote_free_head, pc, sc_idx, head, old_head, node>>
      /\ Freed(b)
  BY <1>1 DEF FreeRemote, Freeable, heap, locals
<1>3. o \in Threads \ {t}
  BY <1>1, <1>2, Owner, SMTT(30) DEF Rests
<1>4. /\ BatchOK(t, bt, place, link, pc[t], old_head[t], node[t])
      /\ bt.count \in 0..LZ_BATCH_MAX_SIZE /\ bt.count \in Nat
      /\ bt.head \in OptBlocks /\ bt.tail \in OptBlocks
  BY <1>1, Own DEF TInv, TypeOK
<1>5. bt.count = 0 \/ (bt.target_tlh = o /\ bt.count < LZ_BATCH_MAX_SIZE)
  BY <1>2, <1>4, SlabsAssumption, TlhAssumption, SMTT(30) DEF MustFlush, BatchOK
<1>6. /\ place'[b] = <<"batch", t>> /\ link'[b] = Clear(bt.head)
      /\ \A x \in Blocks \ {b} : place'[x] = place[x] /\ link'[x] = link[x]
  BY <1>2, Facts
<1>7. /\ batch'[t] = Enqueue(bt, o, b)
      /\ \A u \in Threads \ {t} : batch'[u] = batch[u]
  BY <1>2 DEF TInv, TypeOK
<1>8. TypeOK'
  <2>1. place' \in [Blocks -> Places]
    BY <1>2, Facts DEF Places
  <2>2. link' \in [Blocks -> [ptr : OptBlocks \cup {WILD}, masked : BOOLEAN]]
    BY <1>2, <1>4, Facts DEF Clear
  <2>3. Enqueue(bt, o, b) \in [target_tlh : Threads \cup {NULL}, head : OptBlocks,
                               tail : OptBlocks, count : 0..LZ_BATCH_MAX_SIZE]
    BY <1>3, <1>4, <1>5, TlhAssumption, SMTT(30) DEF Enqueue, OptBlocks
  <2>4. batch' \in [Threads -> [target_tlh : Threads \cup {NULL}, head : OptBlocks,
                                tail : OptBlocks, count : 0..LZ_BATCH_MAX_SIZE]]
    BY <1>2, <2>3 DEF TInv, TypeOK
  <2>5. given' \in [Blocks -> Int]
    BY <1>2, GivenTyped
  <2> QED
    BY <1>2, <2>1, <2>2, <2>4, <2>5 DEF TInv, TypeOK
<1>9. /\ Others(t)
      /\ \A u \in Threads : Chain(remote_free_head'[u], place', link', "mail", u)
      /\ Chain(head'[t], place', link', "reap", t)
  <2>1. \A x \in {b} : /\ place[x] \in {<<"live", NULL>>, <<"batch", t>>, <<"node", t>>}
                       /\ place'[x] \in {<<"batch", t>>, <<"node", t>>}
    BY <1>2, <1>6
  <2>2. /\ Others(t)
        /\ \A u \in Threads : Chain(remote_free_head[u], place', link', "mail", u)
        /\ Chain(head[t], place', link', "reap", t)
    BY <1>2, <1>6, <1>7, <2>1, FreeFrame
  <2> QED
    BY <1>2, <2>2
<1>10. ASSUME NEW x \in Blocks
       PROVE  RouteOK(place'[x], slab[x[1]].owning_tlh, batch')
  <2>1. RouteOK(place[x], slab[x[1]].owning_tlh, batch)
    BY DEF TInv, Roads
  <2>2. Enqueue(bt, o, b).target_tlh = o
    BY DEF Enqueue
  <2>3. CASE x = b
    BY <1>1, <1>6, <1>7, <2>2, <2>3, SMTT(30) DEF RouteOK
  <2>4. CASE x # b
    <3>1. place[x] = <<"batch", t>> => bt.target_tlh = o
      <4>1. bt.count = 0 => In(place, "batch", t) = {}
        BY <1>4, BatchEmpty
      <4> QED
        BY <1>5, <4>1 DEF In
    <3> QED
      BY <1>1, <1>6, <1>7, <2>1, <2>2, <2>4, <3>1, SMTT(30) DEF RouteOK
  <2> QED
    BY <2>3, <2>4
<1>11. BatchOK(t, batch'[t], place', link', pc'[t], old_head'[t], node'[t])
  <2>1. node[t] = NULL /\ In(place, "node", t) = {}
    BY <1>2, <1>4 DEF BatchOK
  <2>2. /\ b \notin In(place, "batch", t) /\ In(place', "batch", t) = In(place, "batch", t) \cup {b}
        /\ In(place', "node", t) = {}
    BY <1>2, <1>6, <2>1, SMTT(30) DEF In
  <2>3. Clears(link')[b] = bt.head /\ \A x \in In(place, "batch", t) : Clears(link')[x] = Clears(link)[x]
    BY <1>6, <2>2, SMTT(30) DEF Clears, In, Clear, ReadClear
  <2>4. PICK be : be = Enqueue(bt, o, b)
    OBVIOUS
  <2>5. BatchOK(t, be, place', link', pc[t], old_head[t], NULL)
    <3>1. pc[t] # "flush"
      BY <1>2
    <3> QED
      BY <1>3, <1>4, <2>2, <2>3, <2>4, <3>1, BatchAdd
  <2> QED
    BY <1>2, <1>7, <2>1, <2>4, <2>5
<1>12. LocalsOK(pc'[t], head'[t], sc_idx'[t])
  BY <1>2, Own
<1> QED
  BY <1>8, <1>9, <1>10, <1>11, <1>12, OthersKeep

\* The value a flush expects in the mailbox is not a block of the batch.
LEMMA HeadElsewhere ==
  ASSUME TInv, NEW t \in Threads, NEW g \in Threads
  PROVE  remote_free_head[g] \notin In(place, "batch", t)
<1>1. remote_free_head[g] \in In(place, "mail", g) \cup {NULL}
  BY Own
<1>2. NULL \notin Blocks
  BY SlabsAssumption
<1> QED
  BY <1>1, <1>2, SMTT(30) DEF In

\* A flush begins.
LEMMA FlushStep ==
  ASSUME TInv, NEW t \in Threads, pc[t] = "idle", batch[t].count # 0, LoadHead(t),
         NEW ne \in OptBlocks, node' = [node EXCEPT ![t] = ne], given' \in [Blocks -> Int],
         \/ ne = NULL /\ UNCHANGED <<link, place>>
         \/ /\ ne \in Blocks /\ place[ne] = <<"live", NULL>> /\ slab[ne[1]].owning_tlh # t
            /\ link' = [link EXCEPT ![ne] = Clear(NULL)]
            /\ place' = [place EXCEPT ![ne] = <<"node", t>>]
  PROVE  TInv'
<1>1. PICK bt : bt = batch[t]
  OBVIOUS
<1>2. /\ pc' = [pc EXCEPT ![t] = "flush"]
      /\ old_head' = [old_head EXCEPT ![t] = remote_free_head[bt.target_tlh]]
      /\ UNCHANGED <<slab, bins, rtree, remote_free_head, batch, sc_idx, head>>
  BY <1>1 DEF LoadHead, heap
<1>3. BatchOK(t, bt, place, link, pc[t], old_head[t], node[t]) /\ bt.count # 0
  BY <1>1, Own
<1>4. bt.target_tlh \in Threads \ {t}
  BY <1>3 DEF BatchOK
<1>5. node[t] = NULL /\ In(place, "node", t) = {}
  BY <1>3 DEF BatchOK
<1>6. PICK X : X = {ne} \ {NULL}
  OBVIOUS
<1>7. /\ \A x \in Blocks \ X : place'[x] = place[x] /\ link'[x] = link[x]
      /\ \A x \in X : /\ x = ne /\ ne \in Blocks /\ place[x] = <<"live", NULL>>
                      /\ place'[x] = <<"node", t>> /\ link'[x] = Clear(NULL)
                      /\ slab[x[1]].owning_tlh # t
  BY <1>6, Facts, SlabsAssumption, SMTT(30)
<1>8. TypeOK'
  <2>1. place' \in [Blocks -> Places]
    BY Facts, SMTT(30) DEF Places
  <2>2. link' \in [Blocks -> [ptr : OptBlocks \cup {WILD}, masked : BOOLEAN]]
    <3>1. Clear(NULL) \in [ptr : OptBlocks \cup {WILD}, masked : BOOLEAN]
      BY DEF Clear, OptBlocks
    <3>2. link' = link \/ link' = [link EXCEPT ![ne] = Clear(NULL)]
      BY SMTT(30)
    <3> QED
      BY <3>1, <3>2, Facts
  <2>3. /\ pc' \in [Threads -> {"idle", "reap", "retry", "flush"}] /\ node' \in [Threads -> OptBlocks]
        /\ old_head' \in [Threads -> OptBlocks]
    BY <1>2, <1>4 DEF TInv, TypeOK
  <2> QED
    BY <1>2, <2>1, <2>2, <2>3 DEF TInv, TypeOK
<1>9. \A u \in Threads \ {t} : /\ batch'[u] = batch[u] /\ pc'[u] = pc[u]
                               /\ old_head'[u] = old_head[u] /\ node'[u] = node[u]
  BY <1>2 DEF TInv, TypeOK
<1>10. /\ Others(t)
       /\ \A u \in Threads : Chain(remote_free_head'[u], place', link', "mail", u)
       /\ Chain(head'[t], place', link', "reap", t)
  <2>1. \A x \in X : /\ place[x] \in {<<"live", NULL>>, <<"batch", t>>, <<"node", t>>}
                     /\ place'[x] \in {<<"batch", t>>, <<"node", t>>}
    BY <1>7
  <2>2. /\ Others(t)
        /\ \A u \in Threads : Chain(remote_free_head[u], place', link', "mail", u)
        /\ Chain(head[t], place', link', "reap", t)
    BY <1>2, <1>7, <1>9, <2>1, FreeFrame
  <2> QED
    BY <1>2, <2>2
<1>11. ASSUME NEW x \in Blocks
       PROVE  RouteOK(place'[x], slab[x[1]].owning_tlh, batch')
  <2>1. RouteOK(place[x], slab[x[1]].owning_tlh, batch)
    BY DEF TInv, Roads
  <2> QED
    BY <1>2, <1>7, <2>1, SMTT(30) DEF RouteOK
<1>12. pc'[t] = "flush" /\ node'[t] = ne /\ old_head'[t] = remote_free_head[bt.target_tlh]
  BY <1>2 DEF TInv, TypeOK
<1>13. BatchOK(t, bt, place', link', "flush", old_head'[t], ne)
  <2>1. Same(place, place', link, link', "batch", t)
    BY <1>7, SMTT(30) DEF Same
  <2>2. In(place', "node", t) = {ne} \ {NULL}
    BY <1>5, <1>6, <1>7, SMTT(30) DEF In
  <2>3. ne # NULL => Clears(link')[ne] = NULL
    BY <1>6, <1>7, SMTT(30) DEF Clears, Clear, ReadClear
  <2>4. old_head'[t] \notin In(place, "batch", t)
    BY <1>4, <1>12, HeadElsewhere
  <2> QED
    BY <1>3, <2>1, <2>2, <2>3, <2>4, BatchFlush
<1>14. BatchOK(t, batch'[t], place', link', pc'[t], old_head'[t], node'[t])
  BY <1>1, <1>2, <1>12, <1>13
<1>15. LocalsOK(pc'[t], head'[t], sc_idx'[t])
  BY <1>2, <1>12, Own, Facts DEF LocalsOK
<1> QED
  BY <1>8, <1>10, <1>11, <1>14, <1>15, OthersKeep

\* FreeRemoteFlush and FlushCall begin a flush.
LEMMA FlushCalls ==
  ASSUME TInv, NEW t \in Threads, FlushCall(t) \/ \E b \in Blocks : FreeRemoteFlush(t, b)
  PROVE  TInv'
<1>1. CASE FlushCall(t)
  <2>1. /\ pc[t] = "idle" /\ batch[t].count # 0 /\ LoadHead(t)
        /\ UNCHANGED <<link, node, place>> /\ given' \in [Blocks -> Int]
    BY <1>1 DEF FlushCall, TInv, TypeOK
  <2>2. node[t] = NULL
    BY <2>1, Own DEF BatchOK
  <2>3. node' = [node EXCEPT ![t] = NULL]
    BY <2>1, <2>2 DEF TInv, TypeOK
  <2>4. NULL \in OptBlocks
    BY DEF OptBlocks
  <2> QED
    BY <2>1, <2>3, <2>4, FlushStep
<1>2. ASSUME NEW b \in Blocks, FreeRemoteFlush(t, b)
      PROVE  TInv'
  <2>1. /\ pc[t] = "idle" /\ batch[t].count # 0 /\ LoadHead(t)
        /\ b \in OptBlocks /\ node' = [node EXCEPT ![t] = b]
    BY <1>2 DEF FreeRemoteFlush, Freeable, MustFlush, OptBlocks
  <2>2. /\ b \in Blocks /\ place[b] = <<"live", NULL>> /\ slab[b[1]].owning_tlh # t
        /\ link' = [link EXCEPT ![b] = Clear(NULL)]
        /\ place' = [place EXCEPT ![b] = <<"node", t>>]
    BY <1>2 DEF FreeRemoteFlush, Freeable
  <2>3. given' \in [Blocks -> Int]
    BY <1>2, GivenTyped DEF FreeRemoteFlush
  <2> QED
    BY <2>1, <2>2, <2>3, FlushStep
<1> QED
  BY <1>1, <1>2

\* A thread in a flush: its batch is not empty and goes to another heap.
LEMMA InFlush ==
  ASSUME TInv, NEW t \in Threads, pc[t] = "flush", NEW bt, bt = batch[t]
  PROVE  /\ BatchOK(t, bt, place, link, "flush", old_head[t], node[t])
         /\ bt.count # 0 /\ bt.target_tlh \in Threads \ {t}
         /\ bt.tail \in Blocks /\ place[bt.tail] = <<"batch", t>>
         /\ old_head[t] \notin In(place, "batch", t)
         /\ old_head[t] \in OptBlocks /\ bt.head \in OptBlocks
<1>1. BatchOK(t, bt, place, link, "flush", old_head[t], node[t])
  BY Own
<1>2. old_head[t] \in OptBlocks /\ bt.head \in OptBlocks
  BY DEF TInv, TypeOK
<1> QED
  BY <1>1, <1>2 DEF BatchOK, In

\* The compare-and-swap fails.
LEMMA RetryStep ==
  ASSUME TInv, NEW t \in Threads, FlushRetry(t)
  PROVE  TInv'
<1>1. PICK bt, old, oe : bt = batch[t] /\ old = old_head[t] /\ oe = remote_free_head[bt.target_tlh]
  OBVIOUS
<1>2. /\ pc[t] = "flush" /\ link' = [link EXCEPT ![bt.tail] = Clear(old)]
      /\ old_head' = [old_head EXCEPT ![t] = oe]
      /\ UNCHANGED <<slab, bins, rtree, remote_free_head, batch, pc, sc_idx, head, node, place, given>>
  BY <1>1 DEF FlushRetry, heap
<1>3. /\ BatchOK(t, bt, place, link, "flush", old, node[t])
      /\ bt.target_tlh \in Threads \ {t} /\ bt.tail \in Blocks /\ place[bt.tail] = <<"batch", t>>
      /\ old \in OptBlocks
  BY <1>1, <1>2, InFlush
<1>4. oe \notin In(place, "batch", t)
  BY <1>1, <1>3, HeadElsewhere
<1>5. link'[bt.tail] = Clear(old) /\ \A x \in Blocks \ {bt.tail} : link'[x] = link[x]
  BY <1>2, <1>3, Facts
<1>6. TypeOK'
  <2>1. Clear(old) \in [ptr : OptBlocks \cup {WILD}, masked : BOOLEAN]
    BY <1>3 DEF Clear
  <2>2. link' \in [Blocks -> [ptr : OptBlocks \cup {WILD}, masked : BOOLEAN]]
    BY <1>2, <2>1, Facts
  <2>3. old_head' \in [Threads -> OptBlocks]
    BY <1>1, <1>2, <1>3 DEF TInv, TypeOK
  <2> QED
    BY <1>2, <2>2, <2>3 DEF TInv, TypeOK
<1>7. /\ Others(t)
      /\ \A u \in Threads : Chain(remote_free_head'[u], place', link', "mail", u)
      /\ Chain(head'[t], place', link', "reap", t)
  <2>1. PICK X : X = {bt.tail}
    OBVIOUS
  <2>2. \A x \in X : /\ place[x] \in {<<"live", NULL>>, <<"batch", t>>, <<"node", t>>}
                     /\ place'[x] \in {<<"batch", t>>, <<"node", t>>}
    BY <1>2, <1>3, <2>1
  <2>3. \A x \in Blocks \ X : place'[x] = place[x] /\ link'[x] = link[x]
    BY <1>2, <1>5, <2>1
  <2>4. \A u \in Threads \ {t} : /\ batch'[u] = batch[u] /\ pc'[u] = pc[u]
                                 /\ old_head'[u] = old_head[u] /\ node'[u] = node[u]
    BY <1>2 DEF TInv, TypeOK
  <2>5. /\ Others(t)
        /\ \A u \in Threads : Chain(remote_free_head[u], place', link', "mail", u)
        /\ Chain(head[t], place', link', "reap", t)
    BY <1>2, <2>2, <2>3, <2>4, FreeFrame
  <2> QED
    BY <1>2, <2>5
<1>8. \A x \in Blocks : RouteOK(place'[x], slab[x[1]].owning_tlh, batch')
  BY <1>2 DEF TInv, Roads
<1>9. BatchOK(t, batch'[t], place', link', pc'[t], old_head'[t], node'[t])
  <2>1. Clears(link')[bt.tail] = old
    BY <1>3, <1>5, SMTT(30) DEF Clears, Clear, ReadClear
  <2>2. BatchOK(t, bt, place, link', "flush", oe, node[t])
    BY <1>3, <1>4, <1>5, <2>1, BatchTail
  <2>3. old_head'[t] = oe
    BY <1>2 DEF TInv, TypeOK
  <2> QED
    BY <1>1, <1>2, <2>2, <2>3
<1>10. LocalsOK(pc'[t], head'[t], sc_idx'[t])
  BY <1>2, Own
<1> QED
  BY <1>6, <1>7, <1>8, <1>9, <1>10, OthersKeep

\* A node opens the next batch, or there is none.
LEMMA BatchOpen ==
  ASSUME NEW t, NEW pm, NEW lm, NEW nd \in OptBlocks, In(pm, "batch", t) = {nd} \ {NULL},
         In(pm, "node", t) = {}, nd # NULL => Clears(lm)[nd] = NULL,
         NEW o, nd # NULL => o \in Threads \ {t},
         NEW be, be = IF nd = NULL THEN EmptyBatch ELSE Enqueue(EmptyBatch, o, nd)
  PROVE  BatchOK(t, be, pm, lm, "idle", NULL, NULL)
<1>0. Numbered({}, 0) /\ NULL \notin Blocks
  BY NumberedEmpty, SlabsAssumption
<1>1. CASE nd = NULL
  <2>1. be.count = 0 /\ be = EmptyBatch /\ In(pm, "batch", t) = {}
    BY <1>1 DEF EmptyBatch
  <2> QED
    BY <1>0, <2>1 DEF BatchOK
<1>2. CASE nd # NULL
  <2>1. /\ be.count = 1 /\ be.head = nd /\ be.tail = nd /\ be.target_tlh = o
        /\ In(pm, "batch", t) = {} \cup {nd} /\ nd \in Blocks
    BY <1>2, SMTT(30) DEF EmptyBatch, Enqueue, OptBlocks
  <2>2. Numbered({} \cup {nd}, 0 + 1)
    BY <1>0, NumberedAdd
  <2>3. ListOf(NULL, Clears(lm), {}, NULL)
    BY ListEmpty
  <2>4. ListOf(nd, Clears(lm), {} \cup {nd}, NULL)
    BY <1>2, <2>3, ListPush
  <2> QED
    BY <1>2, <2>1, <2>2, <2>4, SMTT(30) DEF BatchOK
<1> QED
  BY <1>1, <1>2

\* The places and links after the swap of thread t's batch into mailbox g.
Swapped(t, g, nd) ==
  \A x \in Blocks : place'[x] = IF place[x] = <<"batch", t>> THEN <<"mail", g>>
                                ELSE IF x = nd THEN <<"batch", t>> ELSE place[x]

\* Where the blocks are once the compare-and-swap of the flush has put thread t's
\* batch in the mailbox of g, and the node that waited for room in the batch.
LEMMA SwapPlaces ==
  ASSUME TInv, NEW t \in Threads, pc[t] = "flush", NEW g \in Threads, NEW nd, nd = node[t],
         Swapped(t, g, nd), \A x \in Blocks \ {batch[t].tail} : link'[x] = link[x]
  PROVE  /\ In(place', "mail", g) = In(place, "batch", t) \cup In(place, "mail", g)
         /\ In(place', "batch", t) = {nd} \ {NULL} /\ In(place', "node", t) = {}
         /\ \A u \in Threads : /\ Same(place, place', link, link', "reap", u)
                               /\ u # g => Same(place, place', link, link', "mail", u)
                               /\ u # t => /\ Same(place, place', link, link', "batch", u)
                                           /\ Same(place, place', link, link', "node", u)
         /\ \A b \in Blocks : (place'[b] = place[b] /\ link'[b] = link[b])
                                \/ ~(Rests(place', b) \/ Rests(place, b))
         /\ nd # NULL => nd \in Blocks /\ place[nd] = <<"node", t>> /\ link'[nd] = link[nd]
<1>1. place[batch[t].tail] = <<"batch", t>>
  BY InFlush
<1>2. In(place, "node", t) = {nd} \ {NULL}
  BY InFlush DEF BatchOK
<1>3. \A x \in Blocks : place[x] = <<"node", t>> <=> x = nd /\ nd # NULL
  BY <1>2 DEF In
<1>4. NULL \notin Blocks
  BY SlabsAssumption
<1>5. nd # NULL => nd \in Blocks /\ place[nd] = <<"node", t>>
  BY <1>2 DEF In
<1>6. \A x \in Blocks : place[x] # <<"batch", t>> => link'[x] = link[x]
  BY <1>1
<1>7. \A x \in Blocks : \/ place[x] = <<"batch", t>> /\ place'[x] = <<"mail", g>>
                        \/ place[x] = <<"node", t>> /\ place'[x] = <<"batch", t>> /\ x = nd
                        \/ /\ place[x] # <<"batch", t>> /\ place[x] # <<"node", t>>
                           /\ place'[x] = place[x] /\ x # nd
  BY <1>3, <1>4 DEF Swapped
<1>8. /\ In(place', "mail", g) = In(place, "batch", t) \cup In(place, "mail", g)
      /\ In(place', "node", t) = {}
  BY <1>7, SMTT(30) DEF In
<1>9. In(place', "batch", t) = {nd} \ {NULL}
  <2>1. \A x \in Blocks : place'[x] = <<"batch", t>> <=> x = nd /\ nd # NULL
    BY <1>3, <1>5, <1>7, SMTT(30)
  <2> QED
    BY <1>5, <2>1 DEF In
<1>10. ASSUME NEW u \in Threads
       PROVE  /\ Same(place, place', link, link', "reap", u)
              /\ u # g => Same(place, place', link, link', "mail", u)
              /\ u # t => /\ Same(place, place', link, link', "batch", u)
                          /\ Same(place, place', link, link', "node", u)
  BY <1>6, <1>7, SMTT(30) DEF Same
<1>11. \A b \in Blocks : (place'[b] = place[b] /\ link'[b] = link[b])
                           \/ ~(Rests(place', b) \/ Rests(place, b))
  BY <1>6, <1>7, SMTT(30) DEF Rests
<1> QED
  BY <1>5, <1>6, <1>8, <1>9, <1>10, <1>11, SMTT(30)

\* The compare-and-swap succeeds.
LEMMA SwapStep ==
  ASSUME TInv, NEW t \in Threads, FlushSwap(t)
  PROVE  TInv'
<1>1. PICK bt, old, nd, g, o : /\ bt = batch[t] /\ old = old_head[t] /\ nd = node[t]
                               /\ g = bt.target_tlh /\ o = slab[nd[1]].owning_tlh
  OBVIOUS
<1>2. PICK be : be = IF nd = NULL THEN EmptyBatch ELSE Enqueue(EmptyBatch, o, nd)
  OBVIOUS
<1>3. /\ pc[t] = "flush" /\ remote_free_head[g] = old
      /\ remote_free_head' = [remote_free_head EXCEPT ![g] = bt.head]
      /\ link' = [link EXCEPT ![bt.tail] = Clear(old)]
      /\ place' = [x \in Blocks |-> IF place[x] = <<"batch", t>> THEN <<"mail", g>>
                                    ELSE IF x = nd THEN <<"batch", t>> ELSE place[x]]
      /\ batch' = [batch EXCEPT ![t] = be]
      /\ pc' = [pc EXCEPT ![t] = "idle"]
      /\ old_head' = [old_head EXCEPT ![t] = NULL]
      /\ node' = [node EXCEPT ![t] = NULL]
      /\ UNCHANGED <<slab, bins, rtree, sc_idx, head, given>>
  BY <1>1, <1>2 DEF FlushSwap, heap
<1>4. /\ BatchOK(t, bt, place, link, "flush", old, nd)
      /\ g \in Threads \ {t} /\ bt.tail \in Blocks /\ place[bt.tail] = <<"batch", t>>
      /\ old \in OptBlocks /\ bt.head \in OptBlocks /\ old \notin In(place, "batch", t)
  <2>1. pc[t] = "flush" /\ bt = batch[t]
    BY <1>1, <1>3
  <2>2. /\ BatchOK(t, bt, place, link, "flush", old_head[t], node[t])
        /\ bt.target_tlh \in Threads \ {t} /\ bt.tail \in Blocks /\ place[bt.tail] = <<"batch", t>>
        /\ old_head[t] \in OptBlocks /\ bt.head \in OptBlocks
        /\ old_head[t] \notin In(place, "batch", t)
    BY <2>1, InFlush
  <2> QED
    BY <1>1, <2>2
<1>5. link'[bt.tail] = Clear(old) /\ \A x \in Blocks \ {bt.tail} : link'[x] = link[x]
  BY <1>3, <1>4, Facts
<1>6. /\ In(place', "mail", g) = In(place, "batch", t) \cup In(place, "mail", g)
      /\ In(place', "batch", t) = {nd} \ {NULL} /\ In(place', "node", t) = {}
      /\ \A u \in Threads : /\ Same(place, place', link, link', "reap", u)
                            /\ u # g => Same(place, place', link, link', "mail", u)
                            /\ u # t => /\ Same(place, place', link, link', "batch", u)
                                        /\ Same(place, place', link, link', "node", u)
      /\ \A b \in Blocks : (place'[b] = place[b] /\ link'[b] = link[b])
                             \/ ~(Rests(place', b) \/ Rests(place, b))
      /\ nd # NULL => nd \in Blocks /\ place[nd] = <<"node", t>> /\ link'[nd] = link[nd]
  <2>1. Swapped(t, g, nd)
    BY <1>3 DEF Swapped
  <2>2. pc[t] = "flush" /\ nd = node[t] /\ g \in Threads
    BY <1>1, <1>3, <1>4
  <2>3. \A x \in Blocks \ {batch[t].tail} : link'[x] = link[x]
    BY <1>1, <1>5
  <2> QED
    BY <1>1, <2>1, <2>2, <2>3, SwapPlaces
<1>7. nd # NULL => o \in Threads \ {t}
  <2>1. nd # NULL => nd \in Blocks /\ ~Rests(place, nd) /\ place[nd] = <<"node", t>>
    BY <1>6, SMTT(30) DEF Rests
  <2>2. nd # NULL => o \in Threads
    BY <1>1, <2>1, Owner
  <2>3. nd # NULL => o # t
    BY <1>1, <2>1 DEF TInv, Roads, RouteOK
  <2> QED
    BY <2>2, <2>3
<1>8. nd \in OptBlocks
  BY <1>1 DEF TInv, TypeOK
<1>9. TypeOK'
  <2>1. Clear(old) \in [ptr : OptBlocks \cup {WILD}, masked : BOOLEAN]
    BY <1>4 DEF Clear
  <2>2. link' \in [Blocks -> [ptr : OptBlocks \cup {WILD}, masked : BOOLEAN]]
    BY <1>3, <2>1, Facts
  <2>3. place' \in [Blocks -> Places]
    BY <1>3, <1>4, Facts DEF Places
  <2>4. be \in [target_tlh : Threads \cup {NULL}, head : OptBlocks,
                tail : OptBlocks, count : 0..LZ_BATCH_MAX_SIZE]
    <3>1. 0 \in 0..LZ_BATCH_MAX_SIZE /\ 0 + 1 \in 0..LZ_BATCH_MAX_SIZE
      BY TlhAssumption, SMTT(30)
    <3>2. EmptyBatch \in [target_tlh : Threads \cup {NULL}, head : OptBlocks,
                          tail : OptBlocks, count : 0..LZ_BATCH_MAX_SIZE]
      BY <3>1 DEF EmptyBatch, OptBlocks
    <3>3. CASE nd = NULL
      BY <1>2, <3>2, <3>3
    <3>4. CASE nd # NULL
      <4>1. be = Enqueue(EmptyBatch, o, nd) /\ o \in Threads
        BY <1>2, <1>7, <3>4
      <4> QED
        BY <1>8, <3>1, <4>1, SMTT(30) DEF Enqueue, EmptyBatch, OptBlocks
    <3> QED
      BY <3>3, <3>4
  <2>5. batch' \in [Threads -> [target_tlh : Threads \cup {NULL}, head : OptBlocks,
                                tail : OptBlocks, count : 0..LZ_BATCH_MAX_SIZE]]
    BY <1>3, <2>4 DEF TInv, TypeOK
  <2>6. /\ remote_free_head' \in [Threads -> OptBlocks] /\ old_head' \in [Threads -> OptBlocks]
        /\ node' \in [Threads -> OptBlocks] /\ pc' \in [Threads -> {"idle", "reap", "retry", "flush"}]
    BY <1>3, <1>4 DEF TInv, TypeOK, OptBlocks
  <2> QED
    BY <1>3, <2>2, <2>3, <2>5, <2>6 DEF TInv, TypeOK
<1>10. Others(t)
  <2>1. \A u \in Threads \ {t} :
          /\ batch'[u] = batch[u] /\ pc'[u] = pc[u] /\ old_head'[u] = old_head[u]
          /\ node'[u] = node[u] /\ head'[u] = head[u] /\ sc_idx'[u] = sc_idx[u]
    BY <1>3 DEF TInv, TypeOK
  <2> QED
    BY <1>3, <1>6, <2>1 DEF Others, heap
<1>11. batch'[t] = be /\ pc'[t] = "idle" /\ old_head'[t] = NULL /\ node'[t] = NULL /\ head'[t] = head[t]
  BY <1>3 DEF TInv, TypeOK
<1>12. ASSUME NEW x \in Blocks
       PROVE  RouteOK(place'[x], slab[x[1]].owning_tlh, batch')
  <2>1. RouteOK(place[x], slab[x[1]].owning_tlh, batch)
    BY DEF TInv, Roads
  <2>2. CASE place[x] = <<"batch", t>>
    <3>1. place'[x] = <<"mail", g>> /\ slab[x[1]].owning_tlh = g
      BY <1>1, <1>3, <2>1, <2>2 DEF RouteOK
    <3> QED
      BY <3>1, SMTT(30) DEF RouteOK
  <2>3. CASE place[x] # <<"batch", t>> /\ x = nd
    <3>1. place'[x] = <<"batch", t>> /\ be.target_tlh = slab[x[1]].owning_tlh
      BY <1>1, <1>2, <1>3, <2>3, SlabsAssumption DEF Enqueue
    <3> QED
      BY <1>11, <3>1, SMTT(30) DEF RouteOK
  <2>4. CASE place[x] # <<"batch", t>> /\ x # nd
    <3>1. place'[x] = place[x] /\ \A u \in Threads \ {t} : batch'[u] = batch[u]
      BY <1>3, <2>4 DEF TInv, TypeOK
    <3> QED
      BY <2>1, <2>4, <3>1 DEF RouteOK
  <2> QED
    BY <2>2, <2>3, <2>4
<1>13. ASSUME NEW u \in Threads
       PROVE  Chain(remote_free_head'[u], place', link', "mail", u)
  <2>1. CASE u = g
    <3>1. Clears(link')[bt.tail] = old
      BY <1>4, <1>5, SMTT(30) DEF Clears, Clear, ReadClear
    <3>2. ListOf(bt.head, Clears(link'), In(place, "batch", t), old)
      BY <1>4, <1>5, <3>1, BatchTail, SMTT(30)
    <3>3. ListOf(old, Clears(link), In(place, "mail", g), NULL)
      BY <1>3, <1>4, Own DEF Chain
    <3>4. \A x \in In(place, "mail", g) : Clears(link')[x] = Clears(link)[x]
      BY <1>4, <1>5, SMTT(30) DEF In, Clears
    <3>5. ListOf(old, Clears(link'), In(place, "mail", g), NULL)
      BY <3>3, <3>4, ListFrame
    <3>6. In(place, "batch", t) \cap In(place, "mail", g) = {} /\ NULL \notin In(place, "batch", t)
      BY SlabsAssumption, SMTT(30) DEF In
    <3>7. ListOf(bt.head, Clears(link'), In(place, "batch", t) \cup In(place, "mail", g), NULL)
      BY <3>2, <3>5, <3>6, ListConcat
    <3>8. remote_free_head'[u] = bt.head
      BY <1>3, <2>1 DEF TInv, TypeOK
    <3> QED
      BY <1>6, <2>1, <3>7, <3>8 DEF Chain
  <2>2. CASE u # g
    <3>1. remote_free_head'[u] = remote_free_head[u] /\ Same(place, place', link, link', "mail", u)
      BY <1>3, <1>6, <2>2 DEF TInv, TypeOK
    <3> QED
      BY <3>1, Own, ChainFrame
  <2> QED
    BY <2>1, <2>2
<1>14. BatchOK(t, be, place', link', "idle", NULL, NULL)
  <2>1. nd # NULL => Clears(link')[nd] = NULL
    BY <1>4, <1>6 DEF BatchOK, Clears
  <2> QED
    BY <1>2, <1>6, <1>7, <1>8, <2>1, BatchOpen
<1>15. Chain(head'[t], place', link', "reap", t)
  BY <1>6, <1>11, Own, ChainFrame
<1>16. LocalsOK(pc'[t], head'[t], sc_idx'[t])
  BY <1>3, <1>11, Own, Facts DEF LocalsOK
<1> QED
  BY <1>9, <1>10, <1>11, <1>12, <1>13, <1>14, <1>15, <1>16, OthersKeep

----------------------------------------------------------------------------
(* The effect of the other steps on the program's view.                    *)

\* A remote free takes its block from the program, and nothing else.
LEMMA RemoteEffect ==
  ASSUME TInv, NEW t \in Threads, NEW b \in Blocks, FreeRemote(t, b) \/ FreeRemoteFlush(t, b)
  PROVE  Effect(b)
<1>1. /\ place[b] = <<"live", NULL>> /\ slab' = slab /\ Freed(b)
      /\ place' = [place EXCEPT ![b] = <<"batch", t>>] \/ place' = [place EXCEPT ![b] = <<"node", t>>]
  BY DEF FreeRemote, FreeRemoteFlush, Freeable, LoadHead, heap
<1>2. ~IsLive(place', b) /\ \A x \in Blocks \ {b} : place'[x] = place[x]
  BY <1>1, Facts, SMTT(30) DEF IsLive
<1> QED
  BY <1>1, <1>2 DEF Effect, Keeps, IsLive, Moves

\* A miss, a garbage collection and a flush change nothing the program sees.
LEMMA QuietEffect ==
  ASSUME TInv, NEW t \in Threads,
         \/ \E k \in Classes : AllocMiss(t, k)
         \/ GcCall(t) \/ FlushCall(t) \/ FlushRetry(t) \/ FlushSwap(t)
  PROVE  Effect(NULL)
<1>1. CASE (\E k \in Classes : AllocMiss(t, k)) \/ GcCall(t)
  <2>1. /\ slab' = slab /\ given' = given
        /\ place' = [b \in Blocks |-> IF place[b] = <<"mail", t>> THEN <<"reap", t>> ELSE place[b]]
    BY <1>1 DEF AllocMiss, GcCall, Exchange, heap
  <2> QED
    BY <2>1, SMTT(30) DEF Effect, Keeps, IsLive, Moves
<1>2. CASE FlushCall(t) \/ FlushRetry(t)
  <2>1. slab' = slab /\ place' = place /\ given' = given
    BY <1>2 DEF FlushCall, FlushRetry, LoadHead, heap
  <2> QED
    BY <2>1 DEF Effect, Keeps, IsLive, Moves
<1>3. CASE FlushSwap(t)
  <2>1. PICK nd, g : nd = node[t] /\ g = batch[t].target_tlh
    OBVIOUS
  <2>2. /\ slab' = slab /\ pc[t] = "flush" /\ given' = given
        /\ place' = [x \in Blocks |-> IF place[x] = <<"batch", t>> THEN <<"mail", g>>
                                      ELSE IF x = nd THEN <<"batch", t>> ELSE place[x]]
    BY <1>3, <2>1 DEF FlushSwap, heap
  <2>3. In(place, "node", t) = {nd} \ {NULL}
    BY <2>1, <2>2, InFlush DEF BatchOK
  <2>4. \A x \in Blocks : x = nd => place[x] = <<"node", t>>
    BY <2>3, SlabsAssumption, SMTT(30) DEF In
  <2> QED
    BY <2>2, <2>4, SMTT(30) DEF Effect, Keeps, IsLive, Moves
<1> QED
  BY <1>1, <1>2, <1>3

----------------------------------------------------------------------------
(* The invariant holds.                                                    *)

\* The heaps start in order.
LEMMA InitHolds ==
  ASSUME Init
  PROVE  TInv
<1>1. TypeOK
  <2>1. slab \in [Chunks -> SlabType] /\ bins \in [Threads -> [Classes -> BinType]]
    BY DEF Init, SlabType, BinType, OptChunks, OptBlocks
  <2>2. /\ link \in [Blocks -> [ptr : OptBlocks \cup {WILD}, masked : BOOLEAN]]
        /\ place \in [Blocks -> Places] /\ rtree \in SUBSET Chunks
    BY DEF Init, Places
  <2>3. batch \in [Threads -> [target_tlh : Threads \cup {NULL}, head : OptBlocks,
                               tail : OptBlocks, count : 0..LZ_BATCH_MAX_SIZE]]
    BY TlhAssumption, SMTT(30) DEF Init, EmptyBatch, OptBlocks
  <2>4. /\ remote_free_head \in [Threads -> OptBlocks] /\ head \in [Threads -> OptBlocks]
        /\ old_head \in [Threads -> OptBlocks] /\ node \in [Threads -> OptBlocks]
        /\ pc \in [Threads -> {"idle", "reap", "retry", "flush"}]
        /\ sc_idx \in [Threads -> Classes \cup {NULL}]
    BY DEF Init, OptBlocks
  <2>5. given \in [Blocks -> Int]
    BY SMTT(30) DEF Init
  <2> QED
    BY <2>1, <2>2, <2>3, <2>4, <2>5 DEF TypeOK
<1>2. \A b \in Blocks : place[b] = <<"raw", NULL>>
  BY DEF Init
<1>3. HeapOK(slab, bins, rtree, place, link)
  <2>1. rtree = {}
    BY DEF Init
  <2>2. ASSUME NEW t \in Threads, NEW k \in Classes
        PROVE  BinOK(ViewOf(slab, bins[t]), k, MineOf(slab, rtree, t, k))
    <3>1. MineOf(slab, rtree, t, k) = {}
      BY <2>1 DEF MineOf
    <3>2. PICK v : v = ViewOf(slab, bins[t])
      OBVIOUS
    <3>3. v.bin[k].current_slab = NULL /\ v.bin[k].full_list = NULL /\ v.bin[k].partial_list = NULL
      BY <3>2 DEF ViewOf, Init
    <3>4. FullOf(v, k, {}) = {} /\ PartialOf(v, k, {}) = {}
      BY DEF FullOf, PartialOf
    <3>5. DoublyListOf(NULL, Nexts(v), Prevs(v), {}, NULL)
      BY ListEmpty DEF DoublyListOf
    <3>6. BinOK(v, k, {})
      BY <3>3, <3>4, <3>5 DEF BinOK, Linked
    <3> QED
      BY <3>1, <3>2, <3>6
  <2> QED
    BY <1>1, <1>2, <2>1, <2>2 DEF HeapOK, TypeOK
<1>4. ASSUME NEW t \in Threads
      PROVE  /\ BatchOK(t, batch[t], place, link, pc[t], old_head[t], node[t])
             /\ Chain(remote_free_head[t], place, link, "mail", t)
             /\ Chain(head[t], place, link, "reap", t)
             /\ LocalsOK(pc[t], head[t], sc_idx[t])
  <2>1. \A where \in {"batch", "node", "mail", "reap"} : In(place, where, t) = {}
    BY <1>2, SMTT(30) DEF In
  <2>2. /\ batch[t] = EmptyBatch /\ pc[t] = "idle" /\ sc_idx[t] = NULL
        /\ node[t] = NULL /\ head[t] = NULL /\ remote_free_head[t] = NULL
    BY DEF Init
  <2>3. Numbered({}, 0) /\ EmptyBatch.count = 0
    BY NumberedEmpty DEF EmptyBatch
  <2>4. BatchOK(t, batch[t], place, link, pc[t], old_head[t], node[t])
    BY <2>1, <2>2, <2>3 DEF BatchOK
  <2>5. LocalsOK(pc[t], head[t], sc_idx[t])
    BY <2>2 DEF LocalsOK
  <2>6. \A where \in {"mail", "reap"} : Chain(NULL, place, link, where, t)
    BY <2>1, ListEmpty, SMTT(30) DEF Chain
  <2> QED
    BY <2>2, <2>4, <2>5, <2>6
<1>5. \A b \in Blocks : RouteOK(place[b], slab[b[1]].owning_tlh, batch)
  BY <1>2, SMTT(30) DEF RouteOK
<1> QED
  BY <1>1, <1>3, <1>4, <1>5 DEF TInv, Roads

\* Every call and every step keeps the invariant, and its effect for the program
\* concerns one block at most.
LEMMA StepKeeps ==
  ASSUME TInv, NEW t \in Threads, Call(t) \/ Step(t)
  PROVE  TInv' /\ \E b \in OptBlocks : Effect(b)
<1>0. Blocks \subseteq OptBlocks /\ NULL \in OptBlocks
  BY DEF OptBlocks
<1>1. CASE (\E k \in Classes : AllocFast(t, k)) \/ AllocFreeList(t) \/ AllocBump(t)
  BY <1>1, CurrentStep
<1>2. CASE (\E k \in Classes : AllocMiss(t, k)) \/ GcCall(t)
  <2>1. PICK k \in Classes \cup {NULL} : pc[t] = "idle" /\ Exchange(t, k)
    BY <1>2 DEF AllocMiss, GcCall
  <2> QED
    BY <1>0, <1>2, <2>1, ExchangeStep, QuietEffect
<1>3. CASE \E b \in Blocks : FreeLocal(t, b)
  BY <1>0, <1>3, LocalStep
<1>4. CASE \E b \in Blocks : FreeRemote(t, b)
  BY <1>0, <1>4, RemoteStep, RemoteEffect
<1>5. CASE \E b \in Blocks : FreeRemoteFlush(t, b)
  BY <1>0, <1>5, FlushCalls, RemoteEffect
<1>6. CASE FlushCall(t)
  BY <1>0, <1>6, FlushCalls, QuietEffect
<1>7. CASE ReapNode(t)
  BY <1>7, ReapStep
<1>8. CASE AllocPartial(t) \/ AllocNewSlab(t)
  BY <1>8, PartialStep, NewSlabStep
<1>9. CASE AllocFails(t)
  BY <1>0, <1>9, FailStep
<1>10. CASE FlushSwap(t)
  BY <1>0, <1>10, SwapStep, QuietEffect
<1>11. CASE FlushRetry(t)
  BY <1>0, <1>11, RetryStep, QuietEffect
<1> QED
  BY <1>1, <1>2, <1>3, <1>4, <1>5, <1>6, <1>7, <1>8, <1>9, <1>10, <1>11 DEF Call, Step

\* So does a step that changes nothing.
LEMMA UnchangedKeeps ==
  ASSUME TInv, UNCHANGED vars
  PROVE  TInv'
<1>1. UNCHANGED <<slab, bins, rtree, link, remote_free_head, batch, pc, sc_idx, head, old_head, node, place,
                  given>>
  BY DEF vars, heap, locals
<1>2. TypeOK'
  BY <1>1 DEF TInv, TypeOK
<1>3. Roads'
  BY <1>1 DEF TInv, Roads
<1> QED
  BY <1>1, <1>2, <1>3 DEF TInv

\* The invariant of the heaps: types, each slab's free list and count, each bin's
\* slab lists, and the lists of blocks on their way to their owners.
THEOREM Invariant == Spec => []TInv
<1>1. Init => TInv
  BY InitHolds
<1>2. TInv /\ [Next]_vars => TInv'
  BY StepKeeps, UnchangedKeeps DEF Next
<1> QED
  BY <1>1, <1>2, PTL DEF Spec

\* Type correctness; in particular no list head is ever WILD, so no link is read
\* in the wrong encoding or after the program has written over it.
THEOREM HeapTyped == Spec => []TypeOK
<1>1. TInv => TypeOK
  BY DEF TInv
<1> QED
  BY <1>1, Invariant, PTL

\* Every slab of a bin is current or on the one of the two doubly linked lists
\* that its count says; no empty slab is kept on either, and none is lost.
THEOREM SlabListsAreExact == Spec => []SlabListsExact
<1>1. ASSUME TInv PROVE SlabListsExact
  <2> SUFFICES ASSUME NEW t \in Threads, NEW k \in Classes
               PROVE  LET bin  == bins[t][k]
                          rest == Mine(t, k) \ {bin.current_slab}
                          full == {c \in rest : slab[c].used_objects = MaxObjects[k]}
                      IN  /\ bin.current_slab # NULL => bin.current_slab \in Mine(t, k)
                          /\ DoublyListOf(bin.full_list, NextSlab, PrevSlab, full, NULL)
                          /\ DoublyListOf(bin.partial_list, NextSlab, PrevSlab, rest \ full, NULL)
                          /\ \A c \in rest \ full : /\ slab[c].used_objects > 0
                                                   /\ slab[c].free_list_head # NULL
    BY DEF SlabListsExact
  <2> DEFINE bin  == bins[t][k]
             rest == Mine(t, k) \ {bin.current_slab}
             full == {c \in rest : slab[c].used_objects = MaxObjects[k]}
  <2>1. PICK v, M : v = ViewOf(slab, bins[t]) /\ M = Mine(t, k)
    OBVIOUS
  <2>2. BinOK(v, k, M) /\ M \subseteq rtree
    BY <1>1, <2>1 DEF TInv, HeapOK, Mine, MineOf
  <2>3. v.slab = slab /\ v.bin = bins[t] /\ NextSlab = Nexts(v) /\ PrevSlab = Prevs(v)
    BY <2>1 DEF ViewOf, NextSlab, PrevSlab, Nexts, Prevs
  <2>4. full = FullOf(v, k, M) /\ rest \ full = PartialOf(v, k, M)
    BY <2>1, <2>3 DEF FullOf, PartialOf
  <2>5. ASSUME NEW c \in rest \ full
        PROVE  slab[c].used_objects > 0 /\ slab[c].free_list_head # NULL
    <3>1. /\ c \in M /\ slab[c].bump_ptr = 0 /\ slab[c].used_objects > 0
          /\ slab[c].used_objects # MaxObjects[k]
      BY <2>1, <2>2, <2>3, <2>5 DEF BinOK
    <3>2. SlabOK(slab[c], c, place, link) /\ max_objects(slab[c]) = MaxObjects[k]
      BY <1>1, <2>1, <2>2, <3>1 DEF TInv, HeapOK, Mine, max_objects
    <3>3. slab[c].bump_ptr \notin 1..max_objects(slab[c])
      BY <3>1, SMTT(30)
    <3>4. Orderly(c, place)
      BY <1>1, Facts DEF BlocksOf, Tidy, Orderly
    <3>5. slab[c].used_objects # max_objects(slab[c])
      BY <3>1, <3>2
    <3>6. PICK s : s = slab[c]
      OBVIOUS
    <3>7. /\ SlabOK(s, c, place, link) /\ s.bump_ptr \notin 1..max_objects(s)
          /\ s.used_objects # max_objects(s)
      BY <3>2, <3>3, <3>5, <3>6
    <3>8. s.free_list_head # NULL
      BY <3>4, <3>7, SpentIsFull, SMTT(30)
    <3> QED
      BY <3>1, <3>6, <3>8
  <2>6. /\ bin.current_slab # NULL => bin.current_slab \in Mine(t, k)
        /\ DoublyListOf(bin.full_list, NextSlab, PrevSlab, full, NULL)
        /\ DoublyListOf(bin.partial_list, NextSlab, PrevSlab, rest \ full, NULL)
    <3>1. bin = v.bin[k]
      BY <2>3
    <3> HIDE DEF bin, rest, full
    <3> QED
      BY <2>1, <2>2, <2>3, <2>4, <3>1 DEF BinOK, Linked
  <2> QED
    BY <2>5, <2>6
<1> QED
  BY <1>1, Invariant, PTL

\* A block the program holds or that is on its way back lies in a slab that
\* still exists, and travels to the heap that owns it.
THEOREM BlocksAreBacked == Spec => []BlocksBacked
<1>1. ASSUME TInv PROVE BlocksBacked
  <2>1. ASSUME NEW b \in Blocks, place[b][1] \notin {"raw", "free"}, NEW o, o = slab[b[1]].owning_tlh,
               NEW t, t = place[b][2]
        PROVE  /\ b[1] \in rtree /\ b \in Carved(b[1])
               /\ place[b][1] = "batch" => o = batch[t].target_tlh /\ o # t
               /\ place[b][1] \in {"mail", "reap"} => o = t
    <3>1. b[1] \in rtree /\ b \in BlocksOf(b[1])
      BY <1>1, <2>1, Facts DEF Rests, BlocksOf
    <3>2. PICK s : s = slab[b[1]]
      OBVIOUS
    <3>3. SlabOK(s, b[1], place, link)
      BY <1>1, <3>1, <3>2 DEF TInv, HeapOK
    <3>4. b \in CarvedBy(s, b[1])
      BY <2>1, <3>1, <3>3 DEF SlabOK
    <3>5. b \in Carved(b[1])
      BY <3>2, <3>4 DEF Carved, CarvedBy, Items
    <3>6. place[b] \in Places
      BY <1>1, Facts
    <3>7. RouteOK(place[b], o, batch)
      BY <1>1, <2>1 DEF TInv, Roads
    <3>8. ASSUME place[b][1] = "batch" PROVE o = batch[t].target_tlh /\ o # t
      <4>1. t \in Threads /\ place[b] = <<"batch", t>>
        BY <2>1, <3>6, <3>8, SMTT(30) DEF Places
      <4>2. batch[t].count # 0
        BY <1>1, <4>1, Own, BatchEmpty DEF In
      <4>3. batch[t].target_tlh # t
        BY <1>1, <4>1, <4>2, Own DEF BatchOK
      <4> QED
        BY <3>7, <4>1, <4>3 DEF RouteOK
    <3>9. ASSUME place[b][1] \in {"mail", "reap"} PROVE o = t
      <4>1. t \in Threads /\ place[b] \in {<<"mail", t>>, <<"reap", t>>}
        BY <2>1, <3>6, <3>9, SMTT(30) DEF Places
      <4> QED
        BY <3>7, <4>1 DEF RouteOK
    <3> QED
      BY <3>1, <3>5, <3>8, <3>9
  <2> QED
    BY <2>1 DEF BlocksBacked
<1> QED
  BY <1>1, Invariant, PTL

----------------------------------------------------------------------------
(* The heaps implement BlockHeap.                                          *)

\* A block is counted as given out once while it is in the program's hands, and
\* not at all otherwise.
Ledger == \A x \in Blocks : given[x] = IF IsLive(place, x) THEN 1 ELSE 0

\* A step with an effect on block b keeps the counts right: a block that is given
\* out was at rest.
LEMMA LedgerStep ==
  ASSUME TInv, Ledger, NEW b \in OptBlocks, Effect(b)
  PROVE  Ledger'
<1>1. given \in [Blocks -> Int]
  BY DEF TInv, TypeOK
<1>2. \A x \in Blocks \ {b} : given'[x] = given[x] /\ (IsLive(place', x) <=> IsLive(place, x))
  BY <1>1 DEF Effect, Handed, Freed
<1>3. ASSUME b \in Blocks PROVE given'[b] = IF IsLive(place', b) THEN 1 ELSE 0
  <2>1. CASE Rests(place, b) /\ IsLive(place', b) /\ Handed(b)
    <3>1. given'[b] = given[b] + 1
      BY <1>1, <1>3, <2>1 DEF Handed
    <3>2. ~IsLive(place, b)
      BY <2>1, SMTT(30) DEF Rests, IsLive
    <3>3. given[b] = 0
      BY <1>3, <3>2 DEF Ledger
    <3> QED
      BY <2>1, <3>1, <3>3, SMTT(30)
  <2>2. CASE IsLive(place, b) /\ ~IsLive(place', b) /\ Freed(b)
    <3>1. given'[b] = given[b] - 1
      BY <1>1, <1>3, <2>2 DEF Freed
    <3>2. given[b] = 1
      BY <1>3, <2>2 DEF Ledger
    <3> QED
      BY <2>2, <3>1, <3>2, SMTT(30)
  <2>3. CASE Moves(place, b) /\ Rests(place', b) /\ given' = given
    <3>1. ~IsLive(place, b) /\ ~IsLive(place', b)
      BY <2>3, SMTT(30) DEF IsLive, Moves, Rests
    <3> QED
      BY <1>3, <2>3, <3>1 DEF Ledger
  <2>4. b # NULL
    BY <1>3, SlabsAssumption
  <2> QED
    BY <2>1, <2>2, <2>3, <2>4 DEF Effect
<1> QED
  BY <1>2, <1>3 DEF Ledger

\* The counts are right at all times.
LEMMA LedgerHolds == Spec => []Ledger
<1>1. Init => Ledger
  BY SMTT(30) DEF Init, Ledger, IsLive
<1>2. TInv /\ Ledger /\ [Next]_vars => Ledger'
  <2>1. ASSUME TInv, Ledger, Next PROVE Ledger'
    BY <2>1, StepKeeps, LedgerStep DEF Next
  <2>2. ASSUME Ledger, UNCHANGED vars PROVE Ledger'
    BY <2>2 DEF vars, Ledger, IsLive
  <2> QED
    BY <2>1, <2>2
<1> QED
  BY <1>1, <1>2, Invariant, PTL DEF Spec

\* Live, of slabs sl and counts gv.
LiveOf(sl, gv) == {<<b, sl[b[1]].size_class, gv[b]>> : b \in {x \in Blocks : gv[x] # 0}}

\* L holds the live blocks, once each, and their classes.
Once(L, sl, pl) ==
  /\ \A x \in Blocks : \A k, n : <<x, k, n>> \in L <=>
                                   IsLive(pl, x) /\ k = sl[x[1]].size_class /\ n = 1
  /\ \A a \in L : a = <<a[1], a[2], a[3]>> /\ a[1] \in Blocks /\ IsLive(pl, a[1])

\* That is what Live is when the counts are right.
LEMMA LiveIs ==
  ASSUME NEW sl, NEW gv, NEW pl, \A x \in Blocks : gv[x] = IF IsLive(pl, x) THEN 1 ELSE 0
  PROVE  Once(LiveOf(sl, gv), sl, pl)
<1>1. \A x \in Blocks : gv[x] # 0 <=> IsLive(pl, x)
  BY SMTT(30)
<1>2. ASSUME NEW x \in Blocks, NEW k, NEW n
      PROVE  <<x, k, n>> \in LiveOf(sl, gv) <=> IsLive(pl, x) /\ k = sl[x[1]].size_class /\ n = 1
  <2>1. <<x, k, n>> \in LiveOf(sl, gv) <=> gv[x] # 0 /\ k = sl[x[1]].size_class /\ n = gv[x]
    BY SMTT(30) DEF LiveOf
  <2>2. IsLive(pl, x) => gv[x] = 1
    OBVIOUS
  <2> QED
    BY <1>1, <2>1, <2>2
<1>3. \A a \in LiveOf(sl, gv) : a = <<a[1], a[2], a[3]>> /\ a[1] \in Blocks /\ gv[a[1]] # 0
  BY SMTT(30) DEF LiveOf
<1>4. \A a \in LiveOf(sl, gv) : a = <<a[1], a[2], a[3]>> /\ a[1] \in Blocks /\ IsLive(pl, a[1])
  BY <1>1, <1>3
<1> QED
  BY <1>2, <1>4 DEF Once

\* Classes of blocks in use do not change, so Live follows the places.
LEMMA LiveSame ==
  ASSUME TInv, NEW b, Effect(b), NEW x \in Blocks \ {b}, NEW k
  PROVE  (IsLive(place', x) /\ k = slab'[x[1]].size_class) <=> (IsLive(place, x) /\ k = slab[x[1]].size_class)
<1>1. IsLive(place, x) => ~Rests(place, x)
  BY SMTT(30) DEF IsLive, Rests
<1>2. IsLive(place, x) => slab'[x[1]].size_class = slab[x[1]].size_class
  BY <1>1, Facts DEF Effect, Keeps
<1> QED
  BY <1>2 DEF Effect

\* A step with that effect is a step of BlockHeap, or none.
LEMMA EffectIs ==
  ASSUME TInv, TInv', Ledger, Ledger', NEW b \in OptBlocks, Effect(b)
  PROVE  [BH!Next]_(BH!vars)
<1>1. \A x \in Blocks \ {b} : x \in Pending' <=> x \in Pending
  BY DEF Pending, Moves, Effect
<1>2. Pending \subseteq Blocks /\ Pending' \subseteq Blocks
  BY DEF Pending
<1>3. /\ \A x \in Blocks : \A k, n : <<x, k, n>> \in Live <=>
                                      IsLive(place, x) /\ k = slab[x[1]].size_class /\ n = 1
      /\ \A a \in Live : a = <<a[1], a[2], a[3]>> /\ a[1] \in Blocks /\ IsLive(place, a[1])
  <2>1. Live = LiveOf(slab, given)
    BY DEF Live, LiveOf
  <2>2. \A x \in Blocks : given[x] = IF IsLive(place, x) THEN 1 ELSE 0
    BY DEF Ledger
  <2>3. Once(LiveOf(slab, given), slab, place)
    BY <2>2, LiveIs
  <2> QED
    BY <2>1, <2>3 DEF Once
<1>4. /\ \A x \in Blocks : \A k, n : <<x, k, n>> \in Live' <=>
                                      IsLive(place', x) /\ k = slab'[x[1]].size_class /\ n = 1
      /\ \A a \in Live' : a = <<a[1], a[2], a[3]>> /\ a[1] \in Blocks /\ IsLive(place', a[1])
  <2>1. Live' = LiveOf(slab', given')
    BY DEF Live, LiveOf
  <2>2. \A x \in Blocks : given'[x] = IF IsLive(place', x) THEN 1 ELSE 0
    BY DEF Ledger, IsLive
  <2>3. Once(LiveOf(slab', given'), slab', place')
    BY <2>2, LiveIs
  <2> QED
    BY <2>1, <2>3 DEF Once
<1>5. ASSUME NEW x \in Blocks \ {b}, NEW k, NEW n
      PROVE  <<x, k, n>> \in Live' <=> <<x, k, n>> \in Live
  <2>1. <<x, k, n>> \in Live' <=> IsLive(place', x) /\ k = slab'[x[1]].size_class /\ n = 1
    BY <1>4
  <2>2. <<x, k, n>> \in Live <=> IsLive(place, x) /\ k = slab[x[1]].size_class /\ n = 1
    BY <1>3
  <2>3. (IsLive(place', x) /\ k = slab'[x[1]].size_class) <=> (IsLive(place, x) /\ k = slab[x[1]].size_class)
    BY LiveSame
  <2> QED
    BY <2>1, <2>2, <2>3
<1>6. /\ \A a \in Live : a[1] \in Blocks /\ IsLive(place, a[1])
      /\ \A a \in Live' : a[1] \in Blocks /\ IsLive(place', a[1])
  BY <1>4, <1>3
<1>7. \A a : a[1] # b => (a \in Live' <=> a \in Live)
  BY <1>4, <1>3, <1>5, SMTT(30)
<1>8. CASE b = NULL
  <2>1. b \notin Blocks
    BY <1>8, SlabsAssumption
  <2>2. Pending' = Pending
    BY <1>1, <1>2, <2>1
  <2>3. Live' = Live
    BY <1>6, <1>7, <2>1
  <2> QED
    BY <2>2, <2>3 DEF BH!vars
<1>9. CASE b \in Blocks /\ Rests(place, b) /\ IsLive(place', b)
  <2>1. PICK k : k = slab'[b[1]].size_class
    OBVIOUS
  <2>2. k \in Classes
    <3>1. ~Rests(place', b)
      BY <1>9, SMTT(30) DEF IsLive, Rests
    <3>2. b[1] \in rtree'
      BY <1>9, <3>1, SMTT(30) DEF TInv, HeapOK, Rests
    <3> QED
      BY <2>1, <3>2 DEF TInv, HeapOK, SlabOK
  <2>3. ~IsLive(place, b) /\ b \notin Pending /\ b \notin Pending'
    BY <1>9, SMTT(30) DEF Rests, IsLive, Pending
  <2>4. Pending' = Pending
    BY <1>1, <1>2, <2>3, SMTT(30)
  <2>5. Live' = Live \cup {<<b, k, 1>>}
    <3>1. \A j, n : <<b, j, n>> \in Live' <=> j = k /\ n = 1
      BY <1>4, <1>9, <2>1
    <3>2. \A a \in Live : a[1] # b
      BY <1>6, <2>3
    <3> QED
      BY <1>4, <1>7, <3>1, <3>2, SMTT(30)
  <2>6. b \in Blocks \ BH!InUse
    BY <1>6, <1>9, <2>3 DEF BH!InUse
  <2> QED
    BY <2>2, <2>4, <2>5, <2>6 DEF BH!Next, BH!Alloc
<1>10. CASE b \in Blocks /\ IsLive(place, b) /\ ~IsLive(place', b)
  <2>1. PICK a : a = <<b, slab[b[1]].size_class, 1>>
    OBVIOUS
  <2>2. a \in Live /\ a[1] = b /\ \A j, n : <<b, j, n>> \in Live => <<b, j, n>> = a
    BY <1>3, <1>10, <2>1
  <2>3. Live' = Live \ {a}
    BY <1>4, <1>3, <1>7, <1>10, <2>2, SMTT(30)
  <2>4. b \notin Pending
    BY <1>10, SMTT(30) DEF IsLive, Pending
  <2>5. Pending' \in {Pending, Pending \cup {a[1]}}
    BY <1>1, <1>2, <1>10, <2>2, <2>4, SMTT(30)
  <2>6. BH!Free(a)
    BY <2>3, <2>5 DEF BH!Free
  <2> QED
    BY <2>2, <2>6 DEF BH!Next
<1>11. CASE b \in Blocks /\ Moves(place, b) /\ Rests(place', b)
  <2>1. b \in Pending /\ b \notin Pending'
    BY <1>11 DEF Pending, Moves, Rests
  <2>2. ~IsLive(place, b) /\ ~IsLive(place', b)
    BY <1>11, SMTT(30) DEF IsLive, Moves, Rests
  <2>3. Live' = Live
    BY <1>6, <1>7, <2>2
  <2>4. Pending' = Pending \ {b}
    BY <1>1, <1>2, <2>1
  <2> QED
    BY <2>1, <2>3, <2>4 DEF BH!Next, BH!Reclaim
<1> QED
  BY <1>8, <1>9, <1>10, <1>11 DEF Effect

\* Together the heaps implement BlockHeap: every hand-out raises the count of its
\* block, and it never exceeds one, so no block is handed out while the program
\* holds it; nor while a remote free of it is under way; and none changes its
\* class while it is held.
THEOREM HeapsImplementBlockHeap == Spec => ImplementsBlockHeap
<1>1. Init => BH!Init
  BY SMTT(30) DEF Init, BH!Init, Live, Pending, At
<1>2. TInv /\ TInv' /\ Ledger /\ Ledger' /\ [Next]_vars => [BH!Next]_(BH!vars)
  <2>1. ASSUME TInv, TInv', Ledger, Ledger', Next PROVE [BH!Next]_(BH!vars)
    BY <2>1, StepKeeps, EffectIs DEF Next
  <2>2. ASSUME UNCHANGED vars PROVE UNCHANGED (BH!vars)
    BY <2>2 DEF vars, heap, BH!vars, Live, Pending, At
  <2> QED
    BY <2>1, <2>2
<1> QED
  BY <1>1, <1>2, Invariant, LedgerHolds, PTL DEF Spec, ImplementsBlockHeap, BH!Spec

\* Every list of freed blocks is intact: free lists, mailboxes, batches (with
\* their tails and counts) and the lists being reaped.
THEOREM BlockListsAreExact == Spec => []BlockListsExact
<1>1. ASSUME TInv PROVE BlockListsExact
  <2>1. /\ NextClear = Clears(link) /\ NextFree = Frees(link)
        /\ \A where, who : At(where, who) = In(place, where, who)
    BY DEF NextClear, NextFree, Clears, Frees, At, In
  <2>2. ASSUME NEW c \in rtree
        PROVE  ListOf(slab[c].free_list_head, NextFree, FreeBlocks(c), NULL)
    <3>1. FreeBlocks(c) = FreeOf(c, place)
      BY DEF FreeBlocks, FreeOf, At, BlocksOf
    <3>2. SlabOK(slab[c], c, place, link)
      BY <1>1 DEF TInv, HeapOK
    <3> QED
      BY <2>1, <3>1, <3>2 DEF SlabOK
  <2>3. ASSUME NEW t \in Threads, NEW B, B = At("batch", t),
               NEW last, last = NextClear[batch[t].tail]
        PROVE  /\ Numbered(B, batch[t].count)
               /\ B # {} => batch[t].tail \in B /\ ListOf(batch[t].head, NextClear, B, last)
               /\ pc[t] # "flush" /\ B # {} => last = NULL
               /\ At("node", t) = IF node[t] = NULL THEN {} ELSE {node[t]}
    <3>1. /\ BatchOK(t, batch[t], place, link, pc[t], old_head[t], node[t])
          /\ batch[t].count \in Nat
      BY <1>1, Own
    <3>2. Numbered(B, batch[t].count)
      BY <2>1, <2>3, <3>1 DEF BatchOK
    <3>3. B # {} => batch[t].count # 0
      BY <2>1, <2>3, <3>1, BatchEmpty
    <3> QED
      BY <2>1, <2>3, <3>1, <3>2, <3>3 DEF BatchOK
  <2>4. \A t \in Threads : /\ ListOf(remote_free_head[t], NextClear, At("mail", t), NULL)
                           /\ ListOf(head[t], NextClear, At("reap", t), NULL)
    BY <1>1, <2>1, Own DEF Chain
  <2> QED
    BY <2>2, <2>3, <2>4 DEF BlockListsExact
<1> QED
  BY <1>1, Invariant, PTL

\* used_objects is exactly the number of blocks of the slab that the program
\* holds or that are on their way back, so no slab is destroyed while one of
\* its blocks is out.
THEOREM UsedObjectsAreExact == Spec => []UsedObjectsExact
<1>1. ASSUME TInv PROVE UsedObjectsExact
  <2> SUFFICES ASSUME NEW c \in rtree
               PROVE  Numbered(Carved(c) \ At("free", NULL), slab[c].used_objects)
    BY DEF UsedObjectsExact
  <2>1. PICK s : s = slab[c]
    OBVIOUS
  <2>2. SlabOK(s, c, place, link) /\ s.used_objects \in Nat
    BY <1>1, <2>1 DEF TInv, HeapOK, SlabOK, SlabType
  <2>3. Carved(c) = CarvedBy(s, c)
    BY <2>1 DEF Carved, CarvedBy, Items
  <2>4. Carved(c) \ At("free", NULL) = OutOf(s, c, place)
    <3>1. \A b \in BlocksOf(c) : b \in At("free", NULL) <=> place[b][1] = "free"
      BY <1>1, Facts, SMTT(30) DEF At, Tidy, BlocksOf
    <3>2. \A b \in BlocksOf(c) : place[b][1] # "raw" <=> b \in CarvedBy(s, c)
      BY <2>2 DEF SlabOK
    <3>3. CarvedBy(s, c) \subseteq Items(s, c) /\ Items(s, c) \subseteq BlocksOf(c)
      BY DEF CarvedBy, Items
    <3> QED
      BY <2>3, <3>1, <3>2, <3>3 DEF OutOf, Rests
  <2> QED
    BY <2>1, <2>2, <2>4 DEF SlabOK
<1> QED
  BY <1>1, Invariant, PTL
============================================================================
