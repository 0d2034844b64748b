--------------------------- MODULE RegistryProofs ---------------------------
(***************************************************************************)
(* For any number of threads, leaves and blocks: no leaf of the radix tree *)
(* is lost, what is not in use resolves to nothing, what is allocated is   *)
(* found, and the radix tree implements ChunkIndex.  Here blocks change    *)
(* owners: an object is created, passed to lz_free (which may look it up   *)
(* twice), or given back.                                                  *)
(***************************************************************************)
EXTENDS RegistrySteps

USE ZenonT(40)

(* lz_rtree_set has returned and the loop goes on to the next block.       *)
LEMMA NextBlockMore ==
  ASSUME RegInv, NEW t \in Threads, NextBlock(t), MoreBlocks(t)
  PROVE  RegInv' /\ Invisible
<1> DEFINE p == job[t].obj
           o == Set(op[t].block + 1, Value(t))
<1>1. /\ op[t].pc = "ret" /\ job[t].kind \in {"register", "clear"}
      /\ Work(t, job[t].kind, p, job[t].k + 1) /\ Call(t, o)
      /\ UNCHANGED <<leaves, entries, mapped, missed, use, header, objects>>
  BY DEF NextBlock, At
<1>2. /\ p \in Objects /\ job[t].k \in Nat /\ p.base \in Nat /\ p.total \in Nat
      /\ p.total > 0 /\ p.ptr \in Extent(p)
      /\ job[t].k < p.total /\ op[t].block = p.base + job[t].k
      /\ \A b \in Extent(p) : b \in Blocks /\ b \in Nat /\ Shown(t, b)
  BY <1>1, OwnBlock DEF RegInv, Control, Jobs, Objects
<1>3. op[t].block + 1 \in Blocks /\ Value(t) \in Blocks \cup {NULL}
  BY <1>2, BaseInExtent, SMTT(30) DEF MoreBlocks, Extent, Value
<1>4. o \in Ops /\ o.pc = "load" /\ o.block = op[t].block + 1 /\ o.value = Value(t)
  BY <1>3, CallTypes DEF Set
<1> HIDE DEF o
<1>5. ASSUME job'[t] = [kind |-> job[t].kind, obj |-> p, k |-> job[t].k + 1], op'[t] = o
      PROVE  Control(t)'
  BY <1>1, <1>2, <1>4, <1>5, SMTT(30) DEF Control, Value, MoreBlocks
<1>6. ASSUME NEW b \in Extent(p), Lookup(b)' = Lookup(b), op'[t] = o,
             job'[t] = [kind |-> job[t].kind, obj |-> p, k |-> job[t].k + 1]
      PROVE  Shown(t, b)'
  <2>1. Shown(t, b) /\ (Done(t, b)' <=> Done(t, b))
    BY <1>1, <1>2, <1>4, <1>6, SMTT(30) DEF Done
  <2> QED
    BY <1>1, <1>6, <2>1, SMTT(30) DEF Shown, FoundAt
<1>7. job[t].kind \in Kinds \ {"none"} /\ job[t].k + 1 \in Nat
  BY <1>1, <1>2, SMTT(30) DEF Kinds
<1> QED
  BY <1>1, <1>2, <1>4, <1>5, <1>6, <1>7, CallGoesOn, SMTT(30)

(* The loop over the blocks of a clear has ended: nothing of the object is *)
(* left in the tree.                                                       *)
LEMMA ClearEnds ==
  ASSUME RegInv, NEW t \in Threads, NextBlock(t), ~MoreBlocks(t), job[t].kind = "clear"
  PROVE  RegInv' /\ Invisible
<1> DEFINE p == job[t].obj
<1>1. /\ op[t].pc = "ret" /\ Work(t, "release", p, job[t].k) /\ Call(t, Idle)
      /\ UNCHANGED <<leaves, entries, mapped, missed, use, header, objects>>
  BY DEF NextBlock, At
<1>2. /\ p \in Objects /\ job[t].k \in Nat /\ p.base \in Nat /\ p.total \in Nat
      /\ p.ptr \in Extent(p) /\ job[t].k < p.total /\ op[t].block = p.base + job[t].k
      /\ \A b \in Extent(p) : b \in Nat /\ Shown(t, b)
  BY <1>1, OwnBlock DEF RegInv, Control, Jobs, Objects
<1>3. Idle \in Ops /\ Idle.pc = "idle" /\ "release" \in Kinds \ {"none"}
  BY CallTypes DEF Idle, Kinds
<1>4. ASSUME job'[t] = [kind |-> "release", obj |-> p, k |-> job[t].k], op'[t] = Idle
      PROVE  Control(t)'
  BY <1>3, <1>4, SMTT(30) DEF Control
<1>5. ASSUME NEW b \in Extent(p), Lookup(b)' = Lookup(b), op'[t] = Idle,
             job'[t] = [kind |-> "release", obj |-> p, k |-> job[t].k]
      PROVE  Shown(t, b)'
  <2>1. Done(t, b)
    BY <1>1, <1>2, SMTT(30) DEF Done, MoreBlocks, Extent
  <2> QED
    BY <1>2, <1>5, <2>1, SMTT(30) DEF Shown
<1> QED
  BY <1>1, <1>2, <1>3, <1>4, <1>5, CallGoesOn, SMTT(30)

(* lz_free has found a chunk: it is the object's, and its header counts    *)
(* the object's blocks.                                                    *)
LEMMA FreeFoundKeeps ==
  ASSUME RegInv, NEW t \in Threads, FreeFound(t)
  PROVE  RegInv' /\ Invisible
<1> DEFINE p == job[t].obj
           q == [base |-> p.base, total |-> p.total, ptr |-> p.base]
           o == Set(p.base, NULL)
<1>1. /\ op[t].pc = "ret" /\ job[t].kind = "lookup" /\ op[t].value # NULL
      /\ UNCHANGED <<leaves, entries, mapped, missed, objects>>
  BY DEF FreeFound, At
<1>2. /\ Busy(t) /\ p \in Objects /\ p.base \in Nat /\ p.total \in Nat /\ p.total > 0
      /\ op[t].value = p.base
      /\ \A b \in Extent(p) : b \in Blocks /\ b \in Nat /\ Shown(t, b)
  BY <1>1, OwnBlock DEF RegInv, Control, Jobs, Objects
<1>3. header[p.base] # NULL /\ header[p.base].total = p.total
  BY <1>2 DEF RegInv, Ownership, Sound
<1>4. Work(t, "clear", q, 0) /\ Call(t, o) /\ UNCHANGED <<use, header>>
  BY <1>2, <1>3 DEF FreeFound, BeforeClear
<1>5. p.base \in Extent(p) /\ q \in Objects
  BY <1>2, BaseInExtent DEF Objects
<1>6. o \in Ops /\ o.pc = "load" /\ o.block = p.base /\ o.value = NULL /\ "clear" \in Kinds \ {"none"}
  BY <1>2, <1>5, CallTypes DEF Set, Kinds
<1>7. q.base = p.base /\ q.total = p.total /\ q.ptr = p.base
  BY SMTT(30)
<1> HIDE DEF o, q
<1>8. ASSUME job'[t] = [kind |-> "clear", obj |-> q, k |-> 0], op'[t] = o
      PROVE  Control(t)'
  BY <1>2, <1>6, <1>7, <1>8, SMTT(30) DEF Control, Value
<1>9. ASSUME NEW b \in Extent(p), Lookup(b)' = Lookup(b), op'[t] = o,
             job'[t] = [kind |-> "clear", obj |-> q, k |-> 0]
      PROVE  Shown(t, b)'
  <2>1. ~Done(t, b)'
    BY <1>2, <1>6, <1>9, SMTT(30) DEF Done, Extent
  <2> QED
    BY <1>1, <1>2, <1>7, <1>9, <2>1, SMTT(30) DEF Shown, FoundAt
<1> QED
  BY <1>1, <1>2, <1>4, <1>5, <1>6, <1>7, <1>8, <1>9, CallGoesOn, SMTT(30)

(* The second lookup of lz_free starts as the first did.                   *)
LEMMA LookAgain ==
  ASSUME RegInv, NEW t \in Threads, FreeMiss(t), job[t].k = 0
  PROVE  RegInv' /\ Invisible
<1> DEFINE p == job[t].obj
           o == Get(op[t].block)
<1>1. /\ op[t].pc = "ret" /\ job[t].kind = "lookup" /\ Work(t, "lookup", p, 1) /\ Call(t, o)
      /\ UNCHANGED <<leaves, entries, mapped, missed, use, header, objects>>
  BY DEF FreeMiss, At
<1>2. /\ p \in Objects /\ op[t].block = p.ptr /\ p.ptr \in Extent(p)
      /\ \A b \in Extent(p) : b \in Blocks /\ Shown(t, b)
  BY <1>1, OwnBlock DEF RegInv, Control, Jobs
<1>3. o \in Ops /\ o.pc = "get" /\ o.block = p.ptr /\ o.value = NULL /\ "lookup" \in Kinds \ {"none"}
  BY <1>2, CallTypes DEF Get, Kinds
<1> HIDE DEF o
<1>4. ASSUME job'[t] = [kind |-> "lookup", obj |-> p, k |-> 1], op'[t] = o
      PROVE  Control(t)'
  BY <1>3, <1>4, SMTT(30) DEF Control
<1>5. ASSUME NEW b \in Extent(p), Lookup(b)' = Lookup(b), op'[t] = o,
             job'[t] = [kind |-> "lookup", obj |-> p, k |-> 1]
      PROVE  Shown(t, b)'
  BY <1>1, <1>2, <1>5, SMTT(30) DEF Shown, FoundAt
<1> QED
  BY <1>1, <1>2, <1>3, <1>4, <1>5, CallGoesOn, SMTT(30)

(* A call that begins or ends with lookups as they are, when the new       *)
(* owners of blocks are apart and the call's own state is in order.        *)
LEMMA HandOver ==
  ASSUME RegInv, NEW t \in Threads, op[t].pc \in {"idle", "ret"},
         NEW j \in Jobs, job' = [job EXCEPT ![t] = j],
         NEW o \in Ops, o.pc \in {"idle", "load", "get"}, Call(t, o),
         UNCHANGED <<leaves, entries, mapped, missed>>
  PROVE  /\ TreeInv' /\ Invisible /\ op'[t] = o
         /\ job' \in [Threads -> Jobs] /\ job'[t] = j /\ \A u \in Threads \ {t} : job'[u] = job[u]
         /\ \A u \in Threads \ {t} : Control(u)' /\ \A b \in Extent(job'[u].obj) : Shown(u, b)'
         /\ \A p \in objects : \A b \in Extent(p) : FoundAt(b, p.base)'
<1>1. TreeInv' /\ Invisible /\ op'[t] = o /\ \A u \in Threads \ {t} : op'[u] = op[u]
  BY NewCall
<1> DEFINE S == {}
<1>2. \A b : b \notin S
  BY SMTT(30)
<1> HIDE DEF S
<1>3. \A b \in Blocks \ S : Lookup(b)' = Lookup(b) /\ (b \in missed => b \in missed')
  BY <1>1 DEF Invisible
<1> QED
  BY <1>1, <1>2, <1>3, OthersKeep

(* A call ends: its object is handed to the program, or left to nobody.    *)
LEMMA CallEnds ==
  ASSUME RegInv, NEW t \in Threads, op[t].pc = "ret", Finish(t),
         UNCHANGED <<leaves, entries, mapped, missed, use, header>>,
         \/ UNCHANGED objects
         \/ /\ objects' = objects \cup {job[t].obj}
            /\ \A b \in Extent(job[t].obj) : FoundAt(b, job[t].obj.base)
  PROVE  RegInv' /\ Invisible
<1>1. Busy(t) /\ job[t].obj \in Objects /\ \A b \in Extent(job[t].obj) : b \in Blocks
  BY OwnBlock DEF Jobs
<1>2. NoJob \in Jobs /\ NoJob.kind = "none" /\ Idle \in Ops /\ Idle.pc = "idle"
  BY CallTypes DEF NoJob, NoObject, Jobs, Kinds, Objects, Idle
<1>3. /\ TreeInv' /\ Invisible /\ op'[t] = Idle
      /\ job' \in [Threads -> Jobs] /\ job'[t] = NoJob /\ \A u \in Threads \ {t} : job'[u] = job[u]
      /\ \A u \in Threads \ {t} : Control(u)' /\ \A b \in Extent(job'[u].obj) : Shown(u, b)'
      /\ \A p \in objects : \A b \in Extent(p) : FoundAt(b, p.base)'
  BY <1>2, HandOver DEF Finish
<1>4. RegTypes'
  BY <1>1, <1>3 DEF RegInv, RegTypes
<1>5. \A o : Sound(o)' <=> Sound(o)
  BY DEF Sound
<1>6. \A u \in Threads : Busy(u)' => u # t /\ Busy(u) /\ job'[u] = job[u]
  BY <1>2, <1>3 DEF Busy
<1>7. \A o \in objects' : o \in objects \/ o = job[t].obj
  BY SMTT(30)
<1>8. Ownership'
  <2>1. \A o \in objects' : Sound(o)'
    BY <1>1, <1>5, <1>7 DEF RegInv, Ownership
  <2>2. \A o, p \in objects' : o # p => Apart(o, p)
    BY <1>1, <1>7 DEF RegInv, Ownership, Apart
  <2>3. \A u \in Threads : \A o \in objects' : Busy(u)' => Apart(job'[u].obj, o)
    BY <1>1, <1>6, <1>7 DEF RegInv, Ownership
  <2>4. \A u, v \in Threads : u # v /\ Busy(u)' /\ Busy(v)' => Apart(job'[u].obj, job'[v].obj)
    BY <1>6 DEF RegInv, Ownership
  <2> QED
    BY <1>5, <1>6, <2>1, <2>2, <2>3, <2>4 DEF RegInv, Ownership
<1>9. Control(t)' /\ \A b \in Extent(job'[t].obj) : Shown(t, b)'
  BY <1>2, <1>3 DEF Control, Shown
<1>10. NothingStale'
  BY <1>3 DEF RegInv, Contents, NothingStale, Invisible
<1>11. \A o \in objects' : \A b \in Extent(o) : FoundAt(b, o.base)'
  BY <1>1, <1>3 DEF FoundAt, Invisible
<1> QED
  BY <1>3, <1>4, <1>8, <1>9, <1>10, <1>11 DEF RegInv, Contents

(* lz_free takes an object from the program and looks it up.               *)
LEMMA FreeCallKeeps ==
  ASSUME RegInv, NEW t \in Threads, FreeCall(t)
  PROVE  RegInv' /\ Invisible
<1>1. PICK o \in objects : objects' = objects \ {o} /\ Work(t, "lookup", o, 0) /\ Call(t, Get(o.ptr))
  BY DEF FreeCall
<1>2. ~Busy(t) /\ op[t].pc = "idle" /\ UNCHANGED <<leaves, entries, mapped, missed, use, header>>
  BY DEF FreeCall, RegInv, Control, Busy
<1>3. o \in Objects /\ Sound(o) /\ o.ptr \in Blocks
  BY DEF RegInv, RegTypes, Ownership, Sound
<1> DEFINE j == [kind |-> "lookup", obj |-> o, k |-> 0]
<1>4. j \in Jobs /\ Get(o.ptr) \in Ops /\ Get(o.ptr).pc = "get"
  BY <1>3, CallTypes DEF Jobs, Kinds, Get
<1>5. /\ TreeInv' /\ Invisible /\ op'[t] = Get(o.ptr)
      /\ job' \in [Threads -> Jobs] /\ job'[t] = j /\ \A u \in Threads \ {t} : job'[u] = job[u]
      /\ \A u \in Threads \ {t} : Control(u)' /\ \A b \in Extent(job'[u].obj) : Shown(u, b)'
      /\ \A p \in objects : \A b \in Extent(p) : FoundAt(b, p.base)'
  BY <1>1, <1>2, <1>4, HandOver DEF Work
<1>6. RegTypes'
  BY <1>1, <1>2, <1>5 DEF RegInv, RegTypes
<1>7. \A p : Sound(p)' <=> Sound(p)
  BY <1>2 DEF Sound
<1>8. job'[t].obj = o /\ \A u \in Threads : Busy(u)' => u = t \/ (Busy(u) /\ job'[u] = job[u])
  BY <1>5, SMTT(30) DEF Busy
<1> HIDE DEF j
<1>9. Ownership'
  <2>1. \A u \in Threads : Busy(u)' => Sound(job[u].obj)'
    BY <1>3, <1>7, <1>8 DEF RegInv, Ownership
  <2>2. \A u \in Threads : \A p \in objects' : Busy(u)' => Apart(job'[u].obj, p)
    BY <1>1, <1>8 DEF RegInv, Ownership
  <2>3. \A u, v \in Threads : u # v /\ Busy(u)' /\ Busy(v)' => Apart(job'[u].obj, job'[v].obj)
    BY <1>1, <1>8 DEF RegInv, Ownership, Apart
  <2> QED
    BY <1>1, <1>7, <2>1, <2>2, <2>3 DEF RegInv, Ownership
<1>10. Control(t)'
  BY <1>5, SMTT(30) DEF Control, Get, j
<1>11. NothingStale'
  BY <1>2, <1>5 DEF RegInv, Contents, NothingStale, Invisible
<1>12. \A b \in Extent(job'[t].obj) : Shown(t, b)'
  BY <1>5, <1>8, SMTT(30) DEF Shown, j, FoundAt
<1> QED
  BY <1>1, <1>5, <1>6, <1>9, <1>10, <1>11, <1>12 DEF RegInv, Contents

(* A new object: blocks that nobody owns and that resolve to nothing.      *)
LEMMA FormatKeeps ==
  ASSUME RegInv, NEW t \in Threads, job[t].kind = "none",
         NEW o \in Objects, o.total > 0, o.ptr \in Extent(o),
         \A b \in Extent(o) : b \in Blocks /\ use[b] # "held",
         NEW direct \in BOOLEAN, Format(t, o, direct)
  PROVE  RegInv' /\ Invisible
<1>1. /\ ~Busy(t) /\ op[t].pc = "idle" /\ UNCHANGED <<leaves, entries, mapped, objects>>
      /\ missed' = missed \ Extent(o)
  BY DEF Format, RegInv, Control, Busy
<1>2. o.base \in Extent(o) /\ o.base \in Blocks /\ o.base \in Nat /\ \A b \in Extent(o) : b \in Nat
  BY BaseInExtent
<1> DEFINE j == [kind |-> "register", obj |-> o, k |-> 0]
           h == [direct |-> direct, total |-> o.total]
<1>3. /\ j \in Jobs /\ h \in [direct : BOOLEAN, total : Nat]
      /\ Set(o.base, o.base) \in Ops /\ Set(o.base, o.base).pc = "load"
  BY <1>2, CallTypes DEF Jobs, Kinds, Objects, Set
<1>4. TreeInv' /\ Invisible /\ op'[t] = Set(o.base, o.base) /\ \A u \in Threads \ {t} : op'[u] = op[u]
  BY <1>1, <1>3, NewCall DEF Format
<1>5. /\ use' \in [Blocks -> {"os", "pool", "held"}]
      /\ \A b \in Blocks : use'[b] = IF b \in Extent(o) THEN "held" ELSE use[b]
  BY DEF Format, RegInv, RegTypes
<1>6. /\ header' \in [Blocks -> [direct : BOOLEAN, total : Nat] \cup {NULL}]
      /\ header'[o.base] = h /\ \A b \in Blocks \ {o.base} : header'[b] = header[b]
  BY <1>2, <1>3 DEF Format, RegInv, RegTypes
<1>7. Sound(o)'
  <2>1. h # NULL /\ h.total = o.total
    BY RegistryAssumption, <1>3
  <2> QED
    BY <1>2, <1>5, <1>6, <2>1 DEF Sound
<1>8. ASSUME NEW p \in Objects, Sound(p) PROVE Apart(p, o) /\ Apart(o, p) /\ Sound(p)'
  <2>1. Apart(p, o) /\ Apart(o, p)
    BY <1>8 DEF Apart, Sound
  <2>2. p.base \in Extent(p) /\ p.base \in Blocks
    BY <1>8, BaseInExtent DEF Sound
  <2>3. header'[p.base] = header[p.base]
    BY <1>2, <1>6, <2>1, <2>2 DEF Apart
  <2> QED
    BY <1>5, <1>8, <2>1, <2>3 DEF Sound
<1>9. /\ \A p \in objects : Sound(p)' /\ Apart(p, o) /\ Apart(o, p)
      /\ \A u \in Threads : Busy(u) =>
           Sound(job[u].obj) /\ Apart(job[u].obj, o) /\ Apart(o, job[u].obj)
  BY <1>8 DEF RegInv, RegTypes, Ownership, Jobs
<1>10. /\ job' \in [Threads -> Jobs] /\ job'[t] = j /\ \A u \in Threads \ {t} : job'[u] = job[u]
       /\ \A u \in Threads \ {t} : Control(u)' /\ \A b \in Extent(job'[u].obj) : Shown(u, b)'
       /\ \A p \in objects : \A b \in Extent(p) : FoundAt(b, p.base)'
  <2>1. \A b \in Blocks \ Extent(o) : Lookup(b)' = Lookup(b) /\ (b \in missed => b \in missed')
    BY <1>1, <1>4 DEF Invisible
  <2>2. job' = [job EXCEPT ![t] = j]
    BY DEF Format, Work
  <2>3. /\ \A p \in objects : \A b \in Extent(p) : b \notin Extent(o)
        /\ \A u \in Threads \ {t} : Busy(u) => \A b \in Extent(job[u].obj) : b \notin Extent(o)
    BY <1>9 DEF Apart
  <2> QED
    BY <1>3, <1>4, <2>1, <2>2, <2>3, OthersKeep
<1>11. RegTypes'
  BY <1>1, <1>5, <1>6, <1>10 DEF RegInv, RegTypes
<1>12. job'[t].obj = o /\ \A u \in Threads : Busy(u)' => u = t \/ (Busy(u) /\ job'[u] = job[u])
  BY <1>10, SMTT(30) DEF Busy
<1> HIDE DEF j, h
<1>13. Ownership'
  <2>1. \A u \in Threads : Busy(u)' => Sound(job[u].obj)'
    BY <1>7, <1>8, <1>9, <1>12 DEF RegInv, RegTypes, Jobs
  <2>2. \A u \in Threads : \A p \in objects' : Busy(u)' => Apart(job'[u].obj, p)
    BY <1>1, <1>9, <1>12 DEF RegInv, Ownership
  <2>3. \A u, v \in Threads : u # v /\ Busy(u)' /\ Busy(v)' => Apart(job'[u].obj, job'[v].obj)
    BY <1>9, <1>12 DEF RegInv, Ownership
  <2> QED
    BY <1>1, <1>9, <2>1, <2>2, <2>3 DEF RegInv, Ownership
<1>14. Control(t)'
  BY <1>2, <1>4, <1>10, SMTT(30) DEF Control, Set, Value, j, Objects
<1>15. NothingStale'
  BY <1>4, <1>5, SMTT(30) DEF RegInv, Contents, NothingStale, Invisible
<1>16. ASSUME NEW b \in Extent(o) PROVE Shown(t, b)'
  <2>1. Lookup(b)' = NULL
    BY <1>4 DEF RegInv, Contents, NothingStale, Invisible
  <2>2. ~Done(t, b)'
    BY <1>2, <1>4, SMTT(30) DEF Done, Set, Extent, Objects
  <2> QED
    BY <1>10, <2>1, <2>2, SMTT(30) DEF Shown, j
<1> QED
  BY <1>1, <1>4, <1>10, <1>11, <1>12, <1>13, <1>14, <1>15, <1>16 DEF RegInv, Contents

(* Memory is given back when the tree shows nothing of it.                 *)
LEMMA GiveBackKeeps ==
  ASSUME RegInv, NEW t \in Threads, GiveBack(t)
  PROVE  RegInv' /\ Invisible
<1> DEFINE o == job[t].obj
<1>1. /\ job[t].kind = "release" /\ Busy(t) /\ op[t].pc = "idle" /\ Finish(t)
      /\ UNCHANGED <<leaves, entries, mapped, missed, objects>>
  BY DEF GiveBack, RegInv, Control, Busy
<1>2. o \in Objects /\ Sound(o) /\ \A b \in Extent(o) : b \in Blocks /\ Lookup(b) = NULL
  BY <1>1 DEF RegInv, RegTypes, Jobs, Ownership, Sound, Contents, Shown
<1>3. o.base \in Extent(o) /\ o.base \in Blocks
  BY <1>2, BaseInExtent DEF Sound
<1>4. NoJob \in Jobs /\ NoJob.kind = "none" /\ Idle \in Ops /\ Idle.pc = "idle"
  BY CallTypes DEF NoJob, NoObject, Jobs, Kinds, Objects, Idle
<1>5. /\ TreeInv' /\ Invisible /\ op'[t] = Idle
      /\ job' \in [Threads -> Jobs] /\ job'[t] = NoJob /\ \A u \in Threads \ {t} : job'[u] = job[u]
      /\ \A u \in Threads \ {t} : Control(u)' /\ \A b \in Extent(job'[u].obj) : Shown(u, b)'
      /\ \A p \in objects : \A b \in Extent(p) : FoundAt(b, p.base)'
  BY <1>1, <1>4, HandOver DEF Finish
<1>6. /\ use' \in [Blocks -> {"os", "pool", "held"}]
      /\ \A b \in Blocks : b \notin Extent(o) => use'[b] = use[b]
  BY DEF GiveBack, RegInv, RegTypes
<1>7. /\ header' \in [Blocks -> [direct : BOOLEAN, total : Nat] \cup {NULL}]
      /\ \A b \in Blocks \ {o.base} : header'[b] = header[b]
  BY <1>3 DEF GiveBack, RegInv, RegTypes
<1>8. RegTypes'
  BY <1>1, <1>5, <1>6, <1>7 DEF RegInv, RegTypes
<1>9. ASSUME NEW p \in Objects, Sound(p), Apart(p, o) \/ Apart(o, p) PROVE Sound(p)'
  <2>1. \A b \in Extent(p) : b \in Blocks /\ b \notin Extent(o) /\ use[b] = "held"
    BY <1>9 DEF Apart, Sound
  <2>2. p.base \in Extent(p)
    BY <1>9, BaseInExtent DEF Sound
  <2>3. header'[p.base] = header[p.base]
    BY <1>3, <1>7, <2>1, <2>2
  <2> QED
    BY <1>6, <1>9, <2>1, <2>3 DEF Sound
<1>10. \A u \in Threads : Busy(u)' => u # t /\ Busy(u) /\ job'[u] = job[u] /\ job[u].obj \in Objects
  BY <1>4, <1>5 DEF Busy, RegInv, RegTypes, Jobs
<1>11. Ownership'
  <2>1. \A p \in objects' : Sound(p)'
    BY <1>1, <1>9 DEF RegInv, RegTypes, Ownership
  <2>2. \A u \in Threads : Busy(u)' => Sound(job[u].obj)'
    BY <1>1, <1>9, <1>10 DEF RegInv, Ownership
  <2>3. \A u \in Threads : \A p \in objects' : Busy(u)' => Apart(job'[u].obj, p)
    BY <1>1, <1>10 DEF RegInv, Ownership
  <2>4. \A u, v \in Threads : u # v /\ Busy(u)' /\ Busy(v)' => Apart(job'[u].obj, job'[v].obj)
    BY <1>10 DEF RegInv, Ownership
  <2> QED
    BY <1>1, <2>1, <2>2, <2>3, <2>4 DEF RegInv, Ownership
<1>12. Control(t)' /\ \A b \in Extent(job'[t].obj) : Shown(t, b)'
  BY <1>4, <1>5 DEF Control, Shown
<1>13. NothingStale'
  BY <1>2, <1>5, <1>6 DEF RegInv, Contents, NothingStale, Invisible
<1> QED
  BY <1>1, <1>5, <1>8, <1>11, <1>12, <1>13 DEF RegInv, Contents

----------------------------------------------------------------------------
(* Before lz_malloc's first call the tree is empty and nothing is in use.  *)
LEMMA InitKeeps == Init => RegInv /\ \A b \in Blocks : Lookup(b) = NULL
<1> SUFFICES ASSUME Init PROVE RegInv /\ \A b \in Blocks : Lookup(b) = NULL
  BY SMTT(30)
<1> USE DEF Init, lz_rtree_init
<1>1. \A b \in Blocks : Lookup(b) = NULL
  BY IndexBounds DEF Lookup
<1>2. \A t \in Threads : op[t] = Idle /\ Idle.pc = "idle" /\ job[t] = NoJob /\ ~Busy(t)
  BY DEF Idle, NoJob, Busy
<1>3. TreeInv
  <2>1. op \in [Threads -> Ops]
    BY CallTypes
  <2>2. \A l \in Leaves : [i \in L2 |-> NULL] \in [L2 -> Blocks \cup {NULL}]
    BY SMTT(30)
  <2>3. TreeTypeOK
    BY <2>1, <2>2 DEF TreeTypeOK
  <2> QED
    BY <1>2, <2>3 DEF TreeInv, Installing, Using
<1>4. RegTypes
  <2>1. NoJob \in Jobs
    BY DEF NoJob, NoObject, Jobs, Kinds, Objects
  <2> QED
    BY <2>1 DEF RegTypes
<1>5. Ownership
  BY <1>2 DEF Ownership
<1>6. \A t \in Threads : Control(t)
  BY <1>2 DEF Control, NoJob
<1>7. Contents
  BY <1>1, <1>2 DEF Contents, NothingStale, Shown, Busy
<1> QED
  BY <1>1, <1>3, <1>4, <1>5, <1>6, <1>7 DEF RegInv

(* Every step of every thread keeps the invariant, and shows as one cell's *)
(* change or not at all.                                                   *)
LEMMA NextKeeps ==
  ASSUME RegInv, [Next]_vars
  PROVE  RegInv' /\ (Invisible \/ OneCell)
<1>1. CASE UNCHANGED vars
  <2>1. UNCHANGED <<leaves, entries, mapped, op, missed, use, header, job, objects>>
    BY <1>1 DEF vars, treeVars
  <2>2. TreeInv' /\ RegTypes'
    BY <2>1 DEF RegInv, TreeInv, TreeTypeOK, RegTypes, Installing, Using, Rooted, Root,
       EmptyLeaf
  <2>3. Ownership' /\ \A t \in Threads : Control(t)'
    BY <2>1 DEF RegInv, Ownership, Sound, Apart, Busy, Control, Value
  <2>4. Invisible /\ \A b : Lookup(b)' = Lookup(b)
    BY <2>1 DEF Lookup, Invisible
  <2>5. \A t \in Threads : \A b : Shown(t, b)' <=> Shown(t, b)
    BY <2>1, <2>4, SMTT(30) DEF FoundAt, Shown, Done
  <2>6. Contents'
    BY <2>1, <2>4, <2>5 DEF RegInv, Contents, NothingStale, FoundAt
  <2> QED
    BY <2>2, <2>3, <2>4, <2>6 DEF RegInv
<1>2. ASSUME NEW t \in Threads, CreateChunk(t) PROVE RegInv' /\ Invisible
  <2>1. PICK b \in Blocks : use[b] # "held" /\ Format(t, [base |-> b, total |-> 1, ptr |-> b], FALSE)
    BY <1>2 DEF CreateChunk
  <2> DEFINE o == [base |-> b, total |-> 1, ptr |-> b]
  <2>2. b \in Nat
    BY RtreeAssumption, SMTT(30) DEF Blocks
  <2>3. o \in Objects /\ o.total > 0 /\ o.ptr \in Extent(o) /\ \A c \in Extent(o) : c = b
    BY <2>2, SMTT(30) DEF Objects, Extent
  <2> QED
    BY <1>2, <2>1, <2>3, FormatKeeps DEF CreateChunk
<1>3. ASSUME NEW t \in Threads, MapDirect(t) PROVE RegInv' /\ Invisible
  <2>1. PICK o \in [base : Blocks, total : 1..MaxBlocks, ptr : Blocks] :
          /\ Extent(o) \subseteq Blocks /\ o.ptr \in Extent(o)
          /\ \A b \in Extent(o) : use[b] = "os"
          /\ Format(t, o, TRUE)
    BY <1>3 DEF MapDirect
  <2>2. o \in Objects /\ o.total > 0
    BY <2>1, RtreeAssumption, RegistryAssumption, SMTT(30) DEF Objects, Blocks
  <2> QED
    BY <1>3, <2>1, <2>2, FormatKeeps DEF MapDirect
<1>4. ASSUME NEW t \in Threads, NextBlock(t) PROVE RegInv' /\ Invisible
  <2>1. CASE MoreBlocks(t)
    BY <1>4, <2>1, NextBlockMore
  <2>2. CASE ~MoreBlocks(t) /\ job[t].kind = "clear"
    BY <1>4, <2>2, ClearEnds
  <2>3. CASE ~MoreBlocks(t) /\ job[t].kind = "register"
    <3>1. /\ op[t].pc = "ret" /\ Finish(t) /\ objects' = objects \cup {job[t].obj}
          /\ UNCHANGED <<leaves, entries, mapped, missed, use, header>>
      BY <1>4, <2>3 DEF NextBlock, At
    <3>2. ASSUME NEW b \in Extent(job[t].obj) PROVE FoundAt(b, job[t].obj.base)
      <4>1. /\ job[t].k \in Nat /\ job[t].obj.base \in Nat /\ job[t].obj.total \in Nat
            /\ job[t].k < job[t].obj.total /\ op[t].block = job[t].obj.base + job[t].k
            /\ b \in Nat /\ Shown(t, b)
        BY <2>3, <3>1, OwnBlock DEF RegInv, Control, Jobs, Objects
      <4>2. Done(t, b)
        BY <2>3, <3>1, <4>1, SMTT(30) DEF Done, MoreBlocks, Extent
      <4> QED
        BY <2>3, <4>1, <4>2 DEF Shown
    <3> QED
      BY <3>1, <3>2, CallEnds
  <2> QED
    BY <1>4, <2>1, <2>2, <2>3 DEF NextBlock
<1>5. ASSUME NEW t \in Threads, FreeMiss(t) PROVE RegInv' /\ Invisible
  <2>1. CASE job[t].k = 0
    BY <1>5, <2>1, LookAgain
  <2>2. CASE job[t].k # 0
    BY <1>5, <2>2, CallEnds DEF FreeMiss, At
  <2> QED
    BY <2>1, <2>2
<1>6. CASE Next
  BY <1>1, <1>2, <1>3, <1>4, <1>5, <1>6, TreeStepKeeps, FreeCallKeeps, FreeFoundKeeps,
     GiveBackKeeps DEF Next, Refused
<1> QED
  BY <1>1, <1>6

(* RegInv is an invariant of the registry.                                 *)
THEOREM RegistryInvariant == Spec => []RegInv
BY InitKeeps, NextKeeps, PTL DEF Spec

(* lz_rtree_set neither leaks a leaf nor unmaps one in use, however many   *)
(* threads race for the cells of the root.                                 *)
THEOREM LeavesKept == Spec => []NoLeafLost
BY RegistryInvariant, TreeInvNoLeafLost, PTL DEF RegInv

(* Memory that is unmapped or idle resolves to nothing: lz_rtree_clear     *)
(* comes before lz_vmm_free_chunk and munmap, and nothing undoes it.       *)
THEOREM NeverStale == Spec => []NothingStale
BY RegistryInvariant, PTL DEF RegInv, Contents

(* lz_free finds every object the program holds, unless mmap refused the   *)
(* leaf its registration needed.                                           *)
THEOREM AlwaysFound == Spec => []AllocatedFound
<1>1. RegInv => AllocatedFound
  <2> SUFFICES ASSUME RegInv, NEW o \in Allocated, NEW b \in Extent(o) \ missed
               PROVE  Lookup(b) = o.base
    BY DEF AllocatedFound
  <2>1. FoundAt(b, o.base)
    BY DEF Allocated, RegInv, Contents, Shown
  <2> QED
    BY <2>1 DEF FoundAt
<1> QED
  BY <1>1, RegistryInvariant, PTL

(* Through its lookups the radix tree is ChunkIndex: an array of cells     *)
(* that change one at a time, and never from one chunk to another.         *)
THEOREM TreeImplementsIndex == Spec => ImplementsChunkIndex
<1>1. Init => Index!Init
  BY InitKeeps DEF Index!Init
<1>2. RegInv /\ [Next]_vars => [Index!Next]_([b \in Blocks |-> Lookup(b)])
  <2> SUFFICES ASSUME RegInv, [Next]_vars
               PROVE  Index!Next \/ UNCHANGED [b \in Blocks |-> Lookup(b)]
    BY SMTT(30)
  <2>1. CASE Invisible
    BY <2>1 DEF Invisible
  <2>2. CASE OneCell
    <3>1. PICK b \in Blocks : /\ \A c \in Blocks \ {b} : Lookup(c)' = Lookup(c)
                              /\ Lookup(b)' = NULL \/ (Lookup(b) = NULL /\ Lookup(b)' \in Blocks)
      BY <2>2 DEF OneCell
    <3>2. [c \in Blocks |-> Lookup(c)]' = [[c \in Blocks |-> Lookup(c)] EXCEPT ![b] = Lookup(b)']
      BY <3>1
    <3> QED
      BY <3>1, <3>2 DEF Index!Next, Index!Clear, Index!Register
  <2> QED
    BY <2>1, <2>2, NextKeeps
<1> QED
  BY <1>1, <1>2, RegistryInvariant, PTL DEF Spec, ImplementsChunkIndex, Index!Spec

----------------------------------------------------------------------------
(* Type correctness.  RegInv bounds no size; these bounds are kept beside  *)
(* it.                                                                     *)
SizeInv ==
  /\ \A b \in Blocks : header[b] = NULL \/ header[b].total \in 1..MaxBlocks
  /\ \A o \in objects : o.total \in 1..MaxBlocks
  /\ \A t \in Threads : job[t].obj.total \in 0..MaxBlocks /\ job[t].k \in 0..MaxBlocks

(* Formatting an extent of at most MaxBlocks keeps the bounds.             *)
LEMMA FormatSizes ==
  ASSUME RegInv, SizeInv, NEW t \in Threads, NEW o, NEW d \in BOOLEAN,
         o \in [base : Blocks, total : 1..MaxBlocks, ptr : Blocks], Format(t, o, d)
  PROVE  SizeInv'
<1>1. /\ header' = [header EXCEPT ![o.base] = [direct |-> d, total |-> o.total]]
      /\ job' = [job EXCEPT ![t] = [kind |-> "register", obj |-> o, k |-> 0]]
      /\ UNCHANGED objects
  BY DEF Format, Work
<1>2. \A b \in Blocks : header'[b] = NULL \/ header'[b].total \in 1..MaxBlocks
  BY <1>1 DEF RegInv, RegTypes, SizeInv
<1>3. \A u \in Threads : job'[u].obj.total \in 0..MaxBlocks /\ job'[u].k \in 0..MaxBlocks
  BY <1>1, RegistryAssumption, SMTT(30) DEF RegInv, RegTypes, SizeInv
<1> QED
  BY <1>1, <1>2, <1>3 DEF SizeInv

(* So does giving a call its next block, or its end.                       *)
LEMMA JobSizes ==
  ASSUME RegInv, SizeInv, NEW t \in Threads, NEW j,
         job' = [job EXCEPT ![t] = j], j.obj.total \in 0..MaxBlocks, j.k \in 0..MaxBlocks
  PROVE  \A u \in Threads : job'[u].obj.total \in 0..MaxBlocks /\ job'[u].k \in 0..MaxBlocks
BY DEF RegInv, RegTypes, SizeInv

(* Every step keeps the bounds.                                            *)
LEMMA NextSizes ==
  ASSUME RegInv, SizeInv, [Next]_vars
  PROVE  SizeInv'
<1>1. CASE UNCHANGED vars
  BY <1>1 DEF SizeInv, vars
<1>2. CASE Next
  <2>1. PICK t \in Threads :
          \/ TreeStep(t) /\ UNCHANGED <<use, header, job, objects>>
          \/ CreateChunk(t) \/ MapDirect(t) \/ Refused(t) \/ NextBlock(t)
          \/ FreeCall(t) \/ FreeMiss(t) \/ FreeFound(t) \/ GiveBack(t)
    BY <1>2 DEF Next
  <2>2. 0 \in 0..MaxBlocks /\ 1 \in 0..MaxBlocks /\ 1 \in 1..MaxBlocks
    BY RegistryAssumption, SMTT(30)
  <2>3. job[t].obj.total \in 0..MaxBlocks /\ job[t].k \in 0..MaxBlocks
    BY DEF SizeInv
  <2>4. CASE UNCHANGED <<header, job, objects>>
    BY <2>4 DEF SizeInv
  <2>5. CASE CreateChunk(t)
    <3>1. PICK b \in Blocks : Format(t, [base |-> b, total |-> 1, ptr |-> b], FALSE)
      BY <2>5 DEF CreateChunk
    <3> QED
      BY <2>2, <3>1, FormatSizes
  <2>6. CASE MapDirect(t)
    BY <2>6, FormatSizes DEF MapDirect
  <2>7. CASE NextBlock(t)
    <3>1. /\ job[t].k < job[t].obj.total /\ UNCHANGED header
          /\ job[t].k \in Nat /\ job[t].obj.total \in Nat
      BY <2>7 DEF NextBlock, RegInv, Control, RegTypes, Jobs, Objects
    <3>2. CASE MoreBlocks(t)
      <4>1. /\ job' = [job EXCEPT ![t] = [kind |-> job[t].kind, obj |-> job[t].obj, k |-> job[t].k + 1]]
            /\ UNCHANGED objects
        BY <2>7, <3>2 DEF NextBlock, Work
      <4>2. job[t].k + 1 \in 0..MaxBlocks
        BY <2>3, <3>1, RegistryAssumption, SMTT(30)
      <4>3. \A u \in Threads : job'[u].obj.total \in 0..MaxBlocks /\ job'[u].k \in 0..MaxBlocks
        BY <2>3, <4>1, <4>2, JobSizes
      <4> QED
        BY <3>1, <4>1, <4>3 DEF SizeInv
    <3>3. CASE ~MoreBlocks(t)
      <4>1. \/ job' = [job EXCEPT ![t] = NoJob]
            \/ job' = [job EXCEPT ![t] = [kind |-> "release", obj |-> job[t].obj, k |-> job[t].k]]
        BY <2>7, <3>3 DEF NextBlock, Work, Finish
      <4>2. \A u \in Threads : job'[u].obj.total \in 0..MaxBlocks /\ job'[u].k \in 0..MaxBlocks
        BY <2>2, <2>3, <4>1, JobSizes DEF NoJob, NoObject
      <4>3. objects' \subseteq objects \cup {job[t].obj}
        BY <2>7, <3>3 DEF NextBlock
      <4>4. job[t].obj.total \in 1..MaxBlocks
        BY <2>3, <3>1, SMTT(30)
      <4> QED
        BY <3>1, <4>2, <4>3, <4>4 DEF SizeInv
    <3> QED
      BY <3>2, <3>3
  <2>8. CASE FreeCall(t)
    <3>1. PICK o \in objects :
            /\ objects' = objects \ {o} /\ UNCHANGED header
            /\ job' = [job EXCEPT ![t] = [kind |-> "lookup", obj |-> o, k |-> 0]]
      BY <2>8 DEF FreeCall, Work
    <3>2. o.total \in 0..MaxBlocks
      BY SMTT(30) DEF SizeInv
    <3>3. \A u \in Threads : job'[u].obj.total \in 0..MaxBlocks /\ job'[u].k \in 0..MaxBlocks
      BY <2>2, <3>1, <3>2, JobSizes
    <3> QED
      BY <3>1, <3>3 DEF SizeInv
  <2>9. CASE FreeMiss(t)
    <3>1. /\ \/ job' = [job EXCEPT ![t] = [kind |-> "lookup", obj |-> job[t].obj, k |-> 1]]
             \/ job' = [job EXCEPT ![t] = NoJob]
          /\ UNCHANGED <<header, objects>>
      BY <2>9 DEF FreeMiss, Work, Finish
    <3>2. \A u \in Threads : job'[u].obj.total \in 0..MaxBlocks /\ job'[u].k \in 0..MaxBlocks
      BY <2>2, <2>3, <3>1, JobSizes DEF NoJob, NoObject
    <3> QED
      BY <3>1, <3>2 DEF SizeInv
  <2>10. CASE FreeFound(t)
    <3>1. /\ \/ job' = [job EXCEPT ![t] = NoJob]
             \/ /\ header[op[t].value] # NULL
                /\ job' = [job EXCEPT ![t] = [kind |-> "clear", k |-> 0,
                              obj |-> [base |-> op[t].value, total |-> header[op[t].value].total,
                                       ptr |-> op[t].value]]]
          /\ UNCHANGED <<header, objects>>
      BY <2>10 DEF FreeFound, Work, Finish, BeforeClear
    <3>2. op[t].value \in Blocks
      <4>1. job[t].kind = "lookup" /\ op[t].value # NULL
        BY <2>10 DEF FreeFound
      <4>2. op[t].value = job[t].obj.base
        BY <4>1 DEF RegInv, Control
      <4>3. Sound(job[t].obj) /\ job[t].obj \in Objects
        BY <4>1 DEF RegInv, Ownership, Busy, RegTypes, Jobs
      <4>4. job[t].obj.base \in Extent(job[t].obj)
        BY <4>3, SMTT(30) DEF Sound, Objects, Extent
      <4> QED
        BY <4>2, <4>3, <4>4 DEF Sound
    <3>3. header[op[t].value] = NULL \/ header[op[t].value].total \in 0..MaxBlocks
      BY <3>2, SMTT(30) DEF SizeInv
    <3>4. \A u \in Threads : job'[u].obj.total \in 0..MaxBlocks /\ job'[u].k \in 0..MaxBlocks
      BY <2>2, <3>1, <3>3, JobSizes DEF NoJob, NoObject
    <3> QED
      BY <3>1, <3>4 DEF SizeInv
  <2>11. CASE GiveBack(t)
    <3>1. /\ job' = [job EXCEPT ![t] = NoJob] /\ UNCHANGED objects
          /\ \E x \in {NULL, header[job[t].obj.base]} : header' = [header EXCEPT ![job[t].obj.base] = x]
      BY <2>11 DEF GiveBack, Finish
    <3>2. \A u \in Threads : job'[u].obj.total \in 0..MaxBlocks /\ job'[u].k \in 0..MaxBlocks
      BY <2>2, <3>1, JobSizes DEF NoJob, NoObject
    <3> QED
      BY <3>1, <3>2 DEF SizeInv, RegInv, RegTypes
  <2> QED
    BY <2>1, <2>4, <2>5, <2>6, <2>7, <2>8, <2>9, <2>10, <2>11 DEF Refused, vars
<1> QED
  BY <1>1, <1>2

(* The state of the tree and of the calls around it is well typed: no loop *)
(* over an object's blocks runs past its size, no header or object has a   *)
(* size that is zero or beyond the largest request.                        *)
THEOREM RegistryTyped == Spec => []TypeOK
<1>1. Init => SizeInv
  BY RegistryAssumption, SMTT(30) DEF Init, SizeInv, NoJob, NoObject
<1>2. RegInv /\ SizeInv /\ [Next]_vars => SizeInv'
  BY NextSizes
<1>3. ASSUME RegInv, SizeInv PROVE TypeOK
  <2>1. header \in [Blocks -> [direct : BOOLEAN, total : 1..MaxBlocks] \cup {NULL}]
    BY <1>3 DEF RegInv, RegTypes, SizeInv
  <2>2. objects \subseteq [base : Blocks, total : 1..MaxBlocks, ptr : Blocks]
    <3> SUFFICES ASSUME NEW o \in objects
                 PROVE  o \in [base : Blocks, total : 1..MaxBlocks, ptr : Blocks]
      BY SMTT(30)
    <3>1. o \in Objects /\ o.total \in 1..MaxBlocks /\ Sound(o)
      BY <1>3 DEF RegInv, RegTypes, SizeInv, Ownership
    <3>2. o.base \in Extent(o)
      BY <3>1, SMTT(30) DEF Objects, Extent
    <3>3. o.base \in Blocks /\ o.ptr \in Blocks
      BY <3>1, <3>2 DEF Sound
    <3> QED
      BY <3>1, <3>3 DEF Objects
  <2> QED
    BY <1>3, <2>1, <2>2 DEF TypeOK, RegInv, RegTypes, TreeInv, SizeInv, Jobs, Kinds
<1> QED
  BY <1>1, <1>2, <1>3, RegistryInvariant, PTL DEF Spec
============================================================================
