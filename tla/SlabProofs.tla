----------------------------- MODULE SlabProofs -----------------------------
(***************************************************************************)
(* The slabs of a heap.  What the operations on a view do to the current   *)
(* slab and the two doubly linked lists of a bin; what giving out a block  *)
(* and taking one back do to a slab; and both together, for all slabs of   *)
(* all heaps.                                                              *)
(***************************************************************************)
EXTENDS Slabs, ListProofs

USE ZenonT(40)

ViewType == [slab : [Chunks -> SlabType], bin : [Classes -> BinType], gone : SUBSET Chunks]

Nexts(v) == [c \in Chunks |-> v.slab[c].next]
Prevs(v) == [c \in Chunks |-> v.slab[c].prev]

\* Two slabs that differ at most in their links.
SameData(r, s) ==
  /\ r.owning_tlh = s.owning_tlh /\ r.checksum = s.checksum /\ r.bump_ptr = s.bump_ptr
  /\ r.free_list_head = s.free_list_head /\ r.size_class = s.size_class
  /\ r.used_objects = s.used_objects

\* From v to w only links change, of slabs of E, and heads of lists of class k.
Relinks(v, w, k, E) ==
  /\ w \in ViewType
  /\ \A d \in Chunks : SameData(w.slab[d], v.slab[d])
  /\ \A d \in Chunks \ E : w.slab[d] = v.slab[d]
  /\ \A j \in Classes \ {k} : w.bin[j] = v.bin[j]

\* The two lists of class k hold the slabs of F and of P.
Linked(v, k, F, P) ==
  /\ DoublyListOf(v.bin[k].full_list, Nexts(v), Prevs(v), F, NULL)
  /\ DoublyListOf(v.bin[k].partial_list, Nexts(v), Prevs(v), P, NULL)

----------------------------------------------------------------------------
(* What single assignments do to a view.                                   *)

\* From v to w, next of c has become x.
NextSet(v, w, c, x) ==
  /\ w \in ViewType /\ w.gone = v.gone /\ w.bin = v.bin
  /\ \A d \in Chunks : /\ SameData(w.slab[d], v.slab[d])
                       /\ w.slab[d].next = IF d = c THEN x ELSE v.slab[d].next
                       /\ w.slab[d].prev = v.slab[d].prev
                       /\ d # c => w.slab[d] = v.slab[d]

\* From v to w, prev of c has become x.
PrevSet(v, w, c, x) ==
  /\ w \in ViewType /\ w.gone = v.gone /\ w.bin = v.bin
  /\ \A d \in Chunks : /\ SameData(w.slab[d], v.slab[d])
                       /\ w.slab[d].prev = IF d = c THEN x ELSE v.slab[d].prev
                       /\ w.slab[d].next = v.slab[d].next
                       /\ d # c => w.slab[d] = v.slab[d]

\* The lists of class k of w are full, partial and the current slab cur.
Heads(v, w, k, cur, partial, full) ==
  /\ w \in ViewType /\ w.gone = v.gone
  /\ \A j \in Classes \ {k} : w.bin[j] = v.bin[j]
  /\ w.bin[k].current_slab = cur
  /\ w.bin[k].partial_list = partial
  /\ w.bin[k].full_list = full

\* Slab data whose cursor moves is slab data.
LEMMA Rebumped ==
  ASSUME NEW s \in SlabType
  PROVE  [s EXCEPT !.bump_ptr = 0] \in SlabType
BY SMTT(30) DEF SlabType

\* s->next = x, through a pointer that may be NULL, changes that link only.
LEMMA SetNextIs ==
  ASSUME NEW v \in ViewType, NEW c \in OptChunks, NEW x \in OptChunks
  PROVE  NextSet(v, SetNext(v, c, x), c, x)
BY SlabsAssumption, SMTT(30) DEF NextSet, SetNext, ViewType, SlabType, SameData, OptChunks

\* s->prev = x, through a pointer that may be NULL, changes that link only.
LEMMA SetPrevIs ==
  ASSUME NEW v \in ViewType, NEW c \in OptChunks, NEW x \in OptChunks
  PROVE  PrevSet(v, SetPrev(v, c, x), c, x)
BY SlabsAssumption, SMTT(30) DEF PrevSet, SetPrev, ViewType, SlabType, SameData, OptChunks

\* Assigning one field of a bin leaves its other fields and the slabs alone.
LEMMA SetListIs ==
  ASSUME NEW v \in ViewType, NEW k \in Classes, NEW x \in OptChunks
  PROVE  /\ Heads(v, SetList(v, k, "current_slab", x), k, x,
                  v.bin[k].partial_list, v.bin[k].full_list)
         /\ Heads(v, SetList(v, k, "partial_list", x), k, v.bin[k].current_slab,
                  x, v.bin[k].full_list)
         /\ Heads(v, SetList(v, k, "full_list", x), k, v.bin[k].current_slab,
                  v.bin[k].partial_list, x)
         /\ \A list : SetList(v, k, list, x).slab = v.slab
BY DEF Heads, SetList, ViewType, BinType

\* What PushFront does: c is linked before the old head and becomes the head.
LEMMA PushFrontIs ==
  ASSUME NEW v \in ViewType, NEW k \in Classes, NEW c \in Chunks,
         NEW list \in {"partial_list", "full_list"},
         NEW old, old = v.bin[k][list], old # c,
         NEW w, w = PushFront(v, k, list, c)
  PROVE  /\ Heads(v, w, k, v.bin[k].current_slab,
                  IF list = "partial_list" THEN c ELSE v.bin[k].partial_list,
                  IF list = "full_list" THEN c ELSE v.bin[k].full_list)
         /\ \A d \in Chunks :
              /\ SameData(w.slab[d], v.slab[d])
              /\ w.slab[d].next = IF d = c THEN old ELSE v.slab[d].next
              /\ w.slab[d].prev = IF d = c THEN NULL ELSE IF d = old THEN c ELSE v.slab[d].prev
              /\ d \notin {c, old} => w.slab[d] = v.slab[d]
<1> DEFINE v1 == SetNext(v, c, old)
           v2 == SetPrev(v1, c, NULL)
           v3 == SetPrev(v2, old, c)
<1>1. old \in OptChunks /\ c # NULL /\ c \in OptChunks /\ NULL \in OptChunks
  BY SlabsAssumption DEF ViewType, BinType, OptChunks
<1>2. w = SetList(v3, k, list, c)
  BY <1>1 DEF PushFront
<1>3. NextSet(v, v1, c, old)
  BY <1>1, SetNextIs
<1>4. v1 \in ViewType
  BY <1>3 DEF NextSet
<1> HIDE DEF v1
<1>5. PrevSet(v1, v2, c, NULL)
  BY <1>1, <1>4, SetPrevIs
<1>6. v2 \in ViewType
  BY <1>5 DEF PrevSet
<1> HIDE DEF v2
<1>7. PrevSet(v2, v3, old, c)
  BY <1>1, <1>6, SetPrevIs
<1>8. v3 \in ViewType
  BY <1>7 DEF PrevSet
<1> HIDE DEF v3
<1>9. /\ Heads(v3, w, k, v3.bin[k].current_slab,
               IF list = "partial_list" THEN c ELSE v3.bin[k].partial_list,
               IF list = "full_list" THEN c ELSE v3.bin[k].full_list)
      /\ w.slab = v3.slab
  <2>1. CASE list = "partial_list"
    BY <1>1, <1>2, <1>8, <2>1, SetListIs, SMTT(30)
  <2>2. CASE list = "full_list"
    BY <1>1, <1>2, <1>8, <2>2, SetListIs, SMTT(30)
  <2> QED
    BY <2>1, <2>2
<1>10. v3.bin = v.bin /\ v3.gone = v.gone
  BY <1>3, <1>5, <1>7 DEF NextSet, PrevSet
<1>11. \A d \in Chunks :
         /\ SameData(w.slab[d], v.slab[d])
         /\ w.slab[d].next = IF d = c THEN old ELSE v.slab[d].next
         /\ w.slab[d].prev = IF d = c THEN NULL ELSE IF d = old THEN c ELSE v.slab[d].prev
         /\ d \notin {c, old} => w.slab[d] = v.slab[d]
  BY <1>3, <1>5, <1>7, <1>9, SMTT(30) DEF NextSet, PrevSet, SameData
<1> QED
  BY <1>9, <1>10, <1>11, SMTT(30) DEF Heads

\* List l of class k once slab data s is cut out of the list that is named list.
After(v, k, list, s, l) == IF s.prev = NULL /\ list = l THEN s.next ELSE v.bin[k][l]

\* The links of slab d go around the slab whose data was s.
SplicedAt(z, a, d, s) ==
  /\ SameData(a, z)
  /\ a.next = IF d = s.prev THEN s.next ELSE z.next
  /\ a.prev = IF d = s.next THEN s.prev ELSE z.prev
  /\ d \notin {s.prev, s.next} => a = z

Spliced(v, w, s) == \A d \in Chunks : SplicedAt(v.slab[d], w.slab[d], d, s)


\* What Unlink does: c's neighbours, or the head, are linked around it.
LEMMA UnlinkIs ==
  ASSUME NEW v \in ViewType, NEW k \in Classes, NEW c \in Chunks,
         NEW list \in {"partial_list", "full_list", "neither"},
         NEW s, s = v.slab[c],
         NEW w, w = Unlink(v, k, list, c)
  PROVE  /\ Heads(v, w, k, v.bin[k].current_slab, After(v, k, list, s, "partial_list"),
                  After(v, k, list, s, "full_list"))
         /\ Spliced(v, w, s)
<1> DEFINE x == IF s.prev # NULL THEN SetNext(v, s.prev, s.next)
                ELSE IF list = "neither" THEN v ELSE SetList(v, k, list, s.next)
<1>1. s.next \in OptChunks /\ s.prev \in OptChunks /\ NULL \notin Chunks
  BY SlabsAssumption DEF ViewType, SlabType
<1>2. /\ Heads(v, x, k, v.bin[k].current_slab, After(v, k, list, s, "partial_list"),
               After(v, k, list, s, "full_list"))
      /\ \A d \in Chunks :
           /\ SameData(x.slab[d], v.slab[d])
           /\ x.slab[d].next = IF d = s.prev THEN s.next ELSE v.slab[d].next
           /\ x.slab[d].prev = v.slab[d].prev
           /\ d # s.prev => x.slab[d] = v.slab[d]
  <2>1. CASE s.prev # NULL
    <3>1. NextSet(v, x, s.prev, s.next)
      BY <1>1, <2>1, SetNextIs
    <3> QED
      BY <2>1, <3>1 DEF NextSet, Heads, After
  <2>2. ASSUME s.prev = NULL, x.slab = v.slab
        PROVE  \A d \in Chunks :
                 /\ SameData(x.slab[d], v.slab[d])
                 /\ x.slab[d].next = IF d = s.prev THEN s.next ELSE v.slab[d].next
                 /\ x.slab[d].prev = v.slab[d].prev
                 /\ d # s.prev => x.slab[d] = v.slab[d]
    BY <1>1, <2>2 DEF SameData
  <2>3. CASE s.prev = NULL /\ list = "neither"
    BY <2>2, <2>3 DEF Heads, After
  <2>4. CASE s.prev = NULL /\ list = "partial_list"
    <3>1. x = SetList(v, k, "partial_list", s.next)
      BY <2>4
    <3>2. Heads(v, x, k, v.bin[k].current_slab, s.next, v.bin[k].full_list) /\ x.slab = v.slab
      BY <1>1, <3>1, SetListIs, SMTT(30)
    <3>3. /\ After(v, k, list, s, "partial_list") = s.next
          /\ After(v, k, list, s, "full_list") = v.bin[k].full_list
      BY <2>4 DEF After
    <3> QED
      BY <2>2, <2>4, <3>2, <3>3
  <2>5. CASE s.prev = NULL /\ list = "full_list"
    <3>1. x = SetList(v, k, "full_list", s.next)
      BY <2>5
    <3>2. Heads(v, x, k, v.bin[k].current_slab, v.bin[k].partial_list, s.next) /\ x.slab = v.slab
      BY <1>1, <3>1, SetListIs, SMTT(30)
    <3>3. /\ After(v, k, list, s, "partial_list") = v.bin[k].partial_list
          /\ After(v, k, list, s, "full_list") = s.next
      BY <2>5 DEF After
    <3> QED
      BY <2>2, <2>5, <3>2, <3>3
  <2> QED
    BY <2>1, <2>3, <2>4, <2>5
<1>3. w = SetPrev(x, s.next, s.prev)
  BY DEF Unlink
<1> HIDE DEF x
<1>4. x \in ViewType
  BY <1>2 DEF Heads
<1>5. PrevSet(x, w, s.next, s.prev)
  BY <1>1, <1>3, <1>4, SetPrevIs
<1>6. Spliced(v, w, s)
  <2>1. ASSUME NEW d \in Chunks PROVE SplicedAt(v.slab[d], w.slab[d], d, s)
    <3>1. PICK a, e, z : a = w.slab[d] /\ e = x.slab[d] /\ z = v.slab[d]
      OBVIOUS
    <3>2. /\ SameData(a, e) /\ a.prev = (IF d = s.next THEN s.prev ELSE e.prev)
          /\ a.next = e.next /\ (d # s.next => a = e)
      BY <1>5, <3>1 DEF PrevSet
    <3>3. /\ SameData(e, z) /\ e.next = (IF d = s.prev THEN s.next ELSE z.next)
          /\ e.prev = z.prev /\ (d # s.prev => e = z)
      BY <1>2, <3>1
    <3>4. SameData(a, z)
      BY <3>2, <3>3 DEF SameData
    <3>5. SplicedAt(z, a, d, s)
      BY <3>2, <3>3, <3>4 DEF SplicedAt
    <3> QED
      BY <3>1, <3>5
  <2> QED
    BY <2>1 DEF Spliced
<1>7. w \in ViewType /\ w.bin = x.bin /\ w.gone = x.gone
  BY <1>5 DEF PrevSet
<1> QED
  BY <1>2, <1>6, <1>7 DEF Heads

\* From v to w, c has left the head of the partial list, n is the new head, and c
\* is current.
Promotes(v, w, k, c, n) ==
  /\ Heads(v, w, k, c, n, v.bin[k].full_list)
  /\ \A d \in Chunks :
       /\ SameData(w.slab[d], v.slab[d])
       /\ w.slab[d].next = IF d = c THEN NULL ELSE v.slab[d].next
       /\ w.slab[d].prev = IF d = c \/ d = n THEN NULL ELSE v.slab[d].prev
       /\ d \notin {c, n} => w.slab[d] = v.slab[d]

\* What PromotePartial does: the first partial slab becomes the current one.
LEMMA PromotePartialIs ==
  ASSUME NEW v \in ViewType, NEW k \in Classes,
         NEW c \in Chunks, c = v.bin[k].partial_list,
         NEW n, n = v.slab[c].next, n # c,
         NEW w, w = PromotePartial(v, k)
  PROVE  Promotes(v, w, k, c, n)
<1> DEFINE v1 == SetList(v, k, "current_slab", c)
           v2 == SetList(v1, k, "partial_list", n)
           v3 == SetPrev(v2, n, NULL)
           v4 == SetPrev(v3, c, NULL)
<1>1. n \in OptChunks /\ NULL \in OptChunks /\ c \in OptChunks
  BY DEF ViewType, SlabType, OptChunks
<1>2. Heads(v, v1, k, c, c, v.bin[k].full_list) /\ v1.slab = v.slab
  BY <1>1, SetListIs, SMTT(30)
<1>3. w = SetNext(SetPrev(SetPrev(v2, v2.bin[k].partial_list, NULL), c, NULL), c, NULL)
  BY DEF PromotePartial
<1> HIDE DEF v1
<1>4. v1 \in ViewType
  BY <1>2 DEF Heads
<1>5. Heads(v1, v2, k, v1.bin[k].current_slab, n, v1.bin[k].full_list) /\ v2.slab = v1.slab
  BY <1>1, <1>4, SetListIs, SMTT(30)
<1>6. v2 \in ViewType /\ v2.bin[k].partial_list = n
  BY <1>5 DEF Heads
<1>7. w = SetNext(v4, c, NULL)
  BY <1>3, <1>6
<1> HIDE DEF v2
<1>8. PrevSet(v2, v3, n, NULL)
  BY <1>1, <1>6, SetPrevIs
<1>9. v3 \in ViewType
  BY <1>8 DEF PrevSet
<1> HIDE DEF v3
<1>10. PrevSet(v3, v4, c, NULL)
  BY <1>1, <1>9, SetPrevIs
<1>11. v4 \in ViewType
  BY <1>10 DEF PrevSet
<1> HIDE DEF v4
<1>12. NextSet(v4, w, c, NULL)
  BY <1>1, <1>7, <1>11, SetNextIs
<1>13. \A d \in Chunks :
         /\ SameData(w.slab[d], v.slab[d])
         /\ w.slab[d].next = IF d = c THEN NULL ELSE v.slab[d].next
         /\ w.slab[d].prev = IF d = c \/ d = n THEN NULL ELSE v.slab[d].prev
         /\ d \notin {c, n} => w.slab[d] = v.slab[d]
  <2> SUFFICES ASSUME NEW d \in Chunks
               PROVE  /\ SameData(w.slab[d], v.slab[d])
                      /\ w.slab[d].next = IF d = c THEN NULL ELSE v.slab[d].next
                      /\ w.slab[d].prev = IF d = c \/ d = n THEN NULL ELSE v.slab[d].prev
                      /\ d \notin {c, n} => w.slab[d] = v.slab[d]
    OBVIOUS
  <2>1. PICK s0, s3, s4, s5 : /\ s0 = v.slab[d] /\ s3 = v3.slab[d]
                              /\ s4 = v4.slab[d] /\ s5 = w.slab[d]
    OBVIOUS
  <2>2. /\ SameData(s3, s0) /\ s3.next = s0.next
        /\ s3.prev = (IF d = n THEN NULL ELSE s0.prev) /\ (d # n => s3 = s0)
    <3>1. v2.slab = v.slab
      BY <1>2, <1>5
    <3> QED
      BY <1>8, <2>1, <3>1 DEF PrevSet
  <2>3. /\ SameData(s4, s3) /\ s4.next = s3.next
        /\ s4.prev = (IF d = c THEN NULL ELSE s3.prev) /\ (d # c => s4 = s3)
    BY <1>10, <2>1 DEF PrevSet
  <2>4. /\ SameData(s5, s4) /\ s5.prev = s4.prev
        /\ s5.next = (IF d = c THEN NULL ELSE s4.next) /\ (d # c => s5 = s4)
    BY <1>12, <2>1 DEF NextSet
  <2>5. SameData(s5, s0)
    BY <2>2, <2>3, <2>4 DEF SameData
  <2> QED
    BY <2>1, <2>2, <2>3, <2>4, <2>5
<1>14. w \in ViewType /\ w.bin = v2.bin /\ w.gone = v2.gone
  BY <1>8, <1>10, <1>12 DEF NextSet, PrevSet
<1> QED
  BY <1>2, <1>5, <1>13, <1>14 DEF Promotes, Heads

----------------------------------------------------------------------------
(* The same operations on the two lists of a bin.                          *)

Apart(F, P) == F \cup P \subseteq Chunks /\ F \cap P = {}

\* From v to w links of slabs of E change; then the current slab of class k is
\* cur, and its lists hold F and P.
Moved(v, w, k, E, cur, F, P) ==
  /\ Relinks(v, w, k, E) /\ w.gone = v.gone
  /\ Linked(w, k, F, P)
  /\ w.bin[k].current_slab = cur

\* An exhausted slab joins the full list.
LEMMA PushFull ==
  ASSUME NEW v \in ViewType, NEW k \in Classes, NEW F, NEW P, Apart(F, P), Linked(v, k, F, P),
         NEW c \in Chunks, c \notin F \cup P,
         NEW w, w = PushFront(v, k, "full_list", c)
  PROVE  Moved(v, w, k, F \cup P \cup {c}, v.bin[k].current_slab, F \cup {c}, P)
<1>0. F \cup P \subseteq Chunks /\ F \cap P = {}
  BY DEF Apart
<1> DEFINE old == v.bin[k].full_list
<1>1. old # c /\ old \in F \cup {NULL} /\ NULL \notin Chunks
  BY <1>0, SlabsAssumption, SMTT(30) DEF Linked, DoublyListOf, ListOf, Closed
<1>2. /\ Heads(v, w, k, v.bin[k].current_slab, v.bin[k].partial_list, c)
      /\ \A d \in Chunks :
           /\ SameData(w.slab[d], v.slab[d])
           /\ w.slab[d].next = IF d = c THEN old ELSE v.slab[d].next
           /\ w.slab[d].prev = IF d = c THEN NULL ELSE IF d = old THEN c ELSE v.slab[d].prev
           /\ d \notin {c, old} => w.slab[d] = v.slab[d]
  BY <1>0, <1>1, PushFrontIs, SMTT(30)
<1>3. DoublyListOf(c, Nexts(w), Prevs(w), F \cup {c}, NULL)
  <2>1. /\ Nexts(w)[c] = old /\ Prevs(w)[c] = NULL
        /\ \A x \in F : /\ Nexts(w)[x] = Nexts(v)[x]
                        /\ Prevs(w)[x] = IF x = old THEN c ELSE Prevs(v)[x]
    BY <1>0, <1>2 DEF Nexts, Prevs
  <2>2. DoublyListOf(old, Nexts(v), Prevs(v), F, NULL)
    BY DEF Linked
  <2> QED
    BY <1>0, <1>1, <2>1, <2>2, DoublyPush, SMTT(30)
<1>4. DoublyListOf(v.bin[k].partial_list, Nexts(w), Prevs(w), P, NULL)
  <2>1. \A x \in P : Nexts(w)[x] = Nexts(v)[x] /\ Prevs(w)[x] = Prevs(v)[x]
    BY <1>0, <1>1, <1>2 DEF Nexts, Prevs
  <2> QED
    BY <2>1, DoublyFrame, SMTT(30) DEF Linked
<1>5. Linked(w, k, F \cup {c}, P) /\ w.bin[k].current_slab = v.bin[k].current_slab
      /\ w.gone = v.gone
  BY <1>0, <1>2, <1>3, <1>4 DEF Linked, Heads
<1> QED
  BY <1>0, <1>1, <1>2, <1>5, SMTT(30) DEF Moved, Relinks, Heads

\* Linking a slab into the full list leaves the head of the partial list alone.
LEMMA PushFullHead ==
  ASSUME NEW v \in ViewType, NEW k \in Classes, NEW c \in Chunks, v.bin[k].full_list # c,
         NEW w, w = PushFront(v, k, "full_list", c)
  PROVE  w.bin[k].partial_list = v.bin[k].partial_list
BY PushFrontIs, SMTT(30) DEF Heads

\* A slab that is no longer full joins the partial list.
LEMMA PushPartial ==
  ASSUME NEW v \in ViewType, NEW k \in Classes, NEW F, NEW P, Apart(F, P), Linked(v, k, F, P),
         NEW c \in Chunks, c \notin F \cup P,
         NEW w, w = PushFront(v, k, "partial_list", c)
  PROVE  Moved(v, w, k, F \cup P \cup {c}, v.bin[k].current_slab, F, P \cup {c})
<1>0. F \cup P \subseteq Chunks /\ F \cap P = {}
  BY DEF Apart
<1> DEFINE old == v.bin[k].partial_list
<1>1. old # c /\ old \in P \cup {NULL} /\ NULL \notin Chunks
  BY <1>0, SlabsAssumption, SMTT(30) DEF Linked, DoublyListOf, ListOf, Closed
<1>2. /\ Heads(v, w, k, v.bin[k].current_slab, c, v.bin[k].full_list)
      /\ \A d \in Chunks :
           /\ SameData(w.slab[d], v.slab[d])
           /\ w.slab[d].next = IF d = c THEN old ELSE v.slab[d].next
           /\ w.slab[d].prev = IF d = c THEN NULL ELSE IF d = old THEN c ELSE v.slab[d].prev
           /\ d \notin {c, old} => w.slab[d] = v.slab[d]
  BY <1>0, <1>1, PushFrontIs, SMTT(30)
<1>3. DoublyListOf(c, Nexts(w), Prevs(w), P \cup {c}, NULL)
  <2>1. /\ Nexts(w)[c] = old /\ Prevs(w)[c] = NULL
        /\ \A x \in P : /\ Nexts(w)[x] = Nexts(v)[x]
                        /\ Prevs(w)[x] = IF x = old THEN c ELSE Prevs(v)[x]
    BY <1>0, <1>2 DEF Nexts, Prevs
  <2>2. DoublyListOf(old, Nexts(v), Prevs(v), P, NULL)
    BY DEF Linked
  <2> QED
    BY <1>0, <1>1, <2>1, <2>2, DoublyPush, SMTT(30)
<1>4. DoublyListOf(v.bin[k].full_list, Nexts(w), Prevs(w), F, NULL)
  <2>1. \A x \in F : Nexts(w)[x] = Nexts(v)[x] /\ Prevs(w)[x] = Prevs(v)[x]
    BY <1>0, <1>1, <1>2 DEF Nexts, Prevs
  <2> QED
    BY <2>1, DoublyFrame, SMTT(30) DEF Linked
<1>5. Linked(w, k, F, P \cup {c}) /\ w.bin[k].current_slab = v.bin[k].current_slab
      /\ w.gone = v.gone
  BY <1>0, <1>2, <1>3, <1>4 DEF Linked, Heads
<1> QED
  BY <1>0, <1>1, <1>2, <1>5, SMTT(30) DEF Moved, Relinks, Heads

\* A slab leaves the full list.
LEMMA UnlinkFull ==
  ASSUME NEW v \in ViewType, NEW k \in Classes, NEW F, NEW P, Apart(F, P), Linked(v, k, F, P),
         NEW c \in F, NEW w, w = Unlink(v, k, "full_list", c)
  PROVE  Moved(v, w, k, F \cup P \cup {c}, v.bin[k].current_slab, F \ {c}, P)
<1>0. F \cup P \subseteq Chunks /\ F \cap P = {}
  BY DEF Apart
<1> DEFINE top == v.bin[k].full_list
           s == v.slab[c]
<1>1. DoublyListOf(top, Nexts(v), Prevs(v), F, NULL)
  BY DEF Linked
<1>2. /\ s.prev = NULL <=> c = top
      /\ s.prev \in F \cup {NULL} /\ s.next \in F \cup {NULL} /\ NULL \notin Chunks
      /\ Nexts(v)[c] = s.next /\ Prevs(v)[c] = s.prev
  <2>1. Nexts(v)[c] = s.next /\ Prevs(v)[c] = s.prev
    BY <1>0 DEF Nexts, Prevs
  <2>2. /\ Prevs(v)[c] = NULL <=> c = top
        /\ c # top => Prevs(v)[c] \in F
    BY <1>0, <1>1, DoublyPrev, SMTT(30)
  <2>3. Nexts(v)[c] \in F \cup {NULL}
    BY <1>1 DEF DoublyListOf, ListOf, Closed
  <2> QED
    BY <2>1, <2>2, <2>3, SlabsAssumption
<1>3. /\ Heads(v, w, k, v.bin[k].current_slab, v.bin[k].partial_list,
               IF c = top THEN s.next ELSE top)
      /\ \A d \in Chunks :
           /\ SameData(w.slab[d], v.slab[d])
           /\ w.slab[d].next = IF d = s.prev THEN s.next ELSE v.slab[d].next
           /\ w.slab[d].prev = IF d = s.next THEN s.prev ELSE v.slab[d].prev
           /\ d \notin {s.prev, s.next} => w.slab[d] = v.slab[d]
  <2>1. /\ Heads(v, w, k, v.bin[k].current_slab, After(v, k, "full_list", s, "partial_list"),
                 After(v, k, "full_list", s, "full_list"))
        /\ Spliced(v, w, s)
    BY <1>0, UnlinkIs
  <2>2. /\ After(v, k, "full_list", s, "partial_list") = v.bin[k].partial_list
        /\ After(v, k, "full_list", s, "full_list") = (IF c = top THEN s.next ELSE top)
    BY <1>2 DEF After
  <2> QED
    BY <2>1, <2>2 DEF Spliced, SplicedAt
<1>4. DoublyListOf(w.bin[k].full_list, Nexts(w), Prevs(w), F \ {c}, NULL)
  <2>1. Around(Nexts(v), Prevs(v), Nexts(w), Prevs(w), F, c)
    BY <1>0, <1>3 DEF Around, Nexts, Prevs
  <2>2. w.bin[k].full_list = IF c = top THEN Nexts(v)[c] ELSE top
    BY <1>0, <1>2, <1>3 DEF Heads
  <2> QED
    BY <1>1, <2>1, <2>2, DoublyRemove
<1>5. DoublyListOf(v.bin[k].partial_list, Nexts(w), Prevs(w), P, NULL)
  <2>1. \A x \in P : Nexts(w)[x] = Nexts(v)[x] /\ Prevs(w)[x] = Prevs(v)[x]
    BY <1>0, <1>2, <1>3, SMTT(30) DEF Nexts, Prevs
  <2> QED
    BY <2>1, DoublyFrame, SMTT(30) DEF Linked
<1>6. Linked(w, k, F \ {c}, P) /\ w.bin[k].current_slab = v.bin[k].current_slab
      /\ w.gone = v.gone
  BY <1>0, <1>2, <1>3, <1>4, <1>5 DEF Linked, Heads
<1> QED
  BY <1>0, <1>2, <1>3, <1>6, SMTT(30) DEF Moved, Relinks, Heads

\* A slab leaves the partial list; only its first element needs the list's name.
LEMMA UnlinkPartial ==
  ASSUME NEW v \in ViewType, NEW k \in Classes, NEW F, NEW P, Apart(F, P), Linked(v, k, F, P),
         NEW c \in P, NEW list \in {"partial_list", "neither"},
         c = v.bin[k].partial_list <=> list = "partial_list",
         NEW w, w = Unlink(v, k, list, c)
  PROVE  Moved(v, w, k, F \cup P \cup {c}, v.bin[k].current_slab, F, P \ {c})
<1>0. F \cup P \subseteq Chunks /\ F \cap P = {}
  BY DEF Apart
<1> DEFINE top == v.bin[k].partial_list
           s == v.slab[c]
<1>1. DoublyListOf(top, Nexts(v), Prevs(v), P, NULL)
  BY DEF Linked
<1>2. /\ s.prev = NULL <=> c = top
      /\ s.prev \in P \cup {NULL} /\ s.next \in P \cup {NULL} /\ NULL \notin Chunks
      /\ Nexts(v)[c] = s.next /\ Prevs(v)[c] = s.prev
  <2>1. Nexts(v)[c] = s.next /\ Prevs(v)[c] = s.prev
    BY <1>0 DEF Nexts, Prevs
  <2>2. /\ Prevs(v)[c] = NULL <=> c = top
        /\ c # top => Prevs(v)[c] \in P
    BY <1>0, <1>1, DoublyPrev, SMTT(30)
  <2>3. Nexts(v)[c] \in P \cup {NULL}
    BY <1>1 DEF DoublyListOf, ListOf, Closed
  <2> QED
    BY <2>1, <2>2, <2>3, SlabsAssumption
<1>3. /\ Heads(v, w, k, v.bin[k].current_slab, IF c = top THEN s.next ELSE top,
               v.bin[k].full_list)
      /\ \A d \in Chunks :
           /\ SameData(w.slab[d], v.slab[d])
           /\ w.slab[d].next = IF d = s.prev THEN s.next ELSE v.slab[d].next
           /\ w.slab[d].prev = IF d = s.next THEN s.prev ELSE v.slab[d].prev
           /\ d \notin {s.prev, s.next} => w.slab[d] = v.slab[d]
  <2>1. /\ Heads(v, w, k, v.bin[k].current_slab, After(v, k, list, s, "partial_list"),
                 After(v, k, list, s, "full_list"))
        /\ Spliced(v, w, s)
    BY <1>0, UnlinkIs
  <2>2. /\ After(v, k, list, s, "partial_list") = (IF c = top THEN s.next ELSE top)
        /\ After(v, k, list, s, "full_list") = v.bin[k].full_list
    BY <1>2 DEF After
  <2> QED
    BY <2>1, <2>2 DEF Spliced, SplicedAt
<1>4. DoublyListOf(w.bin[k].partial_list, Nexts(w), Prevs(w), P \ {c}, NULL)
  <2>1. Around(Nexts(v), Prevs(v), Nexts(w), Prevs(w), P, c)
    BY <1>0, <1>3 DEF Around, Nexts, Prevs
  <2>2. w.bin[k].partial_list = IF c = top THEN Nexts(v)[c] ELSE top
    BY <1>0, <1>2, <1>3 DEF Heads
  <2> QED
    BY <1>1, <2>1, <2>2, DoublyRemove
<1>5. DoublyListOf(v.bin[k].full_list, Nexts(w), Prevs(w), F, NULL)
  <2>1. \A x \in F : Nexts(w)[x] = Nexts(v)[x] /\ Prevs(w)[x] = Prevs(v)[x]
    BY <1>0, <1>2, <1>3, SMTT(30) DEF Nexts, Prevs
  <2> QED
    BY <2>1, DoublyFrame, SMTT(30) DEF Linked
<1>6. Linked(w, k, F, P \ {c}) /\ w.bin[k].current_slab = v.bin[k].current_slab
      /\ w.gone = v.gone
  BY <1>0, <1>2, <1>3, <1>4, <1>5 DEF Linked, Heads
<1> QED
  BY <1>0, <1>2, <1>3, <1>6, SMTT(30) DEF Moved, Relinks, Heads

\* The first partial slab leaves its list to become the current one.
LEMMA Promote ==
  ASSUME NEW v \in ViewType, NEW k \in Classes, NEW F, NEW P, Apart(F, P), Linked(v, k, F, P),
         v.bin[k].partial_list # NULL, NEW w, w = PromotePartial(v, k)
  PROVE  /\ v.bin[k].partial_list \in P
         /\ Moved(v, w, k, F \cup P, v.bin[k].partial_list, F, P \ {v.bin[k].partial_list})
<1> PICK c : c = v.bin[k].partial_list
  BY SMTT(30)
<1>0. F \cup P \subseteq Chunks /\ F \cap P = {}
  BY DEF Apart
<1> DEFINE n == v.slab[c].next
<1>1. DoublyListOf(c, Nexts(v), Prevs(v), P, NULL)
  BY DEF Linked
<1>2. /\ c \in P /\ c # NULL /\ n # c /\ n \in P \cup {NULL} /\ NULL \notin Chunks
      /\ Nexts(v)[c] = n /\ Prevs(v)[c] = NULL
  BY <1>0, <1>1, SlabsAssumption DEF DoublyListOf, ListOf, Closed, Nexts, Prevs
<1>3. Promotes(v, w, k, c, n)
  BY <1>0, <1>2, PromotePartialIs
<1> HIDE DEF n
<1>4. DoublyListOf(n, Nexts(w), Prevs(w), P \ {c}, NULL)
  <2>1. Around(Nexts(v), Prevs(v), Nexts(w), Prevs(w), P, c)
    <3>1. \A d \in P : /\ Nexts(v)[d] = v.slab[d].next /\ Prevs(v)[d] = v.slab[d].prev
                       /\ Nexts(w)[d] = w.slab[d].next /\ Prevs(w)[d] = w.slab[d].prev
      BY <1>0 DEF Nexts, Prevs
    <3>2. \A d \in P : /\ w.slab[d].next = IF d = c THEN NULL ELSE v.slab[d].next
                       /\ w.slab[d].prev = IF d = c \/ d = n THEN NULL ELSE v.slab[d].prev
      BY <1>0, <1>3 DEF Promotes
    <3> QED
      BY <1>0, <1>2, <3>1, <3>2, SMTT(30) DEF Around
  <2>2. c \in P /\ n = IF c = c THEN Nexts(v)[c] ELSE c
    BY <1>2
  <2> QED
    BY <1>1, <2>1, <2>2, DoublyRemove
<1>5. DoublyListOf(v.bin[k].full_list, Nexts(w), Prevs(w), F, NULL)
  <2>1. \A x \in F : Nexts(w)[x] = Nexts(v)[x] /\ Prevs(w)[x] = Prevs(v)[x]
    BY <1>0, <1>2, <1>3, SMTT(30) DEF Promotes, Nexts, Prevs
  <2> QED
    BY <2>1, DoublyFrame, SMTT(30) DEF Linked
<1>6. Linked(w, k, F, P \ {c}) /\ w.bin[k].current_slab = c
      /\ w.gone = v.gone
  BY <1>0, <1>2, <1>3, <1>4, <1>5 DEF Promotes, Linked, Heads
<1>7. Relinks(v, w, k, F \cup P)
  <2>1. \A d \in Chunks \ (F \cup P) : d \notin {c, n}
    BY <1>0, <1>2
  <2> QED
    BY <1>3, <2>1 DEF Promotes, Relinks, Heads
<1> QED
  BY <1>2, <1>6, <1>7 DEF Moved

\* A slab whose checksum is right goes back to the chunk pool.
LEMMA DestroyIs ==
  ASSUME NEW x \in ViewType, NEW c \in Chunks, x.slab[c].checksum = x.slab[c].owning_tlh,
         x.gone = {}, NEW w, w = lz_slab_destroy(x, c)
  PROVE  w \in ViewType /\ w.slab = x.slab /\ w.bin = x.bin /\ w.gone = {c}
BY SMTT(30) DEF lz_slab_destroy, ViewType

\* One change of links after another.
LEMMA RelinksTwice ==
  ASSUME NEW u, NEW v, NEW w, NEW k, NEW E, Relinks(u, v, k, E), Relinks(v, w, k, E)
  PROVE  Relinks(u, w, k, E)
BY SMTT(30) DEF Relinks, SameData

----------------------------------------------------------------------------
(* The invariant of a bin, and what a freed block does to it.              *)

FullOf(v, k, M) ==
  {c \in M \ {v.bin[k].current_slab} : v.slab[c].used_objects = MaxObjects[k]}

PartialOf(v, k, M) ==
  {c \in M \ {v.bin[k].current_slab} : v.slab[c].used_objects # MaxObjects[k]}

\* Of the slabs M of a bin one may be current, the others are on the lists.
BinOK(v, k, M) ==
  /\ v.bin[k].current_slab # NULL => v.bin[k].current_slab \in M
  /\ Linked(v, k, FullOf(v, k, M), PartialOf(v, k, M))
  /\ \A c \in M \ {v.bin[k].current_slab} :
       v.slab[c].bump_ptr = 0 /\ v.slab[c].used_objects > 0

\* Slab r after block b has come back to s, but for its links.
TakenBack(r, s, b) ==
  /\ r.owning_tlh = s.owning_tlh /\ r.checksum = s.checksum /\ r.bump_ptr = s.bump_ptr
  /\ r.size_class = s.size_class
  /\ r.free_list_head = b /\ r.used_objects = s.used_objects - 1

Returned(v, w, k, M, b) ==
  /\ w \in ViewType
  /\ w.gone = {} \/ (w.gone = {b[1]} /\ v.slab[b[1]].used_objects = 1)
  /\ TakenBack(w.slab[b[1]], v.slab[b[1]], b)
  /\ \A d \in Chunks \ {b[1]} : SameData(w.slab[d], v.slab[d])
  /\ \A d \in Chunks \ M : w.slab[d] = v.slab[d]
  /\ \A j \in Classes \ {k} : w.bin[j] = v.bin[j]
  /\ BinOK(w, k, M \ w.gone)

\* From v to u, block b has been put on its slab's free list, no more.
Stored(v, u, b) ==
  /\ u \in ViewType /\ u.gone = {} /\ u.bin = v.bin
  /\ \A d \in Chunks : d # b[1] => u.slab[d] = v.slab[d]
  /\ TakenBack(u.slab[b[1]], v.slab[b[1]], b)
  /\ u.slab[b[1]].next = v.slab[b[1]].next /\ u.slab[b[1]].prev = v.slab[b[1]].prev

\* After that, slabs of the bin are relinked and an empty one may go.
LEMMA ReturnedIf ==
  ASSUME NEW v, NEW u, NEW w, NEW k, NEW M \in SUBSET Chunks, NEW b, b[1] \in M,
         NEW E \in SUBSET M, Stored(v, u, b), Relinks(u, w, k, E),
         w.gone = {} \/ (w.gone = {b[1]} /\ v.slab[b[1]].used_objects = 1),
         BinOK(w, k, M \ w.gone)
  PROVE  Returned(v, w, k, M, b)
<1>1. /\ \A d \in Chunks : SameData(w.slab[d], u.slab[d])
      /\ \A d \in Chunks \ M : w.slab[d] = u.slab[d]
      /\ \A j \in Classes \ {k} : w.bin[j] = u.bin[j]
  BY DEF Relinks
<1>2. TakenBack(w.slab[b[1]], v.slab[b[1]], b)
  BY <1>1 DEF Stored, TakenBack, SameData
<1>3. \A d \in Chunks \ {b[1]} : SameData(w.slab[d], v.slab[d])
  BY <1>1 DEF Stored
<1>4. \A d \in Chunks \ M : w.slab[d] = v.slab[d]
  BY <1>1 DEF Stored
<1>5. \A j \in Classes \ {k} : w.bin[j] = v.bin[j]
  BY <1>1 DEF Stored
<1> QED
  BY <1>2, <1>3, <1>4, <1>5 DEF Returned, Relinks

\* The counts of slabs that are full and of slabs that are not.
Counts(v, k, F, P) ==
  /\ \A c \in F : v.slab[c].used_objects = MaxObjects[k]
  /\ \A c \in P : v.slab[c].used_objects # MaxObjects[k]
  /\ \A c \in F \cup P : v.slab[c].bump_ptr = 0 /\ v.slab[c].used_objects > 0

\* The slab list invariant after links have changed.
LEMMA BinOKIf ==
  ASSUME NEW u, NEW w, NEW k \in Classes, NEW N \in SUBSET Chunks, NEW E, NEW F, NEW P,
         Counts(u, k, F, P), Relinks(u, w, k, E), Linked(w, k, F, P),
         NEW cur, w.bin[k].current_slab = cur, cur # NULL => cur \in N, F \cup P = N \ {cur}
  PROVE  BinOK(w, k, N)
<1>1. Counts(w, k, F, P)
  BY SMTT(30) DEF Counts, Relinks, SameData
<1>2. FullOf(w, k, N) = F /\ PartialOf(w, k, N) = P
  BY <1>1 DEF FullOf, PartialOf, Counts
<1> QED
  BY <1>1, <1>2 DEF BinOK, Counts

\* FreeToSlab(v, b) for a block of a slab of the bin: from the count alone, the
\* slab stays where it is, or goes from the full to the partial list, or is
\* destroyed and, if it was current, replaced.
LEMMA FreeToSlabIs ==
  ASSUME NEW v \in ViewType, v.gone = {}, NEW k \in Classes, NEW M \in SUBSET Chunks,
         BinOK(v, k, M), NEW b \in Blocks, NEW c \in M, c = b[1],
         v.slab[c].size_class = k, v.slab[c].checksum = v.slab[c].owning_tlh,
         v.slab[c].used_objects \in 1..MaxObjects[k],
         NEW w, w = FreeToSlab(v, b)
  PROVE  Returned(v, w, k, M, b)
<1> DEFINE F == FullOf(v, k, M)
           P == PartialOf(v, k, M)
           cur == v.bin[k].current_slab
           used == v.slab[c].used_objects
           v1 == [v EXCEPT !.slab[c] = TakeBack(@, b)]
<1>1. /\ NULL \notin Chunks /\ MaxObjects[k] \in Nat /\ MaxObjects[k] > 1 /\ used \in Nat
      /\ F \subseteq M /\ P \subseteq M /\ F \cap P = {} /\ cur \notin F \cup P
      /\ F \cup P = M \ {cur} /\ c \in Chunks /\ F \cup P \subseteq Chunks
  BY SlabsAssumption, SMTT(30) DEF FullOf, PartialOf
<1>2. Stored(v, v1, b)
  <2>1. /\ TakeBack(v.slab[c], b) \in SlabType
        /\ TakenBack(TakeBack(v.slab[c], b), v.slab[c], b)
        /\ TakeBack(v.slab[c], b).next = v.slab[c].next
        /\ TakeBack(v.slab[c], b).prev = v.slab[c].prev
    <3>1. v.slab[c] \in SlabType /\ used - 1 \in Nat
      BY <1>1, SMTT(30) DEF ViewType
    <3> QED
      BY <3>1 DEF SlabType, TakenBack, TakeBack, OptBlocks
  <2> QED
    BY <1>1, <2>1 DEF Stored, ViewType
<1>3. w = LET v2 == IF v1.slab[c].used_objects = max_objects(v1.slab[c]) - 1
                    THEN lz_tlh_rescue_from_full(v1, c) ELSE v1
          IN  IF v2.slab[c].used_objects = 0 THEN lz_tlh_recycle_empty_slab(v2, c) ELSE v2
  BY DEF FreeToSlab
<1> HIDE DEF v1
<1>4. v1.slab[c].used_objects = used - 1 /\ max_objects(v1.slab[c]) = MaxObjects[k]
      /\ v1.slab[c].size_class = k
  BY <1>2 DEF Stored, TakenBack, max_objects
<1>5. Linked(v1, k, F, P)
  <2>1. \A x \in Chunks : Nexts(v1)[x] = Nexts(v)[x] /\ Prevs(v1)[x] = Prevs(v)[x]
    BY <1>1, <1>2 DEF Stored, Nexts, Prevs
  <2>2. DoublyListOf(v.bin[k].full_list, Nexts(v1), Prevs(v1), F, NULL)
    BY <1>1, <2>1, DoublyFrame, SMTT(30) DEF BinOK, Linked
  <2>3. DoublyListOf(v.bin[k].partial_list, Nexts(v1), Prevs(v1), P, NULL)
    BY <1>1, <2>1, DoublyFrame, SMTT(30) DEF BinOK, Linked
  <2> QED
    BY <1>2, <2>2, <2>3 DEF Stored, Linked
<1>6. /\ v1.slab[c].checksum = v1.slab[c].owning_tlh
      /\ v1 \in ViewType /\ v1.gone = {} /\ v1.bin = v.bin
      /\ \A d \in Chunks : d # c => v1.slab[d] = v.slab[d]
  BY <1>2 DEF Stored, TakenBack
<1>7. /\ Counts(v, k, F, P)
      /\ cur # NULL => cur \in M
      /\ v1.slab[c].bump_ptr = v.slab[c].bump_ptr
  BY <1>2 DEF BinOK, Counts, FullOf, PartialOf, Stored, TakenBack
<1>15. lz_tlh_rescue_from_full(v1, c) =
         IF c = cur THEN v1
         ELSE PushFront(Unlink(v1, k, "full_list", c), k, "partial_list", c)
  BY <1>4, <1>6 DEF lz_tlh_rescue_from_full
<1>16. lz_tlh_recycle_empty_slab(v1, c) =
         IF c = cur THEN IF v.bin[k].partial_list = NULL THEN v1
                         ELSE lz_slab_destroy(PromotePartial(v1, k), c)
         ELSE lz_slab_destroy(Unlink(v1, k, IF c = v.bin[k].partial_list THEN "partial_list"
                                            ELSE IF c = v.bin[k].full_list THEN "full_list"
                                            ELSE "neither", c), c)
  BY <1>4, <1>6 DEF lz_tlh_recycle_empty_slab
<1> HIDE DEF F, P, cur, used
<1>17. /\ used # MaxObjects[k] => w = IF used = 1 THEN lz_tlh_recycle_empty_slab(v1, c) ELSE v1
       /\ used = MaxObjects[k] /\ lz_tlh_rescue_from_full(v1, c).slab[c].used_objects # 0
            => w = lz_tlh_rescue_from_full(v1, c)
  BY <1>1, <1>3, <1>4, SMTT(30)
<1>18. Apart(F, P)
  BY <1>1 DEF Apart
<1>8. ASSUME w = v1, c = cur \/ used \notin {1, MaxObjects[k]}
      PROVE  Returned(v, w, k, M, b)
  <2>1. Relinks(v1, w, k, M)
    BY <1>6, <1>8 DEF Relinks, SameData
  <2>2. Counts(v1, k, F, P)
    BY <1>1, <1>4, <1>6, <1>7, <1>8, SMTT(30) DEF used, Counts
  <2>3. BinOK(w, k, M)
    <3>1. w.bin[k].current_slab = cur /\ F \cup P = M \ {cur} /\ Linked(w, k, F, P)
      BY <1>1, <1>5, <1>6, <1>8 DEF cur
    <3> QED
      BY <1>7, <2>1, <2>2, <3>1, BinOKIf, SMTT(30)
  <2>4. M \ w.gone = M /\ w.gone = {}
    BY <1>6, <1>8
  <2> QED
    BY <1>2, <1>6, <1>8, <2>1, <2>3, <2>4, ReturnedIf
<1>9. CASE c = cur /\ used # 1
  <2>1. w = v1
    BY <1>1, <1>4, <1>9, <1>15, <1>17, SMTT(30)
  <2> QED
    BY <1>8, <1>9, <2>1
<1>10. CASE c = cur /\ used = 1 /\ v.bin[k].partial_list = NULL
  <2>1. w = v1
    BY <1>1, <1>10, <1>16, <1>17, SMTT(30)
  <2> QED
    BY <1>8, <1>10, <2>1
<1>11. CASE c = cur /\ used = 1 /\ v.bin[k].partial_list # NULL
  <2> DEFINE x == PromotePartial(v1, k)
             n == v.bin[k].partial_list
  <2>1. w = lz_slab_destroy(x, c)
    BY <1>1, <1>11, <1>16, <1>17, SMTT(30)
  <2>2. n \in Chunks
    BY <1>11 DEF ViewType, BinType, OptChunks
  <2>3. /\ n \in P /\ Linked(x, k, F, P \ {n}) /\ Relinks(v1, x, k, F \cup P)
        /\ x.bin[k].current_slab = n /\ x.gone = {}
    <3>1. v1 \in ViewType /\ v1.bin[k].partial_list = n /\ n # NULL
      BY <1>6, <1>11
    <3>2. /\ v1.bin[k].partial_list \in P
          /\ Moved(v1, x, k, F \cup P, v1.bin[k].partial_list, F,
                   P \ {v1.bin[k].partial_list})
      BY <1>5, <1>18, <3>1, Promote
    <3> HIDE DEF n
    <3> QED
      BY <1>6, <3>1, <3>2 DEF Moved
  <2> HIDE DEF x
  <2>4. /\ w \in ViewType /\ w.slab = x.slab /\ w.bin = x.bin /\ w.gone = {c}
    <3>1. x \in ViewType /\ x.slab[c].checksum = x.slab[c].owning_tlh /\ c \in Chunks
      BY <1>1, <1>6, <2>3 DEF Relinks, SameData
    <3> QED
      BY <2>1, <2>3, <3>1, DestroyIs, SMTT(30)
  <2>5. Relinks(v1, w, k, F \cup P) /\ Linked(w, k, F, P \ {n}) /\ w.bin[k].current_slab = n
    <3>1. Nexts(w) = Nexts(x) /\ Prevs(w) = Prevs(x)
      BY <2>4 DEF Nexts, Prevs
    <3> QED
      BY <2>3, <2>4, <3>1 DEF Relinks, Linked
  <2>6. Counts(v1, k, F, P \ {n})
    <3>1. \A d \in F \cup P : v1.slab[d] = v.slab[d]
      BY <1>1, <1>6, <1>11
    <3> QED
      BY <1>7, <3>1, SMTT(30) DEF Counts
  <2>7. n \in M \ {c} /\ F \cup (P \ {n}) = (M \ {c}) \ {n}
    BY <1>1, <1>11, <2>3
  <2>8. BinOK(w, k, M \ {c})
    BY <2>2, <2>5, <2>6, <2>7, BinOKIf, SMTT(30)
  <2> QED
    BY <1>1, <1>2, <1>11, <2>4, <2>5, <2>8, ReturnedIf DEF used
<1>12. CASE c # cur /\ used \notin {1, MaxObjects[k]}
  <2>1. w = v1
    BY <1>12, <1>17
  <2> QED
    BY <1>8, <1>12, <2>1
<1>13. CASE c # cur /\ used = MaxObjects[k]
  <2> DEFINE x == Unlink(v1, k, "full_list", c)
             y == PushFront(x, k, "partial_list", c)
  <2>1. c \in F
    BY <1>1, <1>7, <1>13 DEF Counts, used
  <2>2. /\ Linked(x, k, F \ {c}, P) /\ Relinks(v1, x, k, F \cup P \cup {c})
        /\ x.bin[k].current_slab = cur /\ x.gone = {}
    <3>1. v1 \in ViewType
      BY <1>6
    <3>2. Moved(v1, x, k, F \cup P \cup {c}, v1.bin[k].current_slab, F \ {c}, P)
      BY <1>5, <1>18, <2>1, <3>1, UnlinkFull
    <3> QED
      BY <1>6, <3>2 DEF Moved, cur
  <2>3. lz_tlh_rescue_from_full(v1, c) = y
    BY <1>13, <1>15
  <2> HIDE DEF x
  <2>4. /\ Linked(y, k, F \ {c}, P \cup {c})
        /\ Relinks(x, y, k, (F \ {c}) \cup P \cup {c})
        /\ y.bin[k].current_slab = cur /\ y.gone = {}
    <3>1. x \in ViewType /\ c \notin (F \ {c}) \cup P /\ Apart(F \ {c}, P)
      BY <1>1, <2>1, <2>2 DEF Relinks, Apart
    <3>2. c \in Chunks /\ Linked(x, k, F \ {c}, P)
      BY <1>1, <2>2
    <3>3. Moved(x, y, k, (F \ {c}) \cup P \cup {c}, x.bin[k].current_slab, F \ {c}, P \cup {c})
      BY <3>1, <3>2, PushPartial
    <3> QED
      BY <2>2, <3>3 DEF Moved
  <2> HIDE DEF y
  <2>5. (F \ {c}) \cup P \cup {c} = F \cup P \cup {c}
    BY SMTT(30)
  <2>6. Relinks(v1, y, k, F \cup P \cup {c})
    <3>1. Relinks(x, y, k, F \cup P \cup {c})
      BY <2>4, <2>5
    <3> QED
      BY <2>2, <3>1, RelinksTwice
  <2>7. w = y
    <3>1. y.slab[c].used_objects = MaxObjects[k] - 1
      BY <1>1, <1>4, <1>13, <2>6 DEF Relinks, SameData
    <3> QED
      BY <1>1, <1>13, <1>17, <2>3, <3>1, SMTT(30)
  <2>8. Counts(v1, k, F \ {c}, P \cup {c})
    BY <1>1, <1>4, <1>6, <1>7, <1>13, <2>1, SMTT(30) DEF Counts
  <2>9. (F \ {c}) \cup (P \cup {c}) = M \ {cur}
    BY <1>1, <2>1
  <2>10. BinOK(w, k, M)
    BY <1>7, <2>4, <2>6, <2>7, <2>8, <2>9, BinOKIf, SMTT(30)
  <2>11. M \ w.gone = M /\ w.gone = {}
    BY <2>4, <2>7
  <2> QED
    BY <1>1, <1>2, <2>6, <2>7, <2>10, <2>11, ReturnedIf, SMTT(30)
<1>14. CASE c # cur /\ used = 1
  <2> DEFINE list == IF c = v.bin[k].partial_list THEN "partial_list" ELSE "neither"
             x == Unlink(v1, k, list, c)
  <2>1. c \in P
    BY <1>1, <1>7, <1>14, SMTT(30) DEF Counts, used
  <2>2. c # v.bin[k].full_list
    <3>1. v.bin[k].full_list \in F \cup {NULL}
      BY ListTop, SMTT(30) DEF BinOK, Linked, DoublyListOf, F
    <3> QED
      BY <1>1, <2>1, <3>1
  <2>3. w = lz_slab_destroy(x, c)
    <3>1. list = IF c = v.bin[k].partial_list THEN "partial_list"
                 ELSE IF c = v.bin[k].full_list THEN "full_list" ELSE "neither"
      BY <2>2
    <3>2. w = lz_tlh_recycle_empty_slab(v1, c)
      BY <1>1, <1>14, <1>17, SMTT(30)
    <3> HIDE DEF list
    <3> QED
      BY <1>14, <1>16, <3>1, <3>2
  <2>4. /\ Linked(x, k, F, P \ {c}) /\ Relinks(v1, x, k, F \cup P \cup {c})
        /\ x.bin[k].current_slab = cur /\ x.gone = {}
    <3>1. /\ v1 \in ViewType /\ list \in {"partial_list", "neither"}
          /\ c = v1.bin[k].partial_list <=> list = "partial_list"
      BY <1>6
    <3> HIDE DEF list
    <3>2. Moved(v1, x, k, F \cup P \cup {c}, v1.bin[k].current_slab, F, P \ {c})
      BY <1>5, <1>18, <2>1, <3>1, UnlinkPartial
    <3> QED
      BY <1>6, <3>2 DEF Moved, cur
  <2> HIDE DEF x
  <2>5. /\ w \in ViewType /\ w.slab = x.slab /\ w.bin = x.bin /\ w.gone = {c}
    <3>1. x \in ViewType /\ x.slab[c].checksum = x.slab[c].owning_tlh /\ c \in Chunks
      BY <1>1, <1>6, <2>4 DEF Relinks, SameData
    <3> QED
      BY <2>3, <2>4, <3>1, DestroyIs, SMTT(30)
  <2>6. /\ Relinks(v1, w, k, F \cup P \cup {c}) /\ Linked(w, k, F, P \ {c})
        /\ w.bin[k].current_slab = cur
    BY <2>4, <2>5 DEF Relinks, Linked, Nexts, Prevs
  <2>7. Counts(v1, k, F, P \ {c})
    <3>1. \A d \in F \cup (P \ {c}) : v1.slab[d] = v.slab[d]
      BY <1>1, <1>6, <2>1
    <3> QED
      BY <1>7, <3>1, SMTT(30) DEF Counts
  <2>8. F \cup (P \ {c}) = (M \ {c}) \ {cur} /\ (cur # NULL => cur \in M \ {c})
    BY <1>1, <1>7, <1>14, <2>1
  <2>9. BinOK(w, k, M \ {c})
    BY <2>6, <2>7, <2>8, BinOKIf, SMTT(30)
  <2> QED
    <3>1. v.slab[c].used_objects = 1 /\ F \cup P \cup {c} \in SUBSET M
      BY <1>1, <1>14 DEF used
    <3> QED
      BY <1>1, <1>2, <2>5, <2>6, <2>9, <3>1, ReturnedIf, SMTT(30)
<1> QED
  BY <1>9, <1>10, <1>11, <1>12, <1>13, <1>14

----------------------------------------------------------------------------
(* What an allocation does to a bin.                                       *)

\* Slabs that are not on its lists do not matter to a bin.
LEMMA BinFrame ==
  ASSUME NEW v, NEW w, NEW k, NEW M \in SUBSET Chunks, BinOK(v, k, M), w.bin[k] = v.bin[k],
         \A d \in M \ {v.bin[k].current_slab} : w.slab[d] = v.slab[d]
  PROVE  BinOK(w, k, M)
<1>1. FullOf(w, k, M) = FullOf(v, k, M) /\ PartialOf(w, k, M) = PartialOf(v, k, M)
  BY DEF FullOf, PartialOf
<1>2. \A d \in FullOf(v, k, M) \cup PartialOf(v, k, M) :
        Nexts(w)[d] = Nexts(v)[d] /\ Prevs(w)[d] = Prevs(v)[d]
  BY DEF FullOf, PartialOf, Nexts, Prevs
<1>3. Linked(w, k, FullOf(v, k, M), PartialOf(v, k, M))
  BY <1>2, DoublyFrame, SMTT(30) DEF BinOK, Linked
<1> QED
  BY <1>1, <1>3 DEF BinOK

\* The current slab, if there is one, has no free block and no cursor.
Spent(v, k) ==
  v.bin[k].current_slab # NULL =>
    /\ v.slab[v.bin[k].current_slab].bump_ptr = 0
    /\ v.slab[v.bin[k].current_slab].used_objects = MaxObjects[k]

Fulls(v, k, M) == FullOf(v, k, M) \cup ({v.bin[k].current_slab} \ {NULL})

\* The exhausted slab of a bin goes to its full list.
LEMMA CurrentToFull ==
  ASSUME NEW v \in ViewType, NEW k \in Classes, NEW M \in SUBSET Chunks, BinOK(v, k, M),
         Spent(v, k), NEW w, w = PushFront(v, k, "full_list", v.bin[k].current_slab)
  PROVE  /\ Moved(v, w, k, M, v.bin[k].current_slab, Fulls(v, k, M), PartialOf(v, k, M))
         /\ Counts(v, k, Fulls(v, k, M), PartialOf(v, k, M))
         /\ Apart(Fulls(v, k, M), PartialOf(v, k, M))
         /\ Fulls(v, k, M) \cup PartialOf(v, k, M) = M
         /\ w.bin[k].partial_list = v.bin[k].partial_list
<1> DEFINE F == Fulls(v, k, M)
           P == PartialOf(v, k, M)
<1> PICK cur : cur = v.bin[k].current_slab
  BY SMTT(30)
<1>1. /\ cur \in M \cup {NULL} /\ NULL \notin Chunks /\ MaxObjects[k] \in Nat \ {0, 1}
      /\ F \cup P = M /\ F \cap P = {}
  BY SlabsAssumption DEF BinOK, FullOf, PartialOf, Fulls
<1>2. Counts(v, k, F, P)
  BY <1>1, SMTT(30) DEF Counts, FullOf, PartialOf, BinOK, Spent, Fulls
<1>3. CASE cur = NULL
  <2>1. w = v /\ F = FullOf(v, k, M)
    BY <1>3 DEF PushFront, Fulls
  <2> QED
    BY <1>1, <1>2, <2>1 DEF Moved, Relinks, SameData, BinOK, Apart
<1>4. CASE cur # NULL
  <2> DEFINE G == FullOf(v, k, M)
  <2>1. cur \in Chunks /\ Apart(G, P) /\ cur \notin G \cup P /\ Linked(v, k, G, P)
    BY <1>1, <1>4 DEF Apart, FullOf, PartialOf, BinOK
  <2>2. Moved(v, w, k, G \cup P \cup {cur}, v.bin[k].current_slab, G \cup {cur}, P)
    <3>1. w = PushFront(v, k, "full_list", cur)
      BY SMTT(30)
    <3> HIDE DEF P, G
    <3> QED
      BY <2>1, <3>1, PushFull
  <2>3. G \cup {cur} = F /\ G \cup P \cup {cur} = M
    BY <1>1, <1>4 DEF Fulls
  <2>4. v.bin[k].full_list # cur
    <3>1. v.bin[k].full_list \in G \cup {NULL}
      BY <2>1, ListTop, SMTT(30) DEF Linked, DoublyListOf
    <3> QED
      BY <1>4, <2>1, <3>1
  <2>5. w.bin[k].partial_list = v.bin[k].partial_list
    BY <2>1, <2>4, PushFullHead, SMTT(30)
  <2> QED
    BY <1>1, <1>2, <2>2, <2>3, <2>5 DEF Apart
<1> QED
  BY <1>3, <1>4

\* The first partial slab takes the place of the exhausted one.
LEMMA PartialTaken ==
  ASSUME NEW v \in ViewType, NEW k \in Classes, NEW M \in SUBSET Chunks, BinOK(v, k, M),
         Spent(v, k), NEW c, c = v.bin[k].partial_list, c # NULL,
         NEW w, w = PromotePartial(PushFront(v, k, "full_list", v.bin[k].current_slab), k)
  PROVE  /\ c \in PartialOf(v, k, M)
         /\ Relinks(v, w, k, M) /\ w.bin[k].current_slab = c
         /\ BinOK(w, k, M)
<1> DEFINE cur == v.bin[k].current_slab
           F == Fulls(v, k, M)
           P == PartialOf(v, k, M)
           u == PushFront(v, k, "full_list", cur)
<1>1. /\ Moved(v, u, k, M, cur, F, P) /\ Counts(v, k, F, P) /\ Apart(F, P) /\ F \cup P = M
      /\ u.bin[k].partial_list = c
  BY CurrentToFull, SMTT(30)
<1>2. w = PromotePartial(u, k)
  BY SMTT(30)
<1> HIDE DEF u, F, P
<1>3. u \in ViewType /\ Linked(u, k, F, P) /\ Relinks(v, u, k, M)
  BY <1>1 DEF Moved, Relinks
<1>4. c \in P /\ Moved(u, w, k, F \cup P, c, F, P \ {c})
  <2>1. u.bin[k].partial_list # NULL
    BY <1>1
  <2>2. /\ u.bin[k].partial_list \in P
        /\ Moved(u, w, k, F \cup P, u.bin[k].partial_list, F, P \ {u.bin[k].partial_list})
    BY <1>1, <1>2, <1>3, <2>1, Promote
  <2> QED
    BY <1>1, <2>2
<1>5. Relinks(v, w, k, M) /\ Linked(w, k, F, P \ {c}) /\ w.bin[k].current_slab = c
  BY <1>1, <1>3, <1>4, RelinksTwice DEF Moved
<1>6. Counts(v, k, F, P \ {c}) /\ F \cup (P \ {c}) = M \ {c} /\ c \in M
  BY <1>1, <1>4 DEF Counts, Apart
<1>7. BinOK(w, k, M)
  BY <1>5, <1>6, BinOKIf
<1> QED
  BY <1>4, <1>5, <1>7 DEF P

NewSlab(t, k) ==
  [owning_tlh |-> t, checksum |-> t, next |-> NULL, prev |-> NULL,
   bump_ptr |-> 1, free_list_head |-> NULL, size_class |-> k, used_objects |-> 0]

Added(v, w, k, M, c, new) ==
  /\ w \in ViewType
  /\ w.slab[c] = new
  /\ \A d \in Chunks \ {c} : SameData(w.slab[d], v.slab[d])
  /\ \A d \in Chunks \ (M \cup {c}) : w.slab[d] = v.slab[d]
  /\ \A j \in Classes \ {k} : w.bin[j] = v.bin[j]
  /\ w.bin[k].current_slab = c
  /\ BinOK(w, k, M \cup {c})

\* A new slab takes the place of the exhausted one.
LEMMA SlabAdded ==
  ASSUME NEW v \in ViewType, NEW t \in Threads, NEW k \in Classes, NEW M \in SUBSET Chunks,
         BinOK(v, k, M), Spent(v, k), NEW c \in Chunks \ M,
         NEW w, w = SetList(PushFront(lz_slab_create(v, t, k, c), k, "full_list",
                                      v.bin[k].current_slab), k, "current_slab", c)
  PROVE  Added(v, w, k, M, c, NewSlab(t, k))
<1> DEFINE x == lz_slab_create(v, t, k, c)
           u == PushFront(x, k, "full_list", x.bin[k].current_slab)
<1>1. /\ x \in ViewType /\ x.bin = v.bin /\ x.slab[c] = NewSlab(t, k)
      /\ \A d \in Chunks \ {c} : x.slab[d] = v.slab[d]
  BY DEF lz_slab_create, NewSlab, ViewType, SlabType, OptChunks, OptBlocks
<1>2. w = SetList(u, k, "current_slab", c)
  BY <1>1
<1> HIDE DEF x
<1>3. BinOK(x, k, M)
  BY <1>1, BinFrame
<1>4. v.bin[k].current_slab # NULL => v.bin[k].current_slab \in Chunks \ {c}
  BY DEF BinOK
<1>5. Spent(x, k)
  BY <1>1, <1>4 DEF Spent
<1> DEFINE F == Fulls(x, k, M)
           P == PartialOf(x, k, M)
<1>6. /\ Moved(x, u, k, M, x.bin[k].current_slab, F, P) /\ Counts(x, k, F, P)
      /\ F \cup P = M
  BY <1>1, <1>3, <1>5, CurrentToFull
<1> HIDE DEF u, F, P
<1>7. u \in ViewType /\ Linked(u, k, F, P) /\ Relinks(x, u, k, M)
  BY <1>6 DEF Moved, Relinks
<1>8. Heads(u, w, k, c, u.bin[k].partial_list, u.bin[k].full_list) /\ w.slab = u.slab
  BY <1>2, <1>7, SetListIs, SMTT(30) DEF OptChunks
<1>9. Relinks(x, w, k, M) /\ Linked(w, k, F, P) /\ w.bin[k].current_slab = c
  BY <1>7, <1>8 DEF Relinks, Linked, Heads, Nexts, Prevs
<1>10. M \cup {c} \in SUBSET Chunks /\ F \cup P = (M \cup {c}) \ {c} /\ c \in M \cup {c}
  BY <1>6
<1>11. BinOK(w, k, M \cup {c})
  BY <1>6, <1>9, <1>10, BinOKIf
<1>12. /\ w \in ViewType /\ w.slab[c] = NewSlab(t, k)
       /\ \A d \in Chunks \ {c} : SameData(w.slab[d], v.slab[d])
  BY <1>1, <1>9 DEF Relinks
<1>13. /\ \A d \in Chunks \ (M \cup {c}) : w.slab[d] = v.slab[d]
       /\ \A j \in Classes \ {k} : w.bin[j] = v.bin[j]
  BY <1>1, <1>9 DEF Relinks
<1> QED
  BY <1>9, <1>11, <1>12, <1>13 DEF Added

----------------------------------------------------------------------------
(* The blocks of a slab s in chunk c, for places pl and links lk.          *)

In(pl, where, who) == {b \in Blocks : pl[b] = <<where, who>>}
Rests(pl, b) == pl[b][1] \in {"raw", "free"}

Items(s, c)      == {b \in BlocksOf(c) : b[2] \in 1..max_objects(s)}
OutOf(s, c, pl)  == {b \in Items(s, c) : ~Rests(pl, b)}
IdleOf(s, c, pl) == {b \in Items(s, c) : Rests(pl, b)}
CarvedBy(s, c)   == {b \in Items(s, c) : s.bump_ptr = 0 \/ b[2] < s.bump_ptr}
FreeOf(c, pl)    == {b \in BlocksOf(c) : pl[b] = <<"free", NULL>>}

Frees(lk)  == [b \in Blocks |-> Deobfuscate(lk[b])]
Clears(lk) == [b \in Blocks |-> ReadClear(lk[b])]

\* The free list holds the free blocks; used_objects counts the blocks given
\* out and leaves as many as are free or not carved yet.
SlabOK(s, c, pl, lk) ==
  /\ s \in SlabType /\ s.owning_tlh \in Threads /\ s.checksum = s.owning_tlh
  /\ s.size_class \in Classes
  /\ s.used_objects <= max_objects(s)
  /\ ListOf(s.free_list_head, Frees(lk), FreeOf(c, pl), NULL)
  /\ Numbered(OutOf(s, c, pl), s.used_objects)
  /\ Numbered(IdleOf(s, c, pl), max_objects(s) - s.used_objects)
  /\ \A b \in BlocksOf(c) : pl[b][1] # "raw" <=> b \in CarvedBy(s, c)

\* Slab data r differs from s in its links and in a spent cursor only.
Matches(s, r) ==
  /\ r.owning_tlh = s.owning_tlh /\ r.checksum = s.checksum /\ r.size_class = s.size_class
  /\ r.free_list_head = s.free_list_head /\ r.used_objects = s.used_objects
  /\ r.bump_ptr = s.bump_ptr \/ (r.bump_ptr = 0 /\ s.bump_ptr > max_objects(s))

\* The blocks of chunk c that change place were not at rest and are not.
Calm(c, pl, pm, lk, lm) ==
  \A b \in BlocksOf(c) : (pm[b] = pl[b] /\ lm[b] = lk[b]) \/ ~(Rests(pm, b) \/ Rests(pl, b))

\* Nothing of the slab changes but its links and a cursor that is spent.
LEMMA SlabFrame ==
  ASSUME NEW s, NEW c, NEW pl, NEW lk, SlabOK(s, c, pl, lk),
         NEW r \in SlabType, NEW pm, NEW lm, Matches(s, r), Calm(c, pl, pm, lk, lm)
  PROVE  SlabOK(r, c, pm, lm)
<1>a. /\ r.owning_tlh = s.owning_tlh /\ r.checksum = s.checksum /\ r.size_class = s.size_class
      /\ r.free_list_head = s.free_list_head /\ r.used_objects = s.used_objects
      /\ r.bump_ptr = s.bump_ptr \/ (r.bump_ptr = 0 /\ s.bump_ptr > max_objects(s))
  BY DEF Matches
<1>b. \A b \in BlocksOf(c) : (pm[b] = pl[b] /\ lm[b] = lk[b]) \/ ~(Rests(pm, b) \/ Rests(pl, b))
  BY DEF Calm
<1>1. max_objects(r) = max_objects(s) /\ Items(r, c) = Items(s, c)
  BY <1>a DEF max_objects, Items
<1>2. max_objects(s) \in Nat /\ s.bump_ptr \in Nat
  BY SlabsAssumption DEF SlabOK, SlabType, max_objects
<1>3. OutOf(r, c, pm) = OutOf(s, c, pl) /\ IdleOf(r, c, pm) = IdleOf(s, c, pl)
  BY <1>b, <1>1 DEF OutOf, IdleOf, Items, Rests
<1>4. CarvedBy(r, c) = CarvedBy(s, c)
  <2>1. \A b \in Items(s, c) : b[2] \in Nat /\ b[2] <= max_objects(s)
    BY <1>2, SMTT(30) DEF Items
  <2> QED
    BY <1>a, <1>1, <1>2, <2>1, SMTT(30) DEF CarvedBy
<1>5. FreeOf(c, pm) = FreeOf(c, pl)
  BY <1>b, SMTT(30) DEF FreeOf, Rests
<1>6. \A b \in FreeOf(c, pl) : Frees(lm)[b] = Frees(lk)[b]
  BY <1>b, SMTT(30) DEF FreeOf, Rests, Frees, BlocksOf
<1>7. ListOf(r.free_list_head, Frees(lm), FreeOf(c, pm), NULL)
  BY <1>a, <1>5, <1>6, ListFrame DEF SlabOK
<1>8. \A b \in BlocksOf(c) : pm[b][1] # "raw" <=> b \in CarvedBy(r, c)
  BY <1>b, <1>4 DEF SlabOK, Rests
<1> QED
  BY <1>a, <1>1, <1>3, <1>7, <1>8 DEF SlabOK

\* One of its blocks is given out.
Given(s, r, c, pl, pm, lk, lm, b) ==
  /\ r \in SlabType
  /\ r.owning_tlh = s.owning_tlh /\ r.checksum = s.checksum /\ r.size_class = s.size_class
  /\ r.used_objects = s.used_objects + 1
  /\ pm[b] = <<"live", NULL>>
  /\ \A x \in BlocksOf(c) \ {b} : pm[x] = pl[x] /\ lm[x] = lk[x]

\* Slab c of sm is that of sl with one more block in use, free list f and cursor p.
Counted(sl, sm, c, f, p) ==
  /\ sm \in [Chunks -> SlabType] /\ \A d \in Chunks \ {c} : sm[d] = sl[d]
  /\ sm[c].owning_tlh = sl[c].owning_tlh /\ sm[c].checksum = sl[c].checksum
  /\ sm[c].size_class = sl[c].size_class /\ sm[c].bump_ptr = p
  /\ sm[c].free_list_head = f /\ sm[c].used_objects = sl[c].used_objects + 1

\* What the slabs are once slab c's free list is popped and its count raised.
LEMMA PoppedData ==
  ASSUME NEW sl \in [Chunks -> SlabType], NEW c \in Chunks, NEW e \in OptBlocks, NEW sm, NEW so,
         so = [sl EXCEPT ![c].free_list_head = e], sm = [so EXCEPT ![c].used_objects = @ + 1]
  PROVE  Counted(sl, sm, c, e, sl[c].bump_ptr)
BY SMTT(30) DEF SlabType, Counted

\* What they are once its cursor is moved and its count raised.
LEMMA BumpedData ==
  ASSUME NEW sl \in [Chunks -> SlabType], NEW c \in Chunks, NEW sm, NEW so,
         so = [sl EXCEPT ![c].bump_ptr = @ + 1], sm = [so EXCEPT ![c].used_objects = @ + 1]
  PROVE  Counted(sl, sm, c, sl[c].free_list_head, sl[c].bump_ptr + 1)
BY SMTT(30) DEF SlabType, Counted

\* A block that is given out is counted.
LEMMA GivenCounts ==
  ASSUME NEW s, NEW c, NEW pl, NEW lk, SlabOK(s, c, pl, lk), NEW b \in IdleOf(s, c, pl),
         NEW r, NEW pm, NEW lm, Given(s, r, c, pl, pm, lk, lm, b)
  PROVE  /\ max_objects(r) = max_objects(s) /\ Items(r, c) = Items(s, c)
         /\ r.used_objects <= max_objects(r)
         /\ Numbered(OutOf(r, c, pm), r.used_objects)
         /\ Numbered(IdleOf(r, c, pm), max_objects(r) - r.used_objects)
<1> DEFINE n == max_objects(s)
           u == s.used_objects
<1>1. max_objects(r) = max_objects(s) /\ Items(r, c) = Items(s, c)
  BY DEF max_objects, Items, Given
<1>2. n \in Nat /\ u \in Nat /\ u <= n /\ n - u \in Nat
  BY SlabsAssumption, SMTT(30) DEF SlabOK, SlabType, max_objects
<1>3. /\ OutOf(r, c, pm) = OutOf(s, c, pl) \cup {b} /\ b \notin OutOf(s, c, pl)
      /\ IdleOf(r, c, pm) = IdleOf(s, c, pl) \ {b}
  BY <1>1, SMTT(30) DEF OutOf, IdleOf, Items, Rests, Given
<1>4. n - u # 0 /\ Numbered(IdleOf(s, c, pl) \ {b}, (n - u) - 1)
  BY <1>2, NumberedRemove DEF SlabOK
<1>5. Numbered(OutOf(s, c, pl) \cup {b}, u + 1)
  BY <1>2, <1>3, NumberedAdd DEF SlabOK
<1>6. r.used_objects = u + 1 /\ (n - u) - 1 = n - (u + 1) /\ u + 1 <= n
  BY <1>2, <1>4, SMTT(30) DEF Given
<1> QED
  BY <1>1, <1>3, <1>4, <1>5, <1>6

\* The block at the head of the free list is given out.
LEMMA PopSlab ==
  ASSUME NEW s, NEW c \in Chunks, NEW pl, NEW lk, SlabOK(s, c, pl, lk), NEW b,
         b = s.free_list_head, b # NULL,
         NEW r, NEW pm, NEW lm, Given(s, r, c, pl, pm, lk, lm, b),
         r.bump_ptr = s.bump_ptr, r.free_list_head = Frees(lk)[b]
  PROVE  b \in FreeOf(c, pl) /\ SlabOK(r, c, pm, lm)
<1> DEFINE S == FreeOf(c, pl)
<1>1. b \in S /\ ListOf(Frees(lk)[b], Frees(lk), S \ {b}, NULL)
  BY ListPop DEF SlabOK
<1>2. b \in IdleOf(s, c, pl)
  BY <1>1, SMTT(30) DEF SlabOK, FreeOf, IdleOf, Rests, CarvedBy
<1>3. FreeOf(c, pm) = S \ {b}
  BY SMTT(30) DEF FreeOf, Given
<1>4. \A x \in S \ {b} : Frees(lm)[x] = Frees(lk)[x]
  BY DEF FreeOf, Frees, BlocksOf, Given
<1>5. ListOf(r.free_list_head, Frees(lm), FreeOf(c, pm), NULL)
  BY <1>1, <1>3, <1>4, ListFrame, SMTT(30)
<1>6. /\ max_objects(r) = max_objects(s) /\ Items(r, c) = Items(s, c)
      /\ r.used_objects <= max_objects(r)
      /\ Numbered(OutOf(r, c, pm), r.used_objects)
      /\ Numbered(IdleOf(r, c, pm), max_objects(r) - r.used_objects)
  BY <1>2, GivenCounts
<1>7. \A x \in BlocksOf(c) : pm[x][1] # "raw" <=> x \in CarvedBy(r, c)
  BY <1>1, <1>6, SMTT(30) DEF SlabOK, CarvedBy, Given, FreeOf
<1> QED
  BY <1>1, <1>5, <1>6, <1>7 DEF SlabOK, Given

\* The block at the cursor is given out.
LEMMA BumpSlab ==
  ASSUME NEW s, NEW c \in Chunks, NEW pl, NEW lk, SlabOK(s, c, pl, lk),
         NEW b, b = <<c, s.bump_ptr>>, s.bump_ptr \in 1..max_objects(s),
         NEW r, NEW pm, NEW lm, Given(s, r, c, pl, pm, lk, lm, b),
         r.bump_ptr = s.bump_ptr + 1, r.free_list_head = s.free_list_head
  PROVE  b \in Blocks /\ pl[b][1] = "raw" /\ SlabOK(r, c, pm, lm)
<1>1. max_objects(s) \in Nat /\ s.bump_ptr \in Nat /\ s.bump_ptr # 0
  BY SlabsAssumption, SMTT(30) DEF SlabOK, SlabType, max_objects
<1>2. b \in Blocks /\ b \in Items(s, c)
  BY DEF Blocks, Slots, Items, BlocksOf, max_objects, SlabOK
<1>3. b \notin CarvedBy(s, c) /\ pl[b][1] = "raw" /\ b \in IdleOf(s, c, pl)
  BY <1>1, <1>2, SMTT(30) DEF CarvedBy, SlabOK, IdleOf, Rests, Items
<1>4. FreeOf(c, pm) = FreeOf(c, pl) /\ b \notin FreeOf(c, pl)
  BY <1>3, SMTT(30) DEF FreeOf, Given
<1>5. \A x \in FreeOf(c, pl) : Frees(lm)[x] = Frees(lk)[x]
  BY <1>4 DEF FreeOf, Frees, BlocksOf, Given
<1>6. ListOf(r.free_list_head, Frees(lm), FreeOf(c, pm), NULL)
  BY <1>4, <1>5, ListFrame DEF SlabOK
<1>7. /\ max_objects(r) = max_objects(s) /\ Items(r, c) = Items(s, c)
      /\ r.used_objects <= max_objects(r)
      /\ Numbered(OutOf(r, c, pm), r.used_objects)
      /\ Numbered(IdleOf(r, c, pm), max_objects(r) - r.used_objects)
  BY <1>3, GivenCounts
<1>8. CarvedBy(r, c) = CarvedBy(s, c) \cup {b}
  <2>1. \A x \in Items(s, c) : x[2] \in Nat /\ (x[2] = s.bump_ptr <=> x = b)
    BY <1>1, SMTT(30) DEF Items, BlocksOf, Blocks
  <2> QED
    BY <1>1, <1>2, <1>7, <2>1, SMTT(30) DEF CarvedBy
<1>9. \A x \in BlocksOf(c) : pm[x][1] # "raw" <=> x \in CarvedBy(r, c)
  BY <1>8, SMTT(30) DEF SlabOK, Given
<1> QED
  BY <1>2, <1>3, <1>6, <1>7, <1>9 DEF SlabOK, Given

\* Block b, which was out, is a free block of slab c linked to its old head.
PutBack(s, c, pl, pm, lk, lm, b) ==
  /\ pl[b][1] \notin {"raw", "free"}
  /\ pm[b] = <<"free", NULL>> /\ lm[b] = Obfuscate(s.free_list_head)
  /\ \A x \in BlocksOf(c) \ {b} : pm[x] = pl[x] /\ lm[x] = lk[x]

\* A block comes back and heads the free list.
LEMMA ReturnToSlab ==
  ASSUME NEW s, NEW c \in Chunks, NEW pl, NEW lk, SlabOK(s, c, pl, lk),
         NEW b \in BlocksOf(c), NEW r \in SlabType, TakenBack(r, s, b), NEW pm, NEW lm,
         PutBack(s, c, pl, pm, lk, lm, b)
  PROVE  SlabOK(r, c, pm, lm)
<1> DEFINE n == max_objects(s)
           u == s.used_objects
<1>0. /\ pl[b][1] \notin {"raw", "free"}
      /\ pm[b] = <<"free", NULL>> /\ lm[b] = Obfuscate(s.free_list_head)
      /\ \A x \in BlocksOf(c) \ {b} : pm[x] = pl[x] /\ lm[x] = lk[x]
  BY DEF PutBack
<1>1. max_objects(r) = n /\ Items(r, c) = Items(s, c) /\ CarvedBy(r, c) = CarvedBy(s, c)
  BY DEF max_objects, Items, CarvedBy, TakenBack
<1>2. n \in Nat /\ u \in Nat /\ u <= n /\ n - u \in Nat
  BY SlabsAssumption, SMTT(30) DEF SlabOK, SlabType, max_objects
<1>3. b \in OutOf(s, c, pl)
  BY <1>0 DEF SlabOK, OutOf, Rests, CarvedBy
<1>4. /\ OutOf(r, c, pm) = OutOf(s, c, pl) \ {b} /\ b \notin IdleOf(s, c, pl)
      /\ IdleOf(r, c, pm) = IdleOf(s, c, pl) \cup {b}
  BY <1>0, <1>1, <1>3, SMTT(30) DEF OutOf, IdleOf, Items, Rests
<1>5. u # 0 /\ Numbered(OutOf(s, c, pl) \ {b}, u - 1)
  BY <1>2, <1>3, NumberedRemove DEF SlabOK
<1>6. Numbered(IdleOf(s, c, pl) \cup {b}, (n - u) + 1)
  BY <1>2, <1>4, NumberedAdd DEF SlabOK
<1>7. r.used_objects = u - 1 /\ (n - u) + 1 = n - (u - 1) /\ u - 1 <= n
  BY <1>2, <1>5, SMTT(30) DEF TakenBack
<1>8. ListOf(b, Frees(lm), FreeOf(c, pl) \cup {b}, NULL)
  <2>1. b # NULL /\ b \notin FreeOf(c, pl) /\ Frees(lm)[b] = s.free_list_head
    BY <1>0, SlabsAssumption, SMTT(30) DEF FreeOf, Frees, BlocksOf, Obfuscate, Deobfuscate
  <2>2. \A x \in FreeOf(c, pl) : Frees(lm)[x] = Frees(lk)[x]
    BY <1>0, <2>1 DEF FreeOf, Frees, BlocksOf
  <2> QED
    BY <2>1, <2>2, ListPush, SMTT(30) DEF SlabOK
<1>9. FreeOf(c, pm) = FreeOf(c, pl) \cup {b} /\ r.free_list_head = b
  BY <1>0 DEF FreeOf, TakenBack
<1>10. \A x \in BlocksOf(c) : pm[x][1] # "raw" <=> x \in CarvedBy(r, c)
  BY <1>0, <1>1, <1>3, SMTT(30) DEF SlabOK, OutOf
<1> QED
  BY <1>1, <1>4, <1>5, <1>6, <1>7, <1>8, <1>9, <1>10 DEF SlabOK, TakenBack

\* A block that is out is counted; if it is the only one, all others rest.
LEMMA OutIsCounted ==
  ASSUME NEW s, NEW c, NEW pl, NEW lk, SlabOK(s, c, pl, lk), NEW b \in BlocksOf(c),
         ~Rests(pl, b)
  PROVE  /\ s.used_objects \in 1..max_objects(s)
         /\ s.used_objects = 1 => \A x \in BlocksOf(c) \ {b} : Rests(pl, x)
<1>1. max_objects(s) \in Nat /\ s.used_objects \in Nat /\ s.used_objects <= max_objects(s)
  BY SlabsAssumption DEF SlabOK, SlabType, max_objects
<1>2. b \in OutOf(s, c, pl)
  BY DEF SlabOK, OutOf, Rests, CarvedBy
<1>3. s.used_objects # 0 /\ Numbered(OutOf(s, c, pl) \ {b}, s.used_objects - 1)
  BY <1>1, <1>2, NumberedRemove DEF SlabOK
<1>4. ASSUME s.used_objects = 1, NEW x \in BlocksOf(c) \ {b}, ~Rests(pl, x)
      PROVE  FALSE
  <2>1. x \in OutOf(s, c, pl) \ {b}
    BY <1>4 DEF SlabOK, OutOf, Rests, CarvedBy
  <2>2. Numbered(OutOf(s, c, pl) \ {b}, 0)
    BY <1>3, <1>4, SMTT(30)
  <2> QED
    BY <2>1, <2>2, NumberedRemove
<1> QED
  BY <1>1, <1>3, <1>4, SMTT(30)

\* The free blocks of chunk c are in nobody's hands.
Orderly(c, pl) == \A b \in BlocksOf(c) : pl[b][1] = "free" => pl[b] = <<"free", NULL>>

\* With no free block and no cursor left every block is out.
LEMMA SpentIsFull ==
  ASSUME NEW s, NEW c, NEW pl, NEW lk, SlabOK(s, c, pl, lk),
         Orderly(c, pl), s.free_list_head = NULL, s.bump_ptr \notin 1..max_objects(s)
  PROVE  s.used_objects = max_objects(s) /\ (s.bump_ptr = 0 \/ s.bump_ptr > max_objects(s))
<1>1. /\ max_objects(s) \in Nat /\ s.used_objects \in Nat /\ s.used_objects <= max_objects(s)
      /\ s.bump_ptr \in Nat
  BY SlabsAssumption DEF SlabOK, SlabType, max_objects
<1>2. s.bump_ptr = 0 \/ s.bump_ptr > max_objects(s)
  BY <1>1, SMTT(30)
<1>3. FreeOf(c, pl) = {}
  BY ListNull DEF SlabOK
<1>4. \A b \in Items(s, c) : b \in CarvedBy(s, c)
  BY <1>1, <1>2, SMTT(30) DEF CarvedBy, Items
<1>5. \A b \in Items(s, c) : b \in BlocksOf(c) /\ b \in Blocks /\ pl[b] # <<"free", NULL>>
  BY <1>3 DEF Items, FreeOf, BlocksOf, Orderly
<1>6. IdleOf(s, c, pl) = {}
  <2>1. \A b \in Items(s, c) : pl[b][1] # "raw" /\ ~Rests(pl, b)
    BY <1>4, <1>5 DEF SlabOK, Rests, Orderly
  <2> QED
    BY <2>1 DEF IdleOf
<1>7. Numbered({}, max_objects(s) - s.used_objects) /\ max_objects(s) - s.used_objects \in Nat
  BY <1>1, <1>6, SMTT(30) DEF SlabOK
<1>8. max_objects(s) - s.used_objects = 0
  BY <1>7, NumberedEmpty
<1> QED
  BY <1>1, <1>2, <1>8, SMTT(30)

\* A slab just created in a chunk that held nothing.
LEMMA NewSlabOK ==
  ASSUME NEW t \in Threads, NEW k \in Classes, NEW c \in Chunks, NEW pl, NEW lk,
         \A b \in BlocksOf(c) : pl[b] = <<"raw", NULL>>
  PROVE  SlabOK(NewSlab(t, k), c, pl, lk)
<1> DEFINE s == NewSlab(t, k)
           n == MaxObjects[k]
<1>1. /\ s \in SlabType /\ s.owning_tlh = t /\ s.checksum = t /\ s.size_class = k
      /\ s.free_list_head = NULL /\ s.bump_ptr = 1 /\ s.used_objects = 0
  BY DEF NewSlab, SlabType, OptChunks, OptBlocks
<1> HIDE DEF s
<1>2. n \in Nat /\ max_objects(s) = n
  BY <1>1, SlabsAssumption DEF max_objects
<1>3. FreeOf(c, pl) = {} /\ OutOf(s, c, pl) = {} /\ CarvedBy(s, c) = {}
  BY <1>1, <1>2, SMTT(30) DEF FreeOf, OutOf, Rests, CarvedBy, Items
<1>4. Items(s, c) = {<<c, i>> : i \in 1..n} /\ IdleOf(s, c, pl) = Items(s, c)
  BY <1>2, SMTT(30) DEF Items, BlocksOf, Blocks, Slots, IdleOf, Rests
<1>5. Numbered(IdleOf(s, c, pl), n)
  <2> DEFINE f == [i \in 1..n |-> <<c, i>>]
  <2>1. f \in [1..n -> IdleOf(s, c, pl)]
    BY <1>4
  <2>2. \A x \in IdleOf(s, c, pl) : \E i \in 1..n : f[i] = x
    BY <1>4
  <2>3. \A i, j \in 1..n : f[i] = f[j] => i = j
    BY SMTT(30)
  <2> QED
    BY <2>1, <2>2, <2>3 DEF Numbered
<1>6. Numbered({}, 0) /\ n - 0 = n
  BY <1>2, NumberedEmpty, SMTT(30)
<1>7. ListOf(NULL, Frees(lk), {}, NULL)
  BY ListEmpty
<1>8. SlabOK(s, c, pl, lk)
  BY <1>1, <1>2, <1>3, <1>5, <1>6, <1>7, SMTT(30) DEF SlabOK
<1> QED
  BY <1>8 DEF s

----------------------------------------------------------------------------
(* All slabs of all heaps: slabs sl, bins bn, registered chunks R, for      *)
(* places pl and links lk.                                                  *)

ViewOf(sl, bin)     == [slab |-> sl, bin |-> bin, gone |-> {}]
MineOf(sl, R, t, k) == {c \in R : sl[c].owning_tlh = t /\ sl[c].size_class = k}

HeapOK(sl, bn, R, pl, lk) ==
  /\ sl \in [Chunks -> SlabType] /\ bn \in [Threads -> [Classes -> BinType]]
  /\ R \in SUBSET Chunks
  /\ \A c \in R : SlabOK(sl[c], c, pl, lk)
  /\ \A b \in Blocks : b[1] \notin R => pl[b] = <<"raw", NULL>>
  /\ \A t \in Threads, k \in Classes : BinOK(ViewOf(sl, bn[t]), k, MineOf(sl, R, t, k))

\* Blocks at rest are in nobody's hands.
Tidy(pl) ==
  \A b \in Blocks : /\ pl[b][1] = "raw"  => pl[b] = <<"raw", NULL>>
                    /\ pl[b][1] = "free" => pl[b] = <<"free", NULL>>

\* The slabs of R keep their owner and their class.
Keeps(sl, sm, R) ==
  \A d \in R : sm[d].owning_tlh = sl[d].owning_tlh /\ sm[d].size_class = sl[d].size_class

\* Only slabs of O change, and those belong to heap t, class k.
OnlyIn(sl, sm, R, Q, t, k, O) ==
  /\ \A d \in Chunks \ O : sm[d] = sl[d] /\ (d \in Q <=> d \in R)
  /\ \A d \in O : /\ d \in R => sl[d].owning_tlh = t /\ sl[d].size_class = k
                  /\ d \in Q => sm[d].owning_tlh = t /\ sm[d].size_class = k

\* Thread t's view of a sound heap is a sound view, bin by bin.
LEMMA HeapView ==
  ASSUME NEW sl, NEW bn, NEW R, NEW pl, NEW lk, HeapOK(sl, bn, R, pl, lk),
         NEW t \in Threads, NEW k \in Classes
  PROVE  /\ ViewOf(sl, bn[t]) \in ViewType
         /\ MineOf(sl, R, t, k) \in SUBSET Chunks /\ MineOf(sl, R, t, k) \subseteq R
         /\ BinOK(ViewOf(sl, bn[t]), k, MineOf(sl, R, t, k))
         /\ bn[t][k] \in BinType
BY DEF HeapOK, ViewOf, ViewType, MineOf

\* Every bin but that of class k of heap t is as it was.
BinsElse(bn, bm, t, k) ==
  \A u \in Threads, j \in Classes : (u # t \/ j # k) => bm[u][j] = bn[u][j]

\* The other bins do not notice.
LEMMA OtherBins ==
  ASSUME NEW sl, NEW bn, NEW R, NEW pl, NEW lk, HeapOK(sl, bn, R, pl, lk),
         NEW t \in Threads, NEW k \in Classes, NEW sm, NEW bm, NEW Q \in SUBSET Chunks, NEW O,
         OnlyIn(sl, sm, R, Q, t, k, O), BinsElse(bn, bm, t, k)
  PROVE  \A u \in Threads, j \in Classes :
            (u # t \/ j # k) => BinOK(ViewOf(sm, bm[u]), j, MineOf(sm, Q, u, j))
<1> SUFFICES ASSUME NEW u \in Threads, NEW j \in Classes, u # t \/ j # k
             PROVE  BinOK(ViewOf(sm, bm[u]), j, MineOf(sm, Q, u, j))
  OBVIOUS
<1>0. bm[u][j] = bn[u][j]
  BY DEF BinsElse
<1> DEFINE v == ViewOf(sl, bn[u])
           w == ViewOf(sm, bm[u])
           M == MineOf(sl, R, u, j)
<1>1. M \in SUBSET Chunks /\ BinOK(v, j, M)
  BY HeapView
<1>2. \A d \in M : sm[d] = sl[d] /\ d \notin O
  BY <1>1 DEF OnlyIn, MineOf
<1>3. MineOf(sm, Q, u, j) = M
  BY <1>1, <1>2 DEF OnlyIn, MineOf
<1>4. w.bin[j] = v.bin[j] /\ \A d \in M : w.slab[d] = v.slab[d]
  BY <1>0, <1>2 DEF ViewOf
<1> HIDE DEF v, w, M
<1>5. BinOK(w, j, M)
  BY <1>1, <1>4, BinFrame
<1> QED
  BY <1>3, <1>5 DEF w

\* The slabs of Q are sound, what lies outside them is raw, and view v of
\* heap t has the lists of class k right.
Fits(sm, v, k, t, Q, pm, lm) ==
  /\ \A c \in Q : SlabOK(sm[c], c, pm, lm)
  /\ \A b \in Blocks : b[1] \notin Q => pm[b] = <<"raw", NULL>>
  /\ BinOK(v, k, MineOf(sm, Q, t, k))

\* The invariant holds again when the slabs and the bin that changed have it.
LEMMA HeapIf ==
  ASSUME NEW sl, NEW bn, NEW R, NEW pl, NEW lk, HeapOK(sl, bn, R, pl, lk),
         NEW t \in Threads, NEW k \in Classes, NEW Q \in SUBSET Chunks, NEW O,
         NEW sm \in [Chunks -> SlabType], NEW bm \in [Threads -> [Classes -> BinType]],
         OnlyIn(sl, sm, R, Q, t, k, O),
         BinsElse(bn, bm, t, k),
         NEW pm, NEW lm, Fits(sm, ViewOf(sm, bm[t]), k, t, Q, pm, lm)
  PROVE  HeapOK(sm, bm, Q, pm, lm)
<1>1. ASSUME NEW u \in Threads, NEW j \in Classes
      PROVE  BinOK(ViewOf(sm, bm[u]), j, MineOf(sm, Q, u, j))
  <2>1. CASE u = t /\ j = k
    BY <2>1 DEF Fits
  <2>2. CASE u # t \/ j # k
    BY <2>2, OtherBins, SMTT(30)
  <2> QED
    BY <2>1, <2>2
<1> QED
  BY <1>1 DEF HeapOK, Fits

\* Blocks travel: nothing of a slab changes.
LEMMA HeapStill ==
  ASSUME NEW sl, NEW bn, NEW R, NEW pl, NEW lk, HeapOK(sl, bn, R, pl, lk), NEW pm, NEW lm,
         \A b \in Blocks : (pm[b] = pl[b] /\ lm[b] = lk[b]) \/ ~(Rests(pm, b) \/ Rests(pl, b))
  PROVE  HeapOK(sl, bn, R, pm, lm)
<1>1. ASSUME NEW c \in R
      PROVE  SlabOK(sl[c], c, pm, lm)
  <2>1. SlabOK(sl[c], c, pl, lk) /\ sl[c] \in SlabType
    BY DEF HeapOK
  <2>2. Calm(c, pl, pm, lk, lm) /\ Matches(sl[c], sl[c])
    BY DEF BlocksOf, Calm, Matches
  <2> QED
    BY <2>1, <2>2, SlabFrame
<1>2. \A b \in Blocks : b[1] \notin R => pm[b] = <<"raw", NULL>>
  BY SMTT(30) DEF HeapOK, Rests
<1> QED
  BY <1>1, <1>2 DEF HeapOK

\* Block b of slab c is given out, and slab c is sound after it.
GivenFrom(sl, sm, c, pl, pm, lk, lm, b) ==
  /\ sm \in [Chunks -> SlabType] /\ \A d \in Chunks \ {c} : sm[d] = sl[d]
  /\ b \in BlocksOf(c) /\ \A x \in Blocks \ {b} : pm[x] = pl[x] /\ lm[x] = lk[x]
  /\ Given(sl[c], sm[c], c, pl, pm, lk, lm, b) /\ SlabOK(sm[c], c, pm, lm)

\* A block of the current slab is given out.
LEMMA HeapGive ==
  ASSUME NEW sl, NEW bn, NEW R, NEW pl, NEW lk, HeapOK(sl, bn, R, pl, lk),
         NEW t \in Threads, NEW k \in Classes, NEW c, c = bn[t][k].current_slab, c # NULL,
         NEW sm, NEW b, NEW pm, NEW lm, GivenFrom(sl, sm, c, pl, pm, lk, lm, b)
  PROVE  HeapOK(sm, bn, R, pm, lm)
<1>0. /\ sm \in [Chunks -> SlabType] /\ \A d \in Chunks \ {c} : sm[d] = sl[d]
      /\ b \in BlocksOf(c) /\ \A x \in Blocks \ {b} : pm[x] = pl[x] /\ lm[x] = lk[x]
      /\ Given(sl[c], sm[c], c, pl, pm, lk, lm, b) /\ SlabOK(sm[c], c, pm, lm)
  BY DEF GivenFrom
<1> DEFINE M == MineOf(sl, R, t, k)
           v == ViewOf(sl, bn[t])
           w == ViewOf(sm, bn[t])
<1>1. M \in SUBSET Chunks /\ M \subseteq R /\ BinOK(v, k, M)
  BY HeapView
<1>2. c \in M /\ c \in R /\ c \in Chunks
  BY <1>1 DEF BinOK, ViewOf
<1>3. OnlyIn(sl, sm, R, R, t, k, {c})
  BY <1>0, <1>2 DEF OnlyIn, MineOf, Given
<1>4. MineOf(sm, R, t, k) = M
  <2>1. R \in SUBSET Chunks
    BY DEF HeapOK
  <2> QED
    BY <1>2, <1>3, <2>1 DEF OnlyIn, MineOf
<1>5. ASSUME NEW d \in R
      PROVE  SlabOK(sm[d], d, pm, lm)
  <2>1. CASE d = c
    BY <1>0, <2>1
  <2>2. CASE d # c
    <3>1. SlabOK(sl[d], d, pl, lk) /\ sl[d] \in SlabType /\ sm[d] = sl[d]
      BY <1>0, <2>2 DEF HeapOK
    <3>2. Calm(d, pl, pm, lk, lm) /\ Matches(sl[d], sl[d])
      BY <1>0, <2>2 DEF BlocksOf, Calm, Matches
    <3> QED
      BY <3>1, <3>2, SlabFrame
  <2> QED
    BY <2>1, <2>2
<1>6. \A x \in Blocks : x[1] \notin R => pm[x] = <<"raw", NULL>>
  BY <1>0, <1>2 DEF HeapOK, BlocksOf
<1>7. w.bin[k] = v.bin[k] /\ \A d \in M \ {v.bin[k].current_slab} : w.slab[d] = v.slab[d]
  BY <1>0, <1>1 DEF ViewOf
<1>8. R \in SUBSET Chunks /\ bn \in [Threads -> [Classes -> BinType]]
  BY DEF HeapOK
<1> HIDE DEF v, w, M
<1>9. BinOK(w, k, MineOf(sm, R, t, k))
  BY <1>1, <1>4, <1>7, BinFrame
<1>10. Fits(sm, w, k, t, R, pm, lm)
  BY <1>5, <1>6, <1>9 DEF Fits
<1>11. Fits(sm, ViewOf(sm, bn[t]), k, t, R, pm, lm) /\ BinsElse(bn, bn, t, k)
  BY <1>10 DEF w, BinsElse
<1> QED
  BY <1>0, <1>3, <1>8, <1>11, HeapIf

\* Slab c, if any, has no block to give.
HasNothing(sl, c) ==
  c # NULL => sl[c].free_list_head = NULL /\ sl[c].bump_ptr \notin 1..max_objects(sl[c])

\* The slabs once the bump pointer of c, if any, is cleared.
Cleared(sl, c) == IF c = NULL THEN sl ELSE [sl EXCEPT ![c].bump_ptr = 0]

\* The cursor of an exhausted current slab becomes NULL.
LEMMA HeapSpend ==
  ASSUME NEW sl, NEW bn, NEW R, NEW pl, NEW lk, HeapOK(sl, bn, R, pl, lk),
         Tidy(pl),
         NEW t \in Threads, NEW k \in Classes, NEW c, c = bn[t][k].current_slab,
         HasNothing(sl, c), NEW sm, sm = Cleared(sl, c)
  PROVE  /\ HeapOK(sm, bn, R, pl, lk) /\ Spent(ViewOf(sm, bn[t]), k)
         /\ Keeps(sl, sm, R)
<1>1. CASE c = NULL
  BY <1>1 DEF Spent, ViewOf, Keeps, Cleared
<1>2. CASE c # NULL
  <2>0. /\ sl[c].free_list_head = NULL /\ sl[c].bump_ptr \notin 1..max_objects(sl[c])
        /\ sm = [sl EXCEPT ![c].bump_ptr = 0]
    BY <1>2 DEF HasNothing, Cleared
  <2> DEFINE M == MineOf(sl, R, t, k)
             v == ViewOf(sl, bn[t])
             w == ViewOf(sm, bn[t])
             s == sl[c]
             r == sm[c]
  <2>1. M \in SUBSET Chunks /\ M \subseteq R /\ BinOK(v, k, M)
    BY HeapView
  <2>2. c \in M /\ c \in R /\ c \in Chunks
    BY <1>2, <2>1 DEF BinOK, ViewOf
  <2>3. SlabOK(s, c, pl, lk) /\ s \in SlabType /\ sl \in [Chunks -> SlabType]
    BY <2>2 DEF HeapOK
  <2>4. /\ sm \in [Chunks -> SlabType] /\ \A d \in Chunks \ {c} : sm[d] = sl[d]
        /\ r.owning_tlh = s.owning_tlh /\ r.checksum = s.checksum /\ r.size_class = s.size_class
        /\ r.free_list_head = s.free_list_head /\ r.used_objects = s.used_objects
        /\ r.bump_ptr = 0
    <3>1. sm = [sl EXCEPT ![c] = [sl[c] EXCEPT !.bump_ptr = 0]]
      BY <2>0
    <3>2. r = [s EXCEPT !.bump_ptr = 0] /\ \A d \in Chunks \ {c} : sm[d] = sl[d]
      BY <2>2, <2>3, <3>1
    <3>3. r \in SlabType
      BY <2>3, <3>2, Rebumped
    <3>4. sm \in [Chunks -> SlabType]
      BY <2>3, <3>1, <3>2, <3>3
    <3> QED
      BY <2>3, <3>2, <3>4 DEF SlabType
  <2>5. s.used_objects = max_objects(s) /\ (s.bump_ptr = 0 \/ s.bump_ptr > max_objects(s))
    <3>1. Orderly(c, pl)
      BY DEF BlocksOf, Tidy, Orderly
    <3>2. s.free_list_head = NULL /\ s.bump_ptr \notin 1..max_objects(s)
      BY <2>0
    <3> HIDE DEF s
    <3> QED
      BY <2>3, <3>1, <3>2, SpentIsFull, SMTT(30)
  <2>6. OnlyIn(sl, sm, R, R, t, k, {c})
    BY <2>2, <2>4 DEF OnlyIn, MineOf
  <2>7. MineOf(sm, R, t, k) = M
    BY <2>2, <2>6 DEF OnlyIn, MineOf, HeapOK
  <2>8. ASSUME NEW d \in R
        PROVE  SlabOK(sm[d], d, pl, lk)
    <3>1. CASE d = c
      <4>1. r \in SlabType /\ (r.bump_ptr = s.bump_ptr \/ (r.bump_ptr = 0 /\ s.bump_ptr > max_objects(s)))
        BY <2>2, <2>4, <2>5
      <4> HIDE DEF s, r
      <4>2. Matches(s, r) /\ Calm(c, pl, pl, lk, lk)
        BY <2>4, <4>1 DEF Matches, Calm
      <4>3. SlabOK(r, c, pl, lk)
        BY <2>3, <4>1, <4>2, SlabFrame
      <4> QED
        BY <3>1, <4>3 DEF r
    <3>2. CASE d # c
      BY <2>4, <3>2 DEF HeapOK
    <3> QED
      BY <3>1, <3>2
  <2>9. w.bin[k] = v.bin[k] /\ \A d \in M \ {v.bin[k].current_slab} : w.slab[d] = v.slab[d]
    BY <2>1, <2>4 DEF ViewOf
  <2>10. /\ R \in SUBSET Chunks /\ bn \in [Threads -> [Classes -> BinType]]
         /\ \A x \in Blocks : x[1] \notin R => pl[x] = <<"raw", NULL>>
    BY DEF HeapOK
  <2>11. Spent(w, k)
    BY <2>2, <2>4, <2>5 DEF Spent, ViewOf, max_objects, MineOf
  <2>12. Keeps(sl, sm, R)
    BY <2>4, <2>10 DEF Keeps
  <2> HIDE DEF v, w, M, s, r
  <2>13. BinOK(w, k, MineOf(sm, R, t, k))
    BY <2>1, <2>7, <2>9, BinFrame
  <2>14. HeapOK(sm, bn, R, pl, lk)
    <3>1. Fits(sm, w, k, t, R, pl, lk)
      BY <2>8, <2>10, <2>13 DEF Fits
    <3>2. Fits(sm, ViewOf(sm, bn[t]), k, t, R, pl, lk) /\ BinsElse(bn, bn, t, k)
      BY <3>1 DEF w, BinsElse
    <3> QED
      BY <2>4, <2>6, <2>10, <3>2, HeapIf
  <2> QED
    BY <2>11, <2>12, <2>14 DEF w
<1> QED
  BY <1>1, <1>2

\* The same when the change is that of a view of heap t.
LEMMA HeapIfView ==
  ASSUME NEW sl, NEW bn, NEW R, NEW pl, NEW lk, HeapOK(sl, bn, R, pl, lk),
         NEW t \in Threads, NEW k \in Classes, NEW Q \in SUBSET Chunks, NEW O,
         NEW w \in ViewType, OnlyIn(sl, w.slab, R, Q, t, k, O),
         \A j \in Classes \ {k} : w.bin[j] = bn[t][j],
         NEW pm, NEW lm, Fits(w.slab, w, k, t, Q, pm, lm)
  PROVE  HeapOK(w.slab, [bn EXCEPT ![t] = w.bin], Q, pm, lm)
<1> DEFINE bm == [bn EXCEPT ![t] = w.bin]
           M == MineOf(w.slab, Q, t, k)
           x == ViewOf(w.slab, bm[t])
<1>1. /\ bn \in [Threads -> [Classes -> BinType]]
      /\ w.slab \in [Chunks -> SlabType] /\ w.bin \in [Classes -> BinType]
  BY DEF HeapOK, ViewType
<1>2. bm \in [Threads -> [Classes -> BinType]] /\ bm[t] = w.bin
  BY <1>1
<1>3. BinsElse(bn, bm, t, k)
  BY <1>1 DEF BinsElse
<1>4. M \in SUBSET Chunks /\ x.bin[k] = w.bin[k] /\ \A d \in M : x.slab[d] = w.slab[d]
  BY <1>2 DEF MineOf, ViewOf
<1> HIDE DEF bm, M, x
<1>5. BinOK(w, k, M)
  BY DEF M, Fits
<1>6. BinOK(x, k, M)
  BY <1>4, <1>5, BinFrame
<1>7. BinOK(ViewOf(w.slab, bm[t]), k, MineOf(w.slab, Q, t, k))
  BY <1>6 DEF x, M
<1>8. HeapOK(w.slab, bm, Q, pm, lm)
  <2>1. PICK sm : sm = w.slab
    BY SMTT(30)
  <2>2. Fits(w.slab, ViewOf(w.slab, bm[t]), k, t, Q, pm, lm)
    BY <1>7 DEF Fits
  <2>3. Fits(sm, ViewOf(sm, bm[t]), k, t, Q, pm, lm)
    BY <2>1, <2>2
  <2>4. sm \in [Chunks -> SlabType] /\ OnlyIn(sl, sm, R, Q, t, k, O)
    BY <1>1, <2>1
  <2>5. HeapOK(sm, bm, Q, pm, lm)
    BY <1>2, <1>3, <2>3, <2>4, HeapIf
  <2> QED
    BY <2>1, <2>5
<1> QED
  BY <1>8 DEF bm

\* Slab c is current in class k of heap t, whose view is w now.
Serves(sl, bn, R, w, t, k, c, Q, pl, lk) ==
  /\ w \in ViewType /\ w.bin[k].current_slab = c /\ c # NULL
  /\ HeapOK(w.slab, [bn EXCEPT ![t] = w.bin], Q, pl, lk) /\ Keeps(sl, w.slab, R)

\* The first partial slab takes the place of the exhausted one.
Promoted(v, k) == PromotePartial(PushFront(v, k, "full_list", v.bin[k].current_slab), k)

\* The slow path of lz_tlh_alloc with a partial slab: the heap stays sound, and
\* the slab that becomes current has a free block.
LEMMA HeapPromote ==
  ASSUME NEW sl, NEW bn, NEW R, NEW pl, NEW lk, HeapOK(sl, bn, R, pl, lk),
         Tidy(pl),
         NEW t \in Threads, NEW k \in Classes, NEW v, v = ViewOf(sl, bn[t]), Spent(v, k),
         NEW c, c = bn[t][k].partial_list, c # NULL,
         NEW w, w = Promoted(v, k)
  PROVE  Serves(sl, bn, R, w, t, k, c, R, pl, lk) /\ w.slab[c].free_list_head # NULL
<1> DEFINE M == MineOf(sl, R, t, k)
<1>1. /\ v \in ViewType /\ M \in SUBSET Chunks /\ M \subseteq R /\ BinOK(v, k, M)
      /\ v.slab = sl /\ v.bin = bn[t]
  BY HeapView DEF ViewOf
<1>2. \A d \in M : sl[d].owning_tlh = t /\ sl[d].size_class = k
  BY DEF MineOf
<1> HIDE DEF M
<1>3. c = v.bin[k].partial_list
      /\ w = PromotePartial(PushFront(v, k, "full_list", v.bin[k].current_slab), k)
  BY <1>1 DEF Promoted
<1>4. /\ c \in PartialOf(v, k, M)
      /\ Relinks(v, w, k, M) /\ w.bin[k].current_slab = c
      /\ BinOK(w, k, M)
  BY <1>1, <1>3, PartialTaken
<1>5. /\ R \in SUBSET Chunks /\ sl \in [Chunks -> SlabType]
      /\ \A x \in Blocks : x[1] \notin R => pl[x] = <<"raw", NULL>>
  BY DEF HeapOK
<1>6. /\ w \in ViewType /\ \A d \in Chunks : SameData(w.slab[d], sl[d])
      /\ \A d \in Chunks \ M : w.slab[d] = sl[d]
      /\ \A j \in Classes \ {k} : w.bin[j] = bn[t][j]
  BY <1>1, <1>4 DEF Relinks
<1>7. Keeps(sl, w.slab, R)
  BY <1>5, <1>6 DEF Keeps, SameData
<1>8. OnlyIn(sl, w.slab, R, R, t, k, M)
  BY <1>1, <1>2, <1>6, <1>7 DEF OnlyIn, Keeps
<1>9. MineOf(w.slab, R, t, k) = M
  BY <1>7 DEF Keeps, MineOf, M
<1>10. ASSUME NEW d \in R
       PROVE  SlabOK(w.slab[d], d, pl, lk)
  <2>1. SlabOK(sl[d], d, pl, lk) /\ w.slab[d] \in SlabType /\ SameData(w.slab[d], sl[d])
    BY <1>5, <1>6 DEF HeapOK, ViewType
  <2>2. Matches(sl[d], w.slab[d]) /\ Calm(d, pl, pl, lk, lk)
    BY <2>1 DEF Matches, Calm, SameData
  <2> QED
    BY <2>1, <2>2, SlabFrame
<1>11. HeapOK(w.slab, [bn EXCEPT ![t] = w.bin], R, pl, lk)
  <2>1. BinOK(w, k, MineOf(w.slab, R, t, k))
    BY <1>4, <1>9
  <2>2. Fits(w.slab, w, k, t, R, pl, lk)
    BY <1>5, <1>10, <2>1 DEF Fits
  <2> QED
    BY <1>5, <1>6, <1>8, <2>2, HeapIfView
<1>12. /\ c \in R /\ c \in Chunks /\ c \in M
       /\ sl[c].bump_ptr = 0 /\ sl[c].used_objects # MaxObjects[k]
  BY <1>1, <1>4 DEF PartialOf, BinOK
<1>13. sl[c].free_list_head # NULL
  <2>1. SlabOK(sl[c], c, pl, lk) /\ max_objects(sl[c]) = MaxObjects[k]
    BY <1>2, <1>12 DEF HeapOK, max_objects
  <2>2. sl[c].bump_ptr \notin 1..max_objects(sl[c])
    BY <1>12, SMTT(30)
  <2>3. Orderly(c, pl)
    BY DEF BlocksOf, Tidy, Orderly
  <2>4. sl[c].used_objects # max_objects(sl[c])
    BY <1>12, <2>1
  <2>5. PICK s : s = sl[c]
    OBVIOUS
  <2>6. /\ SlabOK(s, c, pl, lk) /\ s.used_objects # max_objects(s)
        /\ s.bump_ptr \notin 1..max_objects(s)
    BY <2>1, <2>2, <2>4, <2>5
  <2>7. s.free_list_head # NULL
    BY <2>3, <2>6, SpentIsFull, SMTT(30)
  <2> QED
    BY <2>5, <2>7
<1> QED
  BY <1>4, <1>6, <1>7, <1>11, <1>12, <1>13 DEF SameData, Serves

\* A new slab takes the place of the exhausted one.
Renewed(v, t, k, c) ==
  SetList(PushFront(lz_slab_create(v, t, k, c), k, "full_list", v.bin[k].current_slab),
          k, "current_slab", c)

\* The slow path of lz_tlh_alloc with a new slab in a chunk that held none: the
\* heap stays sound, and the new slab is current.
LEMMA HeapAdd ==
  ASSUME NEW sl, NEW bn, NEW R, NEW pl, NEW lk, HeapOK(sl, bn, R, pl, lk),
         NEW t \in Threads, NEW k \in Classes, NEW v, v = ViewOf(sl, bn[t]), Spent(v, k),
         NEW c \in Chunks \ R,
         NEW w, w = Renewed(v, t, k, c)
  PROVE  Serves(sl, bn, R, w, t, k, c, R \cup {c}, pl, lk) /\ w.slab[c] = NewSlab(t, k)
<1> DEFINE M == MineOf(sl, R, t, k)
<1>1. /\ v \in ViewType /\ M \in SUBSET Chunks /\ M \subseteq R /\ BinOK(v, k, M)
      /\ v.slab = sl /\ v.bin = bn[t]
  BY HeapView DEF ViewOf
<1>2. \A d \in M : sl[d].owning_tlh = t /\ sl[d].size_class = k
  BY DEF MineOf
<1> HIDE DEF M
<1>3. w = SetList(PushFront(lz_slab_create(v, t, k, c), k, "full_list",
                            v.bin[k].current_slab), k, "current_slab", c)
  BY DEF Renewed
<1>4. c \in Chunks \ M
  BY <1>1
<1>5. Added(v, w, k, M, c, NewSlab(t, k))
  BY <1>1, <1>3, <1>4, SlabAdded
<1>6. /\ R \in SUBSET Chunks /\ sl \in [Chunks -> SlabType]
      /\ \A x \in Blocks : x[1] \notin R => pl[x] = <<"raw", NULL>>
  BY DEF HeapOK
<1>7. /\ w \in ViewType /\ \A d \in Chunks \ {c} : SameData(w.slab[d], sl[d])
      /\ \A d \in Chunks \ (M \cup {c}) : w.slab[d] = sl[d]
      /\ \A j \in Classes \ {k} : w.bin[j] = bn[t][j]
      /\ w.bin[k].current_slab = c /\ w.slab[c] = NewSlab(t, k)
      /\ BinOK(w, k, M \cup {c})
  BY <1>1, <1>5 DEF Added
<1>8. Keeps(sl, w.slab, R)
  BY <1>6, <1>7 DEF Keeps, SameData
<1>9. w.slab[c].owning_tlh = t /\ w.slab[c].size_class = k
  BY <1>7, SMTT(30) DEF NewSlab
<1>10. OnlyIn(sl, w.slab, R, R \cup {c}, t, k, M \cup {c})
  BY <1>1, <1>2, <1>7, <1>8, <1>9 DEF OnlyIn, Keeps
<1>11. MineOf(w.slab, R \cup {c}, t, k) = M \cup {c}
  BY <1>8, <1>9 DEF Keeps, MineOf, M
<1>12. ASSUME NEW d \in R \cup {c}
       PROVE  SlabOK(w.slab[d], d, pl, lk)
  <2>1. CASE d = c
    <3>1. \A b \in BlocksOf(c) : pl[b] = <<"raw", NULL>>
      BY <1>6 DEF BlocksOf
    <3> QED
      BY <1>7, <2>1, <3>1, NewSlabOK
  <2>2. CASE d # c
    <3>1. SlabOK(sl[d], d, pl, lk) /\ w.slab[d] \in SlabType /\ SameData(w.slab[d], sl[d])
      BY <1>6, <1>7, <2>2 DEF HeapOK, ViewType
    <3>2. Matches(sl[d], w.slab[d]) /\ Calm(d, pl, pl, lk, lk)
      BY <3>1 DEF Matches, Calm, SameData
    <3> QED
      BY <3>1, <3>2, SlabFrame
  <2> QED
    BY <2>1, <2>2
<1>13. /\ R \cup {c} \in SUBSET Chunks
       /\ \A x \in Blocks : x[1] \notin R \cup {c} => pl[x] = <<"raw", NULL>>
  BY <1>6
<1>14. HeapOK(w.slab, [bn EXCEPT ![t] = w.bin], R \cup {c}, pl, lk)
  <2>1. PICK Q : Q = R \cup {c}
    OBVIOUS
  <2>2. Q \in SUBSET Chunks /\ OnlyIn(sl, w.slab, R, Q, t, k, M \cup {c})
    BY <1>10, <1>13, <2>1
  <2>3. BinOK(w, k, MineOf(w.slab, Q, t, k))
    BY <1>7, <1>11, <2>1
  <2>4. Fits(w.slab, w, k, t, Q, pl, lk)
    BY <1>12, <1>13, <2>1, <2>3 DEF Fits
  <2>5. HeapOK(w.slab, [bn EXCEPT ![t] = w.bin], Q, pl, lk)
    BY <1>7, <2>2, <2>4, HeapIfView
  <2> QED
    BY <2>1, <2>5
<1>15. c # NULL
  BY SlabsAssumption
<1> QED
  BY <1>7, <1>8, <1>14, <1>15 DEF Serves

\* The places and links after block b has come back, before the block old, and
\* the slabs of G have been destroyed.
BackIn(pl, pm, lk, lm, b, old, G) ==
  \A x \in Blocks :
    /\ pm[x] = IF x # b /\ pl[x] # <<"free", NULL>> THEN pl[x]
               ELSE IF x[1] \in G THEN <<"raw", NULL>>
               ELSE IF x = b THEN <<"free", NULL>> ELSE pl[x]
    /\ lm[x] = IF x = b THEN Obfuscate(old) ELSE lk[x]

\* A block comes back to its slab.
LEMMA HeapReturn ==
  ASSUME NEW sl, NEW bn, NEW R, NEW pl, NEW lk, HeapOK(sl, bn, R, pl, lk), Tidy(pl),
         NEW t \in Threads, NEW b \in Blocks, ~Rests(pl, b), sl[b[1]].owning_tlh = t,
         NEW w, w = FreeToSlab(ViewOf(sl, bn[t]), b), NEW pm, NEW lm,
         BackIn(pl, pm, lk, lm, b, sl[b[1]].free_list_head, w.gone)
  PROVE  /\ w \in ViewType /\ Keeps(sl, w.slab, R)
         /\ HeapOK(w.slab, [bn EXCEPT ![t] = w.bin], R \ w.gone, pm, lm)
<1>0. PICK c : c = b[1]
  BY SMTT(30)
<1> DEFINE k == sl[c].size_class
           M == MineOf(sl, R, t, k)
           v == ViewOf(sl, bn[t])
<1>1. /\ R \in SUBSET Chunks /\ sl \in [Chunks -> SlabType]
      /\ \A x \in Blocks : x[1] \notin R => pl[x] = <<"raw", NULL>>
  BY DEF HeapOK
<1>2. c \in R /\ c \in Chunks /\ b \in BlocksOf(c)
  BY <1>0, <1>1, SMTT(30) DEF Rests, BlocksOf
<1>3. SlabOK(sl[c], c, pl, lk) /\ k \in Classes /\ sl[c].checksum = sl[c].owning_tlh
  <2>1. SlabOK(sl[c], c, pl, lk)
    BY <1>2 DEF HeapOK
  <2> QED
    BY <2>1 DEF SlabOK
<1>4. /\ v \in ViewType /\ M \in SUBSET Chunks /\ M \subseteq R /\ BinOK(v, k, M)
      /\ v.slab = sl /\ v.bin = bn[t] /\ v.gone = {}
  BY <1>3, HeapView, SMTT(30) DEF ViewOf
<1>5. c \in M /\ \A d \in M : sl[d].owning_tlh = t /\ sl[d].size_class = k
  BY <1>0, <1>2 DEF MineOf
<1>6. /\ sl[c].used_objects \in 1..max_objects(sl[c])
      /\ sl[c].used_objects = 1 => \A x \in BlocksOf(c) \ {b} : Rests(pl, x)
  BY <1>2, <1>3, OutIsCounted
<1>7. sl[c].used_objects \in 1..MaxObjects[k]
  BY <1>6 DEF max_objects
<1>8. w = FreeToSlab(v, b)
  BY SMTT(30)
<1> HIDE DEF v, M, k
<1>9. Returned(v, w, k, M, b)
  <2>1. sl[c].size_class = k
    BY DEF k
  <2> QED
    BY <1>0, <1>3, <1>4, <1>5, <1>7, <1>8, <2>1, FreeToSlabIs
<1>10. /\ w \in ViewType /\ (w.gone = {} \/ (w.gone = {c} /\ sl[c].used_objects = 1))
       /\ TakenBack(w.slab[c], sl[c], b)
       /\ \A d \in Chunks \ {c} : SameData(w.slab[d], sl[d])
       /\ \A d \in Chunks \ M : w.slab[d] = sl[d]
       /\ \A j \in Classes \ {k} : w.bin[j] = bn[t][j]
       /\ BinOK(w, k, M \ w.gone)
  <2>1. /\ w \in ViewType /\ (w.gone = {} \/ (w.gone = {c} /\ v.slab[c].used_objects = 1))
        /\ TakenBack(w.slab[c], v.slab[c], b)
        /\ \A d \in Chunks \ {c} : SameData(w.slab[d], v.slab[d])
        /\ \A d \in Chunks \ M : w.slab[d] = v.slab[d]
        /\ \A j \in Classes \ {k} : w.bin[j] = v.bin[j]
        /\ BinOK(w, k, M \ w.gone)
    BY <1>0, <1>9 DEF Returned
  <2> QED
    BY <1>4, <2>1
<1>11. Keeps(sl, w.slab, R)
  BY <1>1, <1>2, <1>10 DEF Keeps, SameData, TakenBack
<1>12. PICK Q : Q = R \ w.gone
  OBVIOUS
<1>13. Q \in SUBSET Chunks /\ OnlyIn(sl, w.slab, R, Q, t, k, M)
  <2>1. Q \subseteq R /\ \A d \in Chunks \ M : d \in Q <=> d \in R
    BY <1>5, <1>10, <1>12
  <2>2. \A d \in M : w.slab[d].owning_tlh = t /\ w.slab[d].size_class = k
    BY <1>4, <1>5, <1>11 DEF Keeps
  <2>3. \A d \in Chunks \ M : w.slab[d] = sl[d]
    BY <1>10
  <2>4. Q \in SUBSET Chunks
    BY <1>1, <2>1
  <2> QED
    BY <1>5, <2>1, <2>2, <2>3, <2>4 DEF OnlyIn
<1>14. MineOf(w.slab, Q, t, k) = M \ w.gone
  BY <1>11, <1>12 DEF Keeps, MineOf, M
<1>15. ASSUME NEW d \in Q
       PROVE  SlabOK(w.slab[d], d, pm, lm)
  <2>1. w.slab[d] \in SlabType
    BY <1>10, <1>13 DEF ViewType
  <2>2. \A x \in BlocksOf(d) \ {b} : pm[x] = pl[x] /\ lm[x] = lk[x]
    BY <1>0, <1>12 DEF BackIn, BlocksOf
  <2>3. CASE d = c
    <3>1. pm[b] = <<"free", NULL>> /\ lm[b] = Obfuscate(sl[c].free_list_head)
      BY <1>0, <1>12, <2>3 DEF BackIn
    <3>2. pl[b][1] \notin {"raw", "free"}
      BY DEF Rests
    <3>3. w.slab[c] \in SlabType /\ \A x \in BlocksOf(c) \ {b} : pm[x] = pl[x] /\ lm[x] = lk[x]
      BY <2>1, <2>2, <2>3
    <3>4. TakenBack(w.slab[c], sl[c], b)
      BY <1>10
    <3>5. PICK r, s : r = w.slab[c] /\ s = sl[c]
      BY SMTT(30)
    <3>6. r \in SlabType /\ SlabOK(s, c, pl, lk) /\ TakenBack(r, s, b)
      BY <1>3, <3>3, <3>4, <3>5
    <3>7. PutBack(s, c, pl, pm, lk, lm, b)
      BY <3>1, <3>2, <3>3, <3>5 DEF PutBack
    <3>8. SlabOK(r, c, pm, lm)
      BY <1>2, <3>6, <3>7, ReturnToSlab
    <3> QED
      BY <2>3, <3>5, <3>8
  <2>4. CASE d # c
    <3>1. SlabOK(sl[d], d, pl, lk) /\ SameData(w.slab[d], sl[d])
      BY <1>10, <1>12, <1>13, <2>4 DEF HeapOK
    <3>2. \A x \in BlocksOf(d) : pm[x] = pl[x] /\ lm[x] = lk[x]
      BY <1>0, <2>2, <2>4 DEF BlocksOf
    <3>3. Matches(sl[d], w.slab[d]) /\ Calm(d, pl, pm, lk, lm)
      BY <3>1, <3>2 DEF Matches, Calm, SameData
    <3> QED
      BY <2>1, <3>1, <3>3, SlabFrame
  <2> QED
    BY <2>3, <2>4
<1>16. ASSUME NEW x \in Blocks, x[1] \notin Q
       PROVE  pm[x] = <<"raw", NULL>>
  <2>1. CASE x[1] \in R
    <3>1. x[1] = c /\ c \in w.gone /\ sl[c].used_objects = 1
      BY <1>10, <1>12, <1>16, <2>1
    <3>2. x = b \/ Rests(pl, x)
      BY <1>6, <3>1 DEF BlocksOf
    <3> QED
      BY <3>1, <3>2 DEF BackIn, Rests, Tidy
  <2>2. CASE x[1] \notin R
    BY <1>0, <1>1, <1>2, <2>2 DEF BackIn
  <2> QED
    BY <2>1, <2>2
<1>17. HeapOK(w.slab, [bn EXCEPT ![t] = w.bin], Q, pm, lm)
  <2>1. BinOK(w, k, MineOf(w.slab, Q, t, k))
    BY <1>10, <1>14
  <2>2. Fits(w.slab, w, k, t, Q, pm, lm)
    BY <1>15, <1>16, <2>1 DEF Fits
  <2>3. w \in ViewType /\ \A j \in Classes \ {k} : w.bin[j] = bn[t][j]
    BY <1>10
  <2> QED
    BY <1>3, <1>13, <2>2, <2>3, HeapIfView
<1> QED
  BY <1>10, <1>11, <1>12, <1>17
============================================================================
