-------------------------------- MODULE Span --------------------------------
(***************************************************************************)
(* The span engine (engines/span.c) of one heap: medium objects are runs   *)
(* of pages, found first-fit in the bitmaps of the heap's active spans.    *)
(* Other threads give runs back through the heap's mailbox, which the      *)
(* owner empties one run at a time (lz_tlh_reap); every other call is one  *)
(* step of the owner.  The VMM is what ChunkPool promises: any chunk       *)
(* nobody holds, or NULL.                                                  *)
(***************************************************************************)
EXTENDS Integers, FiniteSets, FiniteSetsExt

CONSTANTS
  Chunks,
  LZ_SPAN_TOTAL_PAGES,
  WordBits,             \* pages per word of the bitmap (64)
  MaxRuns,              \* bound: runs that are out
  MaxMail,              \* bound: runs on their way through the mailbox
  Requests,             \* page counts asked for: LZ_ALIGN_UP(size) / LZ_PAGE_SIZE
  NULL

ASSUME SpanAssumption ==
  /\ LZ_SPAN_TOTAL_PAGES \in Nat \ {0, 1} /\ WordBits \in Nat \ {0}
  /\ Requests \subseteq Nat /\ MaxRuns \in Nat /\ MaxMail \in Nat
  /\ NULL \notin Chunks

VARIABLES
  span,           \* lz_span_t of each chunk; free_bitmap is the set of its 1 bits
  active_spans,   \* head of the heap's list
  rtree,          \* chunks taken from the VMM and registered
  live,           \* runs <<chunk, first page, pages>> in the program's hands
  mail,           \* runs in an outgoing batch or in the heap's mailbox
  reaping         \* runs of the mailbox the owner is giving back

vars == <<span, active_spans, rtree, live, mail, reaping>>

Pages == 0..(LZ_SPAN_TOTAL_PAGES - 1)

Init ==
  /\ span = [c \in Chunks |->
       [next |-> NULL, prev |-> NULL, free_bitmap |-> {}, used_pages |-> 0,
        alloc_size_pages |-> [p \in Pages |-> 0]]]
  /\ active_spans = NULL
  /\ rtree = {}
  /\ live = {} /\ mail = {} /\ reaping = {}

----------------------------------------------------------------------------
Run(p, n) == p..(p + n - 1)

\* The pages of page p's word.
Word(p) == {q \in Pages : q \div WordBits = p \div WordBits}

RunEnds(s) == [s EXCEPT !.consecutive = 0]

\* Mutation: skipping a word does not end the run being counted.
SkipKeepsRun(s) == s

\* A word without a free page is skipped, and ends the run being counted.
SkipWord(s) == RunEnds(s)

\* The scan of find_contiguous_pages over the words and their pages, stopping at
\* a match.  A run may go on from word to word; its length is compared after it
\* is incremented, so that zero pages never match.
find_contiguous_pages(free, required_pages) ==
  LET scan[p \in 0..LZ_SPAN_TOTAL_PAGES] ==
        IF p = 0 THEN [consecutive |-> 0, start_idx |-> -1, found |-> FALSE]
        ELSE LET s == scan[p - 1]
                 n == s.consecutive + 1
             IN  IF s.found THEN s
                 ELSE IF Word(p - 1) \cap free = {} THEN SkipWord(s)
                 ELSE IF p - 1 \notin free THEN RunEnds(s)
                 ELSE [consecutive |-> n,
                       start_idx |-> IF n = 1 THEN p - 1 ELSE s.start_idx,
                       found |-> n = required_pages]
      s == scan[LZ_SPAN_TOTAL_PAGES]
  IN  IF s.found THEN s.start_idx ELSE -1

\* The span may have room: its count is consulted before its bitmap.
Fits(c, n) ==
  /\ LZ_SPAN_TOTAL_PAGES - span[c].used_pages >= n
  /\ find_contiguous_pages(span[c].free_bitmap, n) # -1

\* The first active span, in list order, that can take n pages.
Search(n) ==
  LET from[c \in Chunks \cup {NULL}] ==
        IF c = NULL THEN NULL ELSE IF Fits(c, n) THEN c ELSE from[span[c].next]
  IN  from[active_spans]

\* Span s of chunk c after n pages have been taken from it.
Take(s, n) ==
  LET p == find_contiguous_pages(s.free_bitmap, n)
  IN  [s EXCEPT !.free_bitmap = @ \ Run(p, n), !.used_pages = @ + n,
                !.alloc_size_pages[p] = n]

HandOut(c, s, n) == live' = live \cup {<<c, find_contiguous_pages(s.free_bitmap, n), n>>}

\* Mutation: a request for every page of the chunk is let through.
RefusedOneLate(n) == n > LZ_SPAN_TOTAL_PAGES

Refused(n) == n >= LZ_SPAN_TOTAL_PAGES

AllocExisting(n) ==
  LET c == Search(n)
  IN  /\ ~Refused(n)
      /\ c # NULL
      /\ span' = [span EXCEPT ![c] = Take(@, n)]
      /\ HandOut(c, span[c], n)
      /\ UNCHANGED <<active_spans, rtree, mail, reaping>>

\* A pristine span: page 0 holds the headers.
Fresh == [next |-> active_spans, prev |-> NULL, free_bitmap |-> Pages \ {0},
          used_pages |-> 1, alloc_size_pages |-> [p \in Pages |-> 0]]

\* Chunk c, formatted as s, becomes the first active span.
PushSpan(c, s) ==
  /\ span' = [x \in Chunks |->
                IF x = c THEN s
                ELSE IF x = active_spans THEN [span[x] EXCEPT !.prev = c] ELSE span[x]]
  /\ active_spans' = c
  /\ rtree' = rtree \cup {c}

AllocNewSpan(n) ==
  /\ ~Refused(n)
  /\ Search(n) = NULL
  /\ find_contiguous_pages(Fresh.free_bitmap, n) # -1
  /\ \E c \in Chunks \ rtree : PushSpan(c, Take(Fresh, n)) /\ HandOut(c, Fresh, n)
  /\ UNCHANGED <<mail, reaping>>

\* The failsafe: the pristine span has no run either; NULL is returned and the
\* span stays.
AllocFatal(n) ==
  /\ ~Refused(n)
  /\ Search(n) = NULL
  /\ find_contiguous_pages(Fresh.free_bitmap, n) = -1
  /\ \E c \in Chunks \ rtree : PushSpan(c, Fresh)
  /\ UNCHANGED <<live, mail, reaping>>

\* NULL: the size is refused, or no span fits and the VMM has no chunk.
AllocNull(n) ==
  /\ Refused(n) \/ Search(n) = NULL
  /\ UNCHANGED vars

\* Mutation: only the first page of the run is marked free.
FirstPage(s, p) == {p}

FreedPages(s, p) == Run(p, s.alloc_size_pages[p])

\* The run at page p of span s is given back.
Give(s, p) ==
  [s EXCEPT !.free_bitmap = @ \cup FreedPages(s, p),
            !.used_pages = @ - s.alloc_size_pages[p], !.alloc_size_pages[p] = 0]

\* Mutation: the successor keeps its link to the span that leaves.
UnlinkNoPrev(spans, c) ==
  [x \in Chunks |-> IF x = spans[c].prev THEN [spans[x] EXCEPT !.next = spans[c].next]
                    ELSE spans[x]]

\* The list without c.
Unlink(spans, c) ==
  [x \in Chunks |-> IF x = spans[c].prev THEN [spans[x] EXCEPT !.next = spans[c].next]
                    ELSE IF x = spans[c].next THEN [spans[x] EXCEPT !.prev = spans[c].prev]
                    ELSE spans[x]]

\* Mutation: a span is taken to be empty at zero pages, header page included.
EmptyAtZero(s) == s.used_pages = 0

Empty(s) == s.used_pages = 1

\* lz_span_free_local; a span that is empty again goes back to the VMM.  A page
\* where no run starts is left alone ("Double-free protection").
Free(c, p) ==
  LET spans == [span EXCEPT ![c] = Give(@, p)]
  IN  IF p = 0 \/ span[c].alloc_size_pages[p] = 0
      THEN UNCHANGED <<span, active_spans, rtree>>
      ELSE IF Empty(spans[c])
      THEN /\ span' = Unlink(spans, c)
           /\ active_spans' = IF span[c].prev = NULL THEN span[c].next ELSE active_spans
           /\ rtree' = rtree \ {c}
      ELSE span' = spans /\ UNCHANGED <<active_spans, rtree>>

\* lz_tlh_free by the owner.
FreeLocal(r) ==
  /\ Free(r[1], r[2])
  /\ live' = live \ {r}
  /\ UNCHANGED <<mail, reaping>>

\* lz_tlh_free by any other thread: the run goes to the mailbox.
FreeRemote(r) ==
  /\ Cardinality(mail) + Cardinality(reaping) < MaxMail
  /\ live' = live \ {r} /\ mail' = mail \cup {r}
  /\ UNCHANGED <<span, active_spans, rtree, reaping>>

\* lz_tlh_reap takes the whole mailbox, and frees its runs one by one.
Reap ==
  /\ mail # {}
  /\ reaping' = mail /\ mail' = {}
  /\ UNCHANGED <<span, active_spans, rtree, live>>

ReapRun(r) ==
  /\ Free(r[1], r[2])
  /\ reaping' = reaping \ {r}
  /\ UNCHANGED <<live, mail>>

\* The runs that have not come back to their span.
Taken == live \cup mail \cup reaping

lz_span_alloc(n) ==
  /\ Cardinality(Taken) < MaxRuns
  /\ AllocExisting(n) \/ AllocNewSpan(n) \/ AllocFatal(n) \/ AllocNull(n)

\* The program frees what it holds; the owner is in one call at a time.
Next ==
  \/ /\ reaping = {}
     /\ \/ \E n \in Requests : lz_span_alloc(n)
        \/ \E r \in live : FreeLocal(r)
        \/ Reap
  \/ \E r \in reaping : ReapRun(r)
  \/ \E r \in live : FreeRemote(r)

Spec == Init /\ [][Next]_vars

----------------------------------------------------------------------------
RunsOf(c) == {r \in Taken : r[1] = c}

(* The bitmap, the count and the size table of every span agree with the   *)
(* runs that are out, those on their way back through the mailbox          *)
(* included: they are disjoint, inside the chunk and off page 0, so that   *)
(* freeing one frees its pages and no others.                              *)
PagesExact ==
  /\ \A r \in Taken : r[1] \in rtree
  /\ \A c \in rtree :
       LET taken == UNION {Run(r[2], r[3]) : r \in RunsOf(c)}
       IN  /\ \A r, q \in RunsOf(c) : r # q => Run(r[2], r[3]) \cap Run(q[2], q[3]) = {}
           /\ taken \subseteq Pages \ {0}
           /\ span[c].free_bitmap = (Pages \ {0}) \ taken
           /\ span[c].used_pages = 1 + Cardinality(taken)
           /\ \A p \in Pages : span[c].alloc_size_pages[p] =
                                 SumSet({r[3] : r \in {q \in RunsOf(c) : q[2] = p}})

(* The scan of the bitmap is first fit: the lowest run long enough, within *)
(* a word, across words or behind words that are skipped, and -1 only when *)
(* there is none, in every bitmap allocations and frees produce.           *)
FirstFit ==
  \A c \in rtree : \A n \in Pages \ {0} :
    LET free   == span[c].free_bitmap
        starts == {p \in Pages : Run(p, n) \subseteq free}
    IN  find_contiguous_pages(free, n) = IF starts = {} THEN -1 ELSE Min(starts)

(* active_spans is a doubly linked list of exactly the heap's spans,       *)
(* whichever of them empties and leaves first.                             *)
ActiveSpansExact ==
  LET n == Cardinality(rtree)
      visit[j \in 0..n] == IF j = 0 THEN active_spans
                           ELSE IF visit[j-1] = NULL THEN NULL ELSE span[visit[j-1]].next
  IN  /\ {visit[j] : j \in 0..(n - 1)} = rtree /\ visit[n] = NULL
      /\ \A j \in 1..n : visit[j - 1] # NULL =>
           span[visit[j - 1]].prev = IF j = 1 THEN NULL ELSE visit[j - 2]

(* "Reclaim memory when completely empty": a span goes back to the VMM in  *)
(* the call that frees its last run, and in no other, whatever other runs  *)
(* were taken and freed before.                                            *)
EmptySpansReturned ==
  [][\A c \in rtree : RunsOf(c) # {} => (c \in rtree' <=> RunsOf(c)' # {})]_vars

(* "Failsafe check to assert algorithm logic": a pristine span can serve   *)
(* the request lz_span_alloc created it for, unless that is for no page at *)
(* all (a zero-byte request for a page-aligned block).                     *)
FailsafeOnlyForNothing == [][\A n \in Requests \ {0} : ~AllocFatal(n)]_vars
=============================================================================
