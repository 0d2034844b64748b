---------------------------- MODULE ListProofs -----------------------------
(***************************************************************************)
(* What the operations of the allocator do to a linked list, for every set *)
(* of elements: the facts the proofs about the components rest on.         *)
(***************************************************************************)
EXTENDS Lists, TLAPS

\* The empty list.
LEMMA ListEmpty ==
  ASSUME NEW top, NEW nx, NEW last
  PROVE  ListOf(top, nx, {}, last) <=> top = last
BY Zenon DEF ListOf, Closed

\* A list is empty when its top is its end.
LEMMA ListNull ==
  ASSUME NEW nx, NEW S, NEW last, ListOf(last, nx, S, last)
  PROVE  S = {}
<1>1. Closed({}, last, nx, last)
  BY Zenon DEF Closed
<1> QED
  BY <1>1 DEF ListOf

\* The top of a list is its first element, or its end.
LEMMA ListTop ==
  ASSUME NEW top, NEW nx, NEW S, NEW last, ListOf(top, nx, S, last)
  PROVE  top \in S \cup {last} /\ last \notin S
BY Zenon DEF ListOf, Closed

\* Only the links of its elements matter to a list.
LEMMA ListFrame ==
  ASSUME NEW top, NEW nx, NEW ny, NEW S, NEW last, ListOf(top, nx, S, last),
         \A x \in S : ny[x] = nx[x]
  PROVE  ListOf(top, ny, S, last)
<1>1. \A R \in SUBSET S : Closed(R, top, ny, last) <=> Closed(R, top, nx, last)
  BY Zenon DEF Closed
<1> QED
  BY <1>1 DEF ListOf

\* x->next = top; top = x.
LEMMA ListPush ==
  ASSUME NEW top, NEW nx, NEW ny, NEW S, NEW last, ListOf(top, nx, S, last),
         NEW c, c \notin S, c # last, ny[c] = top, \A x \in S : ny[x] = nx[x]
  PROVE  ListOf(c, ny, S \cup {c}, last)
<1>1. ASSUME NEW R \in SUBSET (S \cup {c}), Closed(R, c, ny, last)
      PROVE  R = S \cup {c}
  <2>1. Closed(R \ {c}, top, nx, last)
    BY <1>1, Zenon DEF ListOf, Closed
  <2>2. R \ {c} = S
    BY <2>1 DEF ListOf
  <2> QED
    BY <1>1, <2>2, Zenon DEF Closed
<1> QED
  BY <1>1 DEF ListOf, Closed

\* top = top->next.
LEMMA ListPop ==
  ASSUME NEW top, NEW nx, NEW S, NEW last, ListOf(top, nx, S, last), top # last
  PROVE  top \in S /\ ListOf(nx[top], nx, S \ {top}, last)
<1>1. top \in S
  BY Zenon DEF ListOf, Closed
<1>2. ASSUME NEW R \in SUBSET (S \ {top}), Closed(R, nx[top], nx, last)
      PROVE  R = S \ {top}
  <2>1. Closed(R \cup {top}, top, nx, last)
    BY <1>2, Zenon DEF Closed
  <2>2. R \cup {top} = S
    BY <1>1, <2>1 DEF ListOf
  <2> QED
    BY <2>2, Zenon
<1> QED
  BY <1>1, <1>2, Zenon DEF ListOf, Closed

\* x->prev->next = x->next: p is the element before c.
LEMMA ListRemove ==
  ASSUME NEW top, NEW nx, NEW ny, NEW S, NEW last, ListOf(top, nx, S, last),
         NEW c \in S, NEW p \in S, nx[p] = c,
         ny[p] = nx[c], \A x \in S \ {p, c} : ny[x] = nx[x]
  PROVE  ListOf(top, ny, S \ {c}, last)
<1>1. p # c
  <2>1. SUFFICES ASSUME p = c PROVE FALSE
    OBVIOUS
  <2>2. Closed(S \ {c}, top, nx, last)
    BY <2>1, Zenon DEF ListOf, Closed
  <2> QED
    BY <2>2 DEF ListOf
<1>2. ASSUME NEW R \in SUBSET (S \ {c}), Closed(R, top, ny, last)
      PROVE  R = S \ {c}
  <2>1. CASE p \in R
    <3>1. Closed(R \cup {c}, top, nx, last)
      BY <1>1, <1>2, <2>1, Zenon DEF Closed
    <3> QED
      BY <3>1 DEF ListOf
  <2>2. CASE p \notin R
    <3>1. Closed(R, top, nx, last)
      BY <1>2, <2>2, Zenon DEF Closed
    <3> QED
      BY <2>2, <3>1 DEF ListOf
  <2> QED
    BY <2>1, <2>2, Zenon
<1> QED
  BY <1>1, <1>2 DEF ListOf, Closed

\* Linking the end of one list to the top of another.
LEMMA ListConcat ==
  ASSUME NEW top, NEW mid, NEW last, NEW nx, NEW S, NEW T, S \cap T = {}, last \notin S,
         ListOf(top, nx, S, mid), ListOf(mid, nx, T, last)
  PROVE  ListOf(top, nx, S \cup T, last)
<1>1. ASSUME NEW R \in SUBSET (S \cup T), Closed(R, top, nx, last)
      PROVE  R = S \cup T
  <2>1. Closed(R \cap S, top, nx, mid)
    BY <1>1 DEF ListOf, Closed
  <2>2. S \subseteq R
    BY <2>1 DEF ListOf
  <2>3. Closed(R \cap T, mid, nx, last)
    BY <1>1, <2>2 DEF ListOf, Closed
  <2> QED
    BY <1>1, <2>2, <2>3 DEF ListOf
<1> QED
  BY <1>1 DEF ListOf, Closed

\* The link of the last element is changed to lead to another end.
LEMMA ListEnd ==
  ASSUME NEW top, NEW nx, NEW ny, NEW S, NEW last, ListOf(top, nx, S, last),
         NEW c \in S, nx[c] = last, ny[c] \notin S, \A x \in S \ {c} : ny[x] = nx[x]
  PROVE  ListOf(top, ny, S, ny[c])
<1>1. top \in S /\ \A x \in S \ {c} : nx[x] \in S
  BY ListNull, Zenon DEF ListOf, Closed
<1>2. ASSUME NEW R \in SUBSET S, Closed(R, top, ny, ny[c])
      PROVE  R = S
  <2>1. Closed(R, top, nx, last)
    BY <1>1, <1>2, Zenon DEF Closed
  <2> QED
    BY <2>1, Zenon DEF ListOf
<1> QED
  BY <1>1, <1>2 DEF ListOf, Closed

\* The link back of an element leads to its predecessor; only the top has none.
LEMMA DoublyPrev ==
  ASSUME NEW top, NEW nx, NEW pv, NEW S, NEW last, DoublyListOf(top, nx, pv, S, last),
         NEW c \in S
  PROVE  /\ pv[c] = last <=> c = top
         /\ c # top => pv[c] \in S /\ nx[pv[c]] = c
<1>1. CASE c = top
  BY <1>1, Zenon DEF DoublyListOf, ListOf
<1>2. CASE c # top
  <2>1. \E p \in S : nx[p] = c
    <3>1. SUFFICES ASSUME \A p \in S : nx[p] # c PROVE FALSE
      OBVIOUS
    <3>2. Closed(S \ {c}, top, nx, last)
      BY <1>2, <3>1, Zenon DEF DoublyListOf, ListOf, Closed
    <3> QED
      BY <3>2 DEF DoublyListOf, ListOf
  <2> QED
    BY <1>2, <2>1 DEF DoublyListOf, ListOf
<1> QED
  BY <1>1, <1>2, Zenon

\* Only the links of its elements matter to a doubly linked list.
LEMMA DoublyFrame ==
  ASSUME NEW top, NEW nx, NEW pv, NEW S, NEW last, DoublyListOf(top, nx, pv, S, last),
         NEW ny, NEW py, \A x \in S : ny[x] = nx[x] /\ py[x] = pv[x]
  PROVE  DoublyListOf(top, ny, py, S, last)
<1>1. ListOf(top, ny, S, last)
  BY ListFrame, Zenon DEF DoublyListOf
<1> QED
  BY <1>1 DEF DoublyListOf, ListOf, Closed

\* A new first element; the old one is linked back to it.
LEMMA DoublyPush ==
  ASSUME NEW top, NEW nx, NEW pv, NEW S, NEW last, DoublyListOf(top, nx, pv, S, last),
         NEW ny, NEW py, NEW c, c \notin S, c # last, ny[c] = top, py[c] = last,
         \A x \in S : ny[x] = nx[x] /\ py[x] = IF x = top THEN c ELSE pv[x]
  PROVE  DoublyListOf(c, ny, py, S \cup {c}, last)
<1>1. ListOf(c, ny, S \cup {c}, last)
  BY ListPush DEF DoublyListOf
<1>2. \A x \in S : nx[x] # top /\ nx[x] \in S \cup {last}
  BY Zenon DEF DoublyListOf, ListOf, Closed
<1>3. top # last => top \in S
  BY Zenon DEF DoublyListOf, ListOf, Closed
<1> QED
  BY <1>1, <1>2, <1>3 DEF DoublyListOf

\* The links ny and py lead around c where nx and pv led to it.
Around(nx, pv, ny, py, S, c) ==
  \A x \in S \ {c} : /\ ny[x] = IF x = pv[c] THEN nx[c] ELSE nx[x]
                     /\ py[x] = IF x = nx[c] THEN pv[c] ELSE pv[x]

\* An element leaves: its neighbours, or the top, are linked around it.
LEMMA DoublyRemove ==
  ASSUME NEW top, NEW nx, NEW pv, NEW S, NEW last, DoublyListOf(top, nx, pv, S, last),
         NEW ny, NEW py, NEW c \in S, Around(nx, pv, ny, py, S, c),
         NEW first, first = IF c = top THEN nx[c] ELSE top
  PROVE  DoublyListOf(first, ny, py, S \ {c}, last)
<1>0. \A x \in S \ {c} : /\ ny[x] = IF x = pv[c] THEN nx[c] ELSE nx[x]
                         /\ py[x] = IF x = nx[c] THEN pv[c] ELSE pv[x]
  BY Zenon DEF Around
<1>1. /\ last \notin S /\ nx[c] \in S \cup {last} /\ nx[c] # top
      /\ \A x, y \in S : nx[x] = nx[y] => x = y
      /\ \A x \in S : nx[x] # last => pv[nx[x]] = x
  BY Zenon DEF DoublyListOf, ListOf, Closed
<1>2. /\ pv[c] = last <=> c = top
      /\ c # top => pv[c] \in S /\ nx[pv[c]] = c
  BY DoublyPrev
<1>3. CASE c = top
  <2>1. top # last /\ ListOf(nx[top], nx, S \ {top}, last)
    BY <1>1, <1>3, ListPop, Zenon DEF DoublyListOf
  <2>2. \A x \in S \ {top} : ny[x] = nx[x]
    BY <1>0, <1>1, <1>2, <1>3
  <2>3. ListOf(nx[top], ny, S \ {top}, last)
    BY <2>1, <2>2, ListFrame, Zenon
  <2>4. nx[top] # last => nx[top] \in S \ {top} /\ py[nx[top]] = last
    BY <1>0, <1>1, <1>2, <1>3, Zenon
  <2>5. \A x \in S \ {top} : nx[x] # last => nx[x] \in S \ {top} /\ nx[x] # nx[top]
    BY <1>1, <1>3, Zenon DEF DoublyListOf, ListOf, Closed
  <2>6. \A x \in S \ {top} : ny[x] # last => py[ny[x]] = x
    BY <1>0, <1>1, <1>3, <2>2, <2>5
  <2> QED
    BY <1>3, <2>3, <2>4, <2>6, Zenon DEF DoublyListOf
<1>4. CASE c # top
  <2> DEFINE p == pv[c]
  <2>1. p \in S /\ nx[p] = c /\ p # c
    <3>1. p = c => Closed(S \ {c}, top, nx, last)
      BY <1>1, <1>2, <1>4, Zenon DEF DoublyListOf, ListOf, Closed
    <3> QED
      BY <1>2, <1>4, <3>1 DEF DoublyListOf, ListOf
  <2>2. nx[c] # c
    BY <1>1, <2>1, Zenon
  <2>3. ny[p] = nx[c] /\ \A x \in S \ {p, c} : ny[x] = nx[x]
    BY <1>0, <2>1, Zenon
  <2>4. ListOf(top, ny, S \ {c}, last)
    BY <2>1, <2>3, ListRemove, Zenon DEF DoublyListOf
  <2>5. top # last => py[top] = last
    BY <1>0, <1>1, <1>4, Zenon DEF DoublyListOf, ListOf, Closed
  <2>6. nx[c] # last => py[nx[c]] = p
    BY <1>0, <1>1, <2>2, Zenon
  <2>7. \A x \in S \ {p, c} : nx[x] # last => nx[x] \in S \ {c} /\ nx[x] # nx[c]
    BY <1>1, <2>1, Zenon DEF DoublyListOf, ListOf, Closed
  <2>8. \A x \in S \ {p, c} : ny[x] # last => py[ny[x]] = x
    BY <1>0, <1>1, <2>3, <2>7
  <2> QED
    BY <1>4, <2>1, <2>3, <2>4, <2>5, <2>6, <2>8, Zenon DEF DoublyListOf
<1> QED
  BY <1>3, <1>4, Zenon

\* A list of elements of U is what is reached in U from its top.
LEMMA ListReached ==
  ASSUME NEW top, NEW nx, NEW S, NEW last, ListOf(top, nx, S, last), NEW U, S \subseteq U
  PROVE  Reached(top, nx, U, last) = S
<1>1. ASSUME NEW R \in SUBSET U, Closed(R, top, nx, last)
      PROVE  S \subseteq R
  <2>1. Closed(R \cap S, top, nx, last)
    BY <1>1, Zenon DEF ListOf, Closed
  <2> QED
    BY <2>1 DEF ListOf
<1>2. Closed(S, top, nx, last)
  BY Zenon DEF ListOf
<1> QED
  BY <1>1, <1>2, Zenon DEF Reached

----------------------------------------------------------------------------
(* Counters kept beside a list.                                            *)

\* The empty set is counted by zero, and by nothing else.
LEMMA NumberedEmpty ==
  ASSUME NEW n \in Nat
  PROVE  Numbered({}, n) <=> n = 0
<1>1. ASSUME n = 0 PROVE Numbered({}, n)
  <2>1. 1..n = {} /\ [k \in 1..n |-> 0] \in [1..n -> {}]
    BY <1>1
  <2> QED
    BY <2>1, Zenon DEF Numbered
<1>2. ASSUME n # 0, Numbered({}, n) PROVE FALSE
  <2>1. 1 \in 1..n
    BY <1>2
  <2> QED
    BY <1>2, <2>1, Zenon DEF Numbered
<1> QED
  BY <1>1, <1>2, Zenon

\* One more element, one more on the count.
LEMMA NumberedAdd ==
  ASSUME NEW S, NEW n \in Nat, Numbered(S, n), NEW c, c \notin S
  PROVE  Numbered(S \cup {c}, n + 1)
<1>1. PICK f \in [1..n -> S] : /\ \A x \in S : \E k \in 1..n : f[k] = x
                              /\ \A j, k \in 1..n : f[j] = f[k] => j = k
  BY Zenon DEF Numbered
<1> DEFINE g == [k \in 1..(n + 1) |-> IF k = n + 1 THEN c ELSE f[k]]
<1>2. g \in [1..(n + 1) -> S \cup {c}]
  BY <1>1
<1>3. \A x \in S \cup {c} : \E k \in 1..(n + 1) : g[k] = x
  BY <1>1
<1>4. \A j, k \in 1..(n + 1) : g[j] = g[k] => j = k
  BY <1>1
<1> QED
  BY <1>2, <1>3, <1>4, Zenon DEF Numbered

\* One element less: the count was positive and loses one.
LEMMA NumberedRemove ==
  ASSUME NEW S, NEW n \in Nat, Numbered(S, n), NEW c \in S
  PROVE  n # 0 /\ Numbered(S \ {c}, n - 1)
<1>1. PICK f \in [1..n -> S] : /\ \A x \in S : \E k \in 1..n : f[k] = x
                              /\ \A j, k \in 1..n : f[j] = f[k] => j = k
  BY Zenon DEF Numbered
<1>2. PICK m \in 1..n : f[m] = c
  BY <1>1, Zenon
<1> DEFINE g == [k \in 1..(n - 1) |-> IF k = m THEN f[n] ELSE f[k]]
<1>3. g \in [1..(n - 1) -> S \ {c}]
  BY <1>1, <1>2
<1>4. ASSUME NEW x \in S \ {c} PROVE \E k \in 1..(n - 1) : g[k] = x
  <2>1. PICK k \in 1..n : f[k] = x
    BY <1>1, Zenon
  <2>2. k # m
    BY <1>2, <2>1, Zenon
  <2>3. IF k = n THEN m \in 1..(n - 1) /\ g[m] = x ELSE k \in 1..(n - 1) /\ g[k] = x
    BY <1>2, <2>1, <2>2
  <2> QED
    BY <2>3, Zenon
<1>5. \A j, k \in 1..(n - 1) : g[j] = g[k] => j = k
  BY <1>1, <1>2
<1>6. n # 0
  BY <1>2
<1> HIDE DEF g
<1> QED
  BY <1>3, <1>4, <1>5, <1>6, Zenon DEF Numbered

============================================================================
