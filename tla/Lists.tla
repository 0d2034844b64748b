------------------------------- MODULE Lists -------------------------------
(***************************************************************************)
(* Singly linked lists, as the allocator threads them through chunk        *)
(* headers, free blocks and heaps: what it means that following the links  *)
(* from a top visits exactly the elements of a set.                        *)
(***************************************************************************)
EXTENDS Integers

\* Reaching `top` and whatever an element of R is linked to never leaves R.
Closed(R, top, nx, last) ==
  /\ top \in R \cup {last}
  /\ \A x \in R : nx[x] \in R \cup {last}

\* From `top`, the links nx visit each element of S once and then reach `last`:
\* the links stay inside and get to `last`, no two elements have the same
\* successor, none leads back to the top, and S is the least set that the
\* walk from the top does not leave.
ListOf(top, nx, S, last) ==
  /\ last \notin S
  /\ Closed(S, top, nx, last)
  /\ top = last \/ \E x \in S : nx[x] = last
  /\ \A x \in S : nx[x] # top
  /\ \A x, y \in S : nx[x] = nx[y] => x = y
  /\ \A R \in SUBSET S : Closed(R, top, nx, last) => R = S

\* The elements of S met from `top` before `last`, whatever the links look like.
Reached(top, nx, S, last) ==
  {x \in S : \A R \in SUBSET S : Closed(R, top, nx, last) => x \in R}

\* The same with links back, pv, the first element's being `last`.
DoublyListOf(top, nx, pv, S, last) ==
  /\ ListOf(top, nx, S, last)
  /\ top # last => pv[top] = last
  /\ \A x \in S : nx[x] # last => pv[nx[x]] = x

\* S is finite and has n elements: 1..n numbers them.
Numbered(S, n) ==
  \E f \in [1..n -> S] : /\ \A x \in S : \E k \in 1..n : f[k] = x
                         /\ \A j, k \in 1..n : f[j] = f[k] => j = k
============================================================================
