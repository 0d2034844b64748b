----------------------------- MODULE ChunkPool -----------------------------
(***************************************************************************)
(* What the virtual memory manager promises its callers, without pools,    *)
(* locks or lists: chunks the operating system has mapped are handed out   *)
(* to one caller at a time, and only that caller gives them back.          *)
(***************************************************************************)
CONSTANTS Threads, Chunks

VARIABLES
  mapped,   \* chunks the operating system has mapped
  held      \* held[t]: chunks returned to thread t and not yet freed by it

vars == <<mapped, held>>

Init == mapped = {} /\ held = [t \in Threads |-> {}]

Map(S) == /\ S \cap mapped = {}
          /\ mapped' = mapped \cup S
          /\ UNCHANGED held

Alloc(t, c) == /\ c \in mapped
               /\ \A u \in Threads : c \notin held[u]
               /\ held' = [held EXCEPT ![t] = @ \cup {c}]
               /\ UNCHANGED mapped

Free(t, c) == /\ c \in held[t]
              /\ held' = [held EXCEPT ![t] = @ \ {c}]
              /\ UNCHANGED mapped

Next == \/ \E S \in SUBSET Chunks : Map(S)
        \/ \E t \in Threads, c \in Chunks : Alloc(t, c) \/ Free(t, c)

Spec == Init /\ [][Next]_vars
============================================================================
