----------------------------- MODULE PageStore -----------------------------
(***************************************************************************)
(* What the buffer pool promises its clients (spec.md 4.4): pages are      *)
(* allocated with consecutive ids and zeroed contents, and each page reads *)
(* back the last value written to it.  Eviction, flushing and re-reading   *)
(* are invisible at this level.                                            *)
(***************************************************************************)
EXTENDS Naturals

CONSTANTS Values, MaxPages

VARIABLES
    store,          \* allocated page id -> its current contents
    allocated       \* the number of page ids handed out

Init ==
    /\ store = [p \in {} |-> 0]
    /\ allocated = 0

\* A new page: the next id, zeroed.
Allocate ==
    /\ allocated < MaxPages
    /\ store' = [p \in 0 .. allocated |-> IF p = allocated THEN 0 ELSE store[p]]
    /\ allocated' = allocated + 1

\* A client writes v into page p.
Write(p, v) ==
    /\ p \in DOMAIN store
    /\ store' = [store EXCEPT ![p] = v]
    /\ UNCHANGED allocated

Next == Allocate \/ \E p \in DOMAIN store, v \in Values : Write(p, v)

Spec == Init /\ [][Next]_<<store, allocated>>

=============================================================================
