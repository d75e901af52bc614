----------------------------- MODULE Translation -----------------------------
(***************************************************************************)
(* What page tables promise: every space is a map from pages to entries    *)
(* that contains the kernel's own, and an operation on one page of one     *)
(* space changes the translation of that page alone.                       *)
(***************************************************************************)
CONSTANTS
    Spaces,   \* page tables
    Kernel    \* entries of the kernel's pages, in every table

VARIABLES
    map,      \* map[s]: the entries of s, kernel pages included
    born      \* the tables that exist

vars == <<map, born>>

Empty == [v \in {} |-> 0]

Init ==
    /\ born = {}
    /\ map = [s \in Spaces |-> Empty]

New(s) ==
    /\ s \notin born
    /\ born' = born \cup {s}
    /\ map' = [map EXCEPT ![s] = Kernel]

\* The maps f and g differ at v at most.
SameBut(f, g, v) ==
    /\ DOMAIN f \ {v} = DOMAIN g \ {v}
    /\ \A u \in DOMAIN f \ {v} : f[u] = g[u]

\* The two maps are bound by quantifiers, so that each is computed once.
Change(s) ==
    /\ s \in born
    /\ UNCHANGED born
    /\ \A t \in Spaces \ {s} : map'[t] = map[t]
    /\ \E old \in {map[s]}, new \in {map'[s]} :
         \E v \in (DOMAIN old \cup DOMAIN new) \ DOMAIN Kernel : SameBut(old, new, v)

Drop(s) ==
    /\ s \in born
    /\ born' = born \ {s}
    /\ map' = [map EXCEPT ![s] = Empty]

Next == \E s \in Spaces : New(s) \/ Change(s) \/ Drop(s)

Spec == Init /\ [][Next]_vars
==============================================================================
