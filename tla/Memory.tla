------------------------------- MODULE Memory -------------------------------
(***************************************************************************)
(* What the memory system promises the processes: every address space is a *)
(* private, partial map from pages to contents.  A step changes one space; *)
(* a fresh page is zero; a page that stays mapped changes by the stores of *)
(* its own space alone; a space born by fork sees what its parent saw; a   *)
(* new program starts from its image and nothing else.                     *)
(***************************************************************************)
EXTENDS Integers

CONSTANTS
    Spaces,   \* address spaces
    Vpns,     \* pages that programs store to
    Values,   \* what they store; 0 is a page of zeros
    Images    \* the views programs start with

VARIABLES
    view,     \* view[s][v] is what s sees in its private page v
    born      \* the spaces that exist

vars == <<view, born>>

Empty == [v \in {} |-> 0]
SameBut(s) == \A t \in Spaces \ {s} : view'[t] = view[t]

Init ==
    \E s \in Spaces, image \in Images :
        /\ born = {s}
        /\ view = [t \in Spaces |-> IF t = s THEN image ELSE Empty]

Store(s, v, x) ==
    /\ v \in DOMAIN view[s]
    /\ view' = [view EXCEPT ![s][v] = x]
    /\ UNCHANGED born

Remap(s) ==
    /\ s \in born
    /\ SameBut(s)
    /\ \A v \in DOMAIN view'[s] :
         view'[s][v] = IF v \in DOMAIN view[s] THEN view[s][v] ELSE 0
    /\ UNCHANGED born

Exec(s) ==
    /\ s \in born
    /\ SameBut(s)
    /\ view'[s] \in Images
    /\ UNCHANGED born

Fork(s, c) ==
    /\ s \in born /\ c \notin born
    /\ born' = born \cup {c}
    /\ SameBut(c)
    /\ DOMAIN view[s] \subseteq DOMAIN view'[c]
    /\ \A v \in DOMAIN view[s] : view'[c][v] = view[s][v]

Die(s) ==
    /\ s \in born
    /\ born' = born \ {s}
    /\ view' = [view EXCEPT ![s] = Empty]

Next ==
    \E s \in Spaces :
        \/ Remap(s)
        \/ \E v \in Vpns, x \in Values : Store(s, v, x)
        \/ Exec(s)
        \/ \E c \in Spaces : Fork(s, c)
        \/ Die(s)

Spec == Init /\ [][Next]_vars
=============================================================================
