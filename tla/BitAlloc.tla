------------------------------ MODULE BitAlloc ------------------------------
(***************************************************************************)
(* What an allocator of the bits 0 .. N - 1 promises (the trait BitAlloc): *)
(* it is a set of free bits, and alloc hands out the lowest of them.  Page *)
(* frames, process ids and file descriptors are such bits.                 *)
(***************************************************************************)
EXTENDS Integers

CONSTANTS N, Sizes, Aligns

VARIABLES
    free,           \* the bits that are free
    call,           \* the last call
    ret             \* what it returned; -1 is None

None == -1

Lowest(S) == CHOOSE x \in S : \A y \in S : x <= y

PromiseInit == free = {} /\ call = <<"new">> /\ ret = None

PromiseAlloc ==
    /\ call' = <<"alloc">>
    /\ \/ free = {} /\ free' = free /\ ret' = None
       \/ free # {} /\ free' = free \ {Lowest(free)} /\ ret' = Lowest(free)

\* The aligned places where size bits in a row are free; an alignment wider
\* than the allocator has none.
Places(size, align) ==
    {b \in 0 .. N - 1 : /\ align <= N /\ b % align = 0
                       /\ b .. b + size - 1 \subseteq free}

PromiseAllocContiguous(size, align) ==
    LET P == Places(size, align)
    IN  /\ call' = <<"alloc_contiguous", size, align>>
        /\ \/ P = {} /\ free' = free /\ ret' = None
           \/ P # {} /\ free' = free \ (Lowest(P) .. Lowest(P) + size - 1)
                     /\ ret' = Lowest(P)

PromiseDealloc(key) ==
    /\ call' = <<"dealloc", key>>
    /\ key \notin free
    /\ free' = free \cup {key}
    /\ ret' = None

PromiseInsert(start, end) ==
    /\ call' = <<"insert", start, end>>
    /\ free' = free \cup (start .. end - 1)
    /\ ret' = None

PromiseNext ==
    \/ PromiseAlloc
    \/ \E size \in Sizes, align \in Aligns : PromiseAllocContiguous(size, align)
    \/ \E key \in 0 .. N - 1 : PromiseDealloc(key)
    \/ \E start, end \in 0 .. N : start < end /\ PromiseInsert(start, end)

Promise == PromiseInit /\ [][PromiseNext]_<<free, call, ret>>

=============================================================================
