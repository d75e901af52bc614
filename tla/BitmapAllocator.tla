--------------------------- MODULE BitmapAllocator ---------------------------
(***************************************************************************)
(* The bitmap allocator: a tree of fan-out 16 whose leaves are 16-bit      *)
(* words.  The module is one node of it, BitAllocCascade16<T>: a summary   *)
(* word with a bit for each of its Width subtrees and the subtrees         *)
(* themselves, each a T with Cap bits.  A subtree is given by what T       *)
(* promises (module BitAlloc); a leaf, BitAlloc16, is that set of bits     *)
(* itself.  The node is shown to promise the same of Width * Cap bits, so  *)
(* the trees of every height do: 256 descriptors, 4K process ids, 16M page *)
(* frames.                                                                 *)
(*                                                                         *)
(* owned is the set of bits the callers hold (a FrameTracker, a Pid): they *)
(* give back only what they were given.                                    *)
(***************************************************************************)
EXTENDS Integers

CONSTANTS
    Width,          \* subtrees of a node: 16
    Cap,            \* T::CAP
    Sizes,          \* the run lengths asked for
    Aligns          \* 1 << align_log2

ASSUME BitmapAssumption ==
    /\ Width \in Nat \ {0} /\ Cap \in Nat \ {0}
    /\ Sizes \subseteq Nat \ {0} /\ Aligns \subseteq Nat \ {0}

VARIABLES
    bitset,         \* the summary: the subtrees marked as not empty
    sub,            \* [0 .. Width - 1 -> SUBSET (0 .. Cap - 1)]: their free bits
    call,           \* the last call
    ret,            \* what it returned
    owned,          \* the bits handed out and not given back
    failed          \* an assert!, an unwrap of None or an index has panicked

bitmapVars == <<bitset, sub, call, ret, owned, failed>>

Total == Width * Cap
Subtrees == 0 .. Width - 1
SubBits == 0 .. Cap - 1

\* The bits that are free in the whole tree.
Free ==
    {b \in 0 .. Total - 1 : b % Cap \in sub[b \div Cap]}

B == INSTANCE BitAlloc WITH N <- Total, free <- Free

BitmapInit ==
    /\ bitset = {}
    /\ sub = [i \in Subtrees |-> {}]
    /\ call = <<"new">>
    /\ ret = B!None
    /\ owned = {}
    /\ failed = FALSE

\* bitset.set_bit(i, !sub[i].is_empty()), for the subtrees in I.
Summary(I, s) == {i \in Subtrees : IF i \in I THEN s[i] # {} ELSE i \in bitset}

Alloc ==
    LET i == B!Lowest(bitset)
        s == [sub EXCEPT ![i] = @ \ {B!Lowest(@)}]
    IN  /\ ~failed
        /\ call' = <<"alloc">>
        /\ IF bitset = {}
           THEN ret' = B!None /\ UNCHANGED <<bitset, sub, owned, failed>>
           ELSE IF sub[i] = {}
           THEN failed' = TRUE /\ UNCHANGED <<bitset, sub, ret, owned>>
           ELSE /\ sub' = s
                /\ bitset' = Summary({i}, s)
                /\ ret' = B!Lowest(sub[i]) + i * Cap
                /\ owned' = owned \cup {ret'}
                /\ UNCHANGED failed

\* dealloc asserts, in the leaf, that the bit was not free.
Dealloc(key) ==
    LET i == key \div Cap
    IN  /\ ~failed
        /\ key \in owned
        /\ call' = <<"dealloc", key>>
        /\ owned' = owned \ {key}
        /\ IF key % Cap \in sub[i]
           THEN failed' = TRUE /\ UNCHANGED <<bitset, sub, ret>>
           ELSE /\ sub' = [sub EXCEPT ![i] = @ \cup {key % Cap}]
                /\ bitset' = bitset \cup {i}
                /\ ret' = B!None
                /\ UNCHANGED failed

\* for_range: the part of start .. end - 1 that falls in subtree i.  The last
\* subtree is that of end - 1, so a range that ends with a subtree covers it.
Touched(start, end) == start \div Cap .. (end - 1) \div Cap

PartOf(i, start, end) ==
    LET first == IF start \div Cap = i THEN start % Cap ELSE 0
        past  == IF end \div Cap = i THEN end % Cap ELSE Cap
    IN  first .. past - 1

Inserted(start, end) ==
    [i \in Subtrees |-> IF i \in Touched(start, end)
                        THEN sub[i] \cup PartOf(i, start, end) ELSE sub[i]]

Removed(start, end) ==
    [i \in Subtrees |-> IF i \in Touched(start, end)
                        THEN sub[i] \ PartOf(i, start, end) ELSE sub[i]]

\* The callers insert the range they manage once, before anything else.
Insert(start, end) ==
    /\ ~failed
    /\ Free = {} /\ owned = {}
    /\ call' = <<"insert", start, end>>
    /\ sub' = Inserted(start, end)
    /\ bitset' = Summary(Touched(start, end), sub')
    /\ ret' = B!None
    /\ UNCHANGED <<owned, failed>>

\* next: the subtrees from that of key on that are marked, the first of them
\* with a bit at or after key.
NextFree(key) ==
    LET from(i) == IF i = key \div Cap THEN key - Cap * i ELSE 0
        in(i) == {k \in sub[i] : k >= from(i)}
        hits == {i \in key \div Cap .. Width - 1 : i \in bitset /\ in(i) # {}}
        i == B!Lowest(hits)
    IN  IF hits = {} THEN B!None ELSE B!Lowest(in(i)) + Cap * i

\* Mutant: the next place is not aligned.
AlignedPast(next, align) == next

\* The aligned place at or after next, when next is not where the run is.
Aligned(next, align) == ((next - 1) \div align + 1) * align

\* find_contiguous: base is where the run starts, offset where it is tested.
FindContiguous(size, align) ==
    LET scan[at \in (0 .. 2 * Total) \X (0 .. 2 * Total)] ==
            LET offset == at[1]
                base   == at[2]
                next   == NextFree(offset)
                new    == Aligned(next, align)
            IN  IF offset >= Total THEN B!None
                ELSE IF next = B!None THEN B!None
                ELSE IF next # offset THEN scan[<<new, new>>]
                ELSE IF offset + 1 - base = size THEN base
                ELSE scan[<<offset + 1, base>>]
    IN  IF Total < align \/ bitset = {} THEN B!None ELSE scan[<<0, 0>>]

AllocContiguous(size, align) ==
    LET found == FindContiguous(size, align)
    IN  /\ ~failed
        /\ call' = <<"alloc_contiguous", size, align>>
        /\ ret' = found
        /\ IF found = B!None
           THEN UNCHANGED <<bitset, sub, owned, failed>>
           ELSE IF found + size > Total
           THEN failed' = TRUE /\ UNCHANGED <<bitset, sub, owned>>
           ELSE /\ sub' = Removed(found, found + size)
                /\ bitset' = Summary(Touched(found, found + size), sub')
                /\ owned' = owned \cup (found .. found + size - 1)
                /\ UNCHANGED failed

BitmapNext ==
    \/ Alloc
    \/ \E key \in 0 .. Total - 1 : Dealloc(key)
    \/ \E start, end \in 0 .. Total : start < end /\ Insert(start, end)
    \/ \E size \in Sizes, align \in Aligns : AllocContiguous(size, align)

BitmapSpec == BitmapInit /\ [][BitmapNext]_bitmapVars

-----------------------------------------------------------------------------

BitmapTypeOK ==
    /\ bitset \subseteq Subtrees
    /\ sub \in [Subtrees -> SUBSET SubBits]
    /\ ret \in Int
    /\ owned \subseteq 0 .. Total - 1
    /\ failed \in BOOLEAN

\* The summary word of a node marks exactly the subtrees with a free bit; alloc
\* unwraps what the first marked subtree returns, and next skips the others
\* (BitAllocCascade16).
SummaryRight == bitset = {i \in Subtrees : sub[i] # {}}

\* The tree of words does what the trait promises of a flat set of bits: alloc
\* returns the lowest free bit, alloc_contiguous takes the lowest aligned run
\* if there is one, and every call changes those bits and no other.
KeepsPromise == B!Promise

=============================================================================
