--------------------------- MODULE LibraryProofs ---------------------------
(****************************************************************************)
(* The bitmap allocator, for every width, every capacity of the subtrees    *)
(* and every run that is asked for: the summary word of a node is right, no *)
(* call panics, and the tree of words refines the promise of the trait,     *)
(* BitAlloc.  The recursions of next and find_contiguous are reasoned about *)
(* by the smallest number for which a claim fails.  And read and write of   *)
(* the block device, for every sector size, every device, every buffer and  *)
(* every position.                                                          *)
(****************************************************************************)
EXTENDS BitmapAllocator, Disk, TLAPS, WellFoundedInduction

(******************************* the allocator *******************************)
\* A non-empty set of numbers has a lowest member, and only one.
LEMMA LowestFact ==
    ASSUME NEW S, S \subseteq Nat, S # {}
    PROVE  B!Lowest(S) \in S /\ \A q \in S : B!Lowest(S) <= q
<1>1. IsWellFoundedOn(OpToRel(<, Nat), Nat)
  BY NatLessThanWellFounded, Zenon
<1>2. PICK x \in S : \A y \in S : ~(<<y, x>> \in OpToRel(<, Nat))
  BY <1>1, WFMin, Zenon
<1>3. ASSUME NEW y \in S PROVE x <= y
  <2>1. ~(<<y, x>> \in {ss \in Nat \X Nat : ss[1] < ss[2]})
    BY <1>2 DEF OpToRel
  <2>2. x \in Nat /\ y \in Nat /\ ~(y < x)
    BY <2>1
  <2> QED BY <2>2
<1> QED BY <1>3, Zenon DEF B!Lowest

\* A member that no other member is below is the lowest.
LEMMA LowestIs ==
    ASSUME NEW S, S \subseteq Nat, NEW x \in S, \A q \in S : x <= q
    PROVE  B!Lowest(S) = x
<1>1. B!Lowest(S) \in S /\ B!Lowest(S) <= x
  BY LowestFact, Zenon
<1>2. x <= B!Lowest(S) /\ x \in Nat /\ B!Lowest(S) \in Nat
  BY <1>1, Zenon
<1> QED BY <1>1, <1>2

\* Quotient and remainder by the capacity of a subtree.
LEMMA DivModCap ==
    ASSUME NEW b \in Nat
    PROVE  /\ b \div Cap \in Nat /\ b % Cap \in 0 .. Cap - 1
           /\ b = (b \div Cap) * Cap + (b % Cap)
<1>1. Cap \in Nat /\ Cap > 0
  BY BitmapAssumption
<1> QED BY <1>1

\* They are the only ones.
LEMMA DivModIs ==
    ASSUME NEW i \in Nat, NEW k \in 0 .. Cap - 1
    PROVE  (i * Cap + k) \div Cap = i /\ (i * Cap + k) % Cap = k
<1>1. Cap \in Nat /\ Cap > 0
  BY BitmapAssumption
<1> DEFINE b == i * Cap + k
           q == b \div Cap
           r == b % Cap
<1>2. i * Cap \in Nat /\ b \in Nat
  BY <1>1
<1>3. q \in Nat /\ r \in 0 .. Cap - 1 /\ i * Cap + k = q * Cap + r
  BY <1>2, DivModCap
<1> HIDE DEF q, r
<1>4. ~(q > i)
  <2> SUFFICES ASSUME q > i PROVE FALSE
    OBVIOUS
  <2>1. PICK d \in Nat : q = i + 1 + d
    <3>1. q - i - 1 \in Nat /\ q = i + 1 + (q - i - 1)
      BY <1>3
    <3> QED BY <3>1
  <2>2. q * Cap = i * Cap + Cap + d * Cap /\ d * Cap \in Nat
    BY <1>1, <2>1
  <2> QED BY <1>1, <1>2, <1>3, <2>2
<1>5. ~(q < i)
  <2> SUFFICES ASSUME q < i PROVE FALSE
    OBVIOUS
  <2>1. PICK d \in Nat : i = q + 1 + d
    <3>1. i - q - 1 \in Nat /\ i = q + 1 + (i - q - 1)
      BY <1>3
    <3> QED BY <3>1
  <2>2. i * Cap = q * Cap + Cap + d * Cap /\ d * Cap \in Nat
    BY <1>1, <1>3, <2>1
  <2> QED BY <1>1, <1>2, <1>3, <2>2
<1>6. q = i /\ r = k
  <2>1. q = i
    BY <1>3, <1>4, <1>5
  <2> QED BY <1>1, <1>2, <1>3, <2>1
<1> QED BY <1>6 DEF q, r, b

\* What holds of a node between two calls.
BitmapInv ==
    /\ BitmapTypeOK /\ SummaryRight /\ ~failed
    /\ owned \cap Free = {}

\* A bit of the tree is in one of its subtrees.
LEMMA SubtreeOf ==
    ASSUME NEW key \in 0 .. Total - 1
    PROVE  key \div Cap \in Subtrees /\ key % Cap \in SubBits
<1>1. key \in Nat /\ key < Width * Cap /\ Width \in Nat \ {0} /\ Cap \in Nat \ {0}
  BY BitmapAssumption DEF Total
<1> DEFINE q == key \div Cap
<1>2. q \in Nat /\ q * Cap <= key
  BY <1>1
<1>3. q * Cap < Width * Cap
  BY <1>1, <1>2
<1>4. q < Width
  BY <1>1, <1>2, <1>3
<1> QED
  BY <1>1, <1>2, <1>4, DivModCap DEF Subtrees, SubBits

\* Bit k of subtree i is bit i * Cap + k of the tree.
LEMMA BitOf ==
    ASSUME NEW i \in Subtrees, NEW k \in SubBits
    PROVE  /\ i * Cap + k \in 0 .. Total - 1
           /\ (i * Cap + k) \div Cap = i /\ (i * Cap + k) % Cap = k
<1>1. i \in Nat /\ k \in 0 .. Cap - 1 /\ i <= Width - 1
      /\ Width \in Nat \ {0} /\ Cap \in Nat \ {0}
  BY BitmapAssumption DEF Subtrees, SubBits
<1>2. i * Cap \in Nat /\ (Width - 1) * Cap = Width * Cap - Cap
  BY <1>1
<1>3. i * Cap <= (Width - 1) * Cap
  <2>1. PICK d \in Nat : Width - 1 = i + d
    <3>1. Width - 1 - i \in Nat /\ Width - 1 = i + (Width - 1 - i)
      BY <1>1
    <3> QED BY <3>1
  <2>2. (Width - 1) * Cap = i * Cap + d * Cap /\ d * Cap \in Nat
    BY <1>1, <2>1
  <2> QED BY <1>1, <1>2, <2>2
<1>4. i * Cap + k \in 0 .. Total - 1
  <2>1. Width * Cap \in Nat
    BY <1>1
  <2> QED BY <1>1, <1>2, <1>3, <2>1 DEF Total
<1> QED
  BY <1>1, <1>4, DivModIs

\* Bit k of subtree i is free in the tree when the subtree has it.
LEMMA FreeBit ==
    ASSUME NEW i \in Subtrees, NEW k \in SubBits
    PROVE  i * Cap + k \in Free <=> k \in sub[i]
BY BitOf DEF Free

\* The free bits are bits of the tree.
LEMMA FreeNat == Free \subseteq 0 .. Total - 1 /\ Free \subseteq Nat
<1>1. Total \in Nat
  BY BitmapAssumption DEF Total
<1> QED BY <1>1 DEF Free

\* A lower subtree holds lower bits.
LEMMA BitsOrdered ==
    ASSUME NEW b \in Nat, NEW i \in Nat, NEW k \in 0 .. Cap - 1,
           \/ i < b \div Cap
           \/ i = b \div Cap /\ k <= b % Cap
    PROVE  i * Cap + k <= b
<1> DEFINE q == b \div Cap
           r == b % Cap
<1>1. Cap \in Nat /\ Cap > 0 /\ q \in Nat /\ r \in 0 .. Cap - 1 /\ b = q * Cap + r
  BY BitmapAssumption, DivModCap
<1>2. \/ i < q
      \/ i = q /\ k <= r
  OBVIOUS
<1> HIDE DEF q, r
<1>3. CASE i < q
  <2>1. PICK d \in Nat : q = i + 1 + d
    <3>1. q - i - 1 \in Nat /\ q = i + 1 + (q - i - 1)
      BY <1>1, <1>3
    <3> QED BY <3>1
  <2>2. q * Cap = i * Cap + Cap + d * Cap /\ d * Cap \in Nat /\ i * Cap \in Nat
    BY <1>1, <2>1
  <2> QED BY <1>1, <2>2
<1>4. CASE i = q /\ k <= r
  <2>1. q * Cap \in Nat
    BY <1>1
  <2> QED BY <1>1, <1>4, <2>1
<1> QED BY <1>2, <1>3, <1>4

\* for_range takes exactly the bits of the range.
LEMMA RangeParts ==
    ASSUME NEW start \in Nat, NEW end \in Nat, start < end, NEW b \in Nat
    PROVE  (b \div Cap \in Touched(start, end) /\ b % Cap \in PartOf(b \div Cap, start, end))
             <=> b \in start .. end - 1
<1> DEFINE q == b \div Cap
           r == b % Cap
           sq == start \div Cap
           sr == start % Cap
           eq == end \div Cap
           er == end % Cap
           lq == (end - 1) \div Cap
           lr == (end - 1) % Cap
<1>1. /\ Cap \in Nat /\ Cap > 0 /\ end - 1 \in Nat
      /\ q \in Nat /\ r \in 0 .. Cap - 1 /\ b = q * Cap + r
      /\ sq \in Nat /\ sr \in 0 .. Cap - 1 /\ start = sq * Cap + sr
      /\ eq \in Nat /\ er \in 0 .. Cap - 1 /\ end = eq * Cap + er
      /\ lq \in Nat /\ lr \in 0 .. Cap - 1 /\ end - 1 = lq * Cap + lr
  <2>1. Cap \in Nat /\ Cap > 0 /\ end - 1 \in Nat
    BY BitmapAssumption
  <2> QED BY <2>1, DivModCap
<1>2. /\ b < start <=> q < sq \/ (q = sq /\ r < sr)
      /\ b < end <=> q < eq \/ (q = eq /\ r < er)
      /\ b <= end - 1 <=> q < lq \/ (q = lq /\ r <= lr)
  <2>0. \A x, y \in Nat : x < y => x * Cap + Cap <= y * Cap
    <3> SUFFICES ASSUME NEW x \in Nat, NEW y \in Nat, x < y
                 PROVE  x * Cap + Cap <= y * Cap
      OBVIOUS
    <3>1. PICK d \in Nat : y = x + 1 + d
      <4>1. y - x - 1 \in Nat /\ y = x + 1 + (y - x - 1)
        OBVIOUS
      <4> QED BY <4>1
    <3>2. y * Cap = x * Cap + Cap + d * Cap /\ d * Cap \in Nat /\ x * Cap \in Nat
      BY <1>1, <3>1
    <3> QED BY <1>1, <3>2
  <2> HIDE DEF q, r, sq, sr, eq, er, lq, lr
  <2>1. q * Cap \in Nat /\ sq * Cap \in Nat /\ eq * Cap \in Nat /\ lq * Cap \in Nat
    BY <1>1
  <2>2. b < start <=> q < sq \/ (q = sq /\ r < sr)
    <3>1. CASE q < sq
      <4>1. q * Cap + Cap <= sq * Cap
        BY <1>1, <2>0, <3>1
      <4> QED BY <1>1, <2>1, <3>1, <4>1
    <3>2. CASE q > sq
      <4>1. sq * Cap + Cap <= q * Cap
        BY <1>1, <2>0, <3>2
      <4> QED BY <1>1, <2>1, <3>2, <4>1
    <3>3. CASE q = sq
      BY <1>1, <2>1, <3>3
    <3> QED BY <1>1, <3>1, <3>2, <3>3
  <2>3. b < end <=> q < eq \/ (q = eq /\ r < er)
    <3>1. CASE q < eq
      <4>1. q * Cap + Cap <= eq * Cap
        BY <1>1, <2>0, <3>1
      <4> QED BY <1>1, <2>1, <3>1, <4>1
    <3>2. CASE q > eq
      <4>1. eq * Cap + Cap <= q * Cap
        BY <1>1, <2>0, <3>2
      <4> QED BY <1>1, <2>1, <3>2, <4>1
    <3>3. CASE q = eq
      BY <1>1, <2>1, <3>3
    <3> QED BY <1>1, <3>1, <3>2, <3>3
  <2>4. b <= end - 1 <=> q < lq \/ (q = lq /\ r <= lr)
    <3>1. CASE q < lq
      <4>1. q * Cap + Cap <= lq * Cap
        BY <1>1, <2>0, <3>1
      <4> QED BY <1>1, <2>1, <3>1, <4>1
    <3>2. CASE q > lq
      <4>1. lq * Cap + Cap <= q * Cap
        BY <1>1, <2>0, <3>2
      <4> QED BY <1>1, <2>1, <3>2, <4>1
    <3>3. CASE q = lq
      BY <1>1, <2>1, <3>3
    <3> QED BY <1>1, <3>1, <3>2, <3>3
  <2> QED BY <2>2, <2>3, <2>4
<1>3. q \in Touched(start, end) <=> sq <= q /\ q <= lq
  BY <1>1 DEF Touched
<1>4. r \in PartOf(q, start, end)
        <=> (sq = q => sr <= r) /\ (eq = q => r < er)
  BY <1>1 DEF PartOf
<1> HIDE DEF q, r, sq, sr, eq, er, lq, lr
<1>5. b \in start .. end - 1 <=> ~(b < start) /\ b < end /\ b <= end - 1
  OBVIOUS
<1> QED BY <1>1, <1>2, <1>3, <1>4, <1>5 DEF q, r
\* The subtrees stay an array of Width elements, and the summary is right.
NodeInv == DOMAIN sub = Subtrees /\ sub = [i \in Subtrees |-> sub[i]] /\ SummaryRight

\* for_range and the calls on one subtree refresh the bits of the subtrees
\* they touch; the others keep theirs.
LEMMA SummaryKept ==
    ASSUME NodeInv, NEW I, NEW s,
           s = [i \in Subtrees |-> s[i]],
           \A i \in Subtrees : i \notin I => s[i] = sub[i]
    PROVE  Summary(I, s) = {i \in Subtrees : s[i] # {}}
  BY DEF NodeInv, SummaryRight, Summary

\* alloc refreshes the bit of the subtree it took from.
LEMMA AllocKeeps == NodeInv /\ Alloc => NodeInv'
<1> SUFFICES ASSUME NodeInv, Alloc PROVE NodeInv'
  OBVIOUS
<1> DEFINE i == B!Lowest(bitset)
           s == [sub EXCEPT ![i] = @ \ {B!Lowest(@)}]
<1>1. CASE UNCHANGED <<bitset, sub>>
  BY <1>1 DEF NodeInv, SummaryRight
<1>2. CASE sub' = s /\ bitset' = Summary({i}, s)
  <2>1. DOMAIN s = Subtrees /\ s = [j \in Subtrees |-> s[j]]
    BY DEF NodeInv
  <2>2. \A j \in Subtrees : j \notin {i} => s[j] = sub[j]
    BY DEF NodeInv
  <2> HIDE DEF s, i
  <2>3. Summary({i}, s) = {j \in Subtrees : s[j] # {}}
    BY <2>1, <2>2, SummaryKept
  <2> QED
    BY <1>2, <2>1, <2>3 DEF NodeInv, SummaryRight
<1> QED
  BY <1>1, <1>2 DEF Alloc

\* dealloc marks the subtree that gets its bit back.
LEMMA DeallocKeeps ==
    ASSUME NodeInv, NEW key \in 0 .. Total - 1, Dealloc(key)
    PROVE  NodeInv'
<1> DEFINE i == key \div Cap
           s == [sub EXCEPT ![i] = @ \cup {key % Cap}]
<1>1. CASE UNCHANGED <<bitset, sub>>
  BY <1>1 DEF NodeInv, SummaryRight
<1>2. CASE sub' = s /\ bitset' = bitset \cup {i}
  <2>1. i \in Subtrees
    BY SubtreeOf
  <2> HIDE DEF i
  <2>2. /\ DOMAIN s = Subtrees /\ s = [j \in Subtrees |-> s[j]]
        /\ s[i] # {} /\ \A j \in Subtrees : j # i => s[j] = sub[j]
    BY <2>1 DEF NodeInv
  <2> HIDE DEF s
  <2>3. bitset \cup {i} = {j \in Subtrees : s[j] # {}}
    BY <2>1, <2>2 DEF NodeInv, SummaryRight
  <2> QED
    BY <1>2, <2>2, <2>3 DEF NodeInv, SummaryRight
<1> QED
  BY <1>1, <1>2 DEF Dealloc

\* insert and the removal of a run refresh the bits of all subtrees they touch.
LEMMA RangeKeeps ==
    ASSUME NodeInv, NEW start, NEW end,
           sub' = Inserted(start, end) \/ sub' = Removed(start, end),
           bitset' = Summary(Touched(start, end), sub')
    PROVE  NodeInv'
<1>1. DOMAIN sub' = Subtrees /\ sub' = [j \in Subtrees |-> sub'[j]]
  BY DEF Inserted, Removed
<1>2. \A j \in Subtrees : j \notin Touched(start, end) => sub'[j] = sub[j]
  BY DEF Inserted, Removed
<1>3. Summary(Touched(start, end), sub') = {j \in Subtrees : sub'[j] # {}}
  BY <1>1, <1>2, SummaryKept
<1> QED
  BY <1>1, <1>3 DEF NodeInv, SummaryRight

------------------------------------------------------------------------------
(* find_contiguous. *)

\* A tail recursion that ends has a function: D are its arguments, rank a
\* number that goes down, stop the arguments that end it with value val, and
\* jump the next argument of the others.
Follows(f, D, stop, val, jump) ==
    \A x \in D : f[x] = IF x \in stop THEN val[x] ELSE f[jump[x]]

\* The function exists when rank goes down at every jump.
LEMMA TailRecursion ==
    ASSUME NEW D, NEW V, NEW bound \in Nat, NEW rank \in [D -> 0 .. bound],
           NEW stop \in SUBSET D, NEW val \in [D -> V], NEW jump,
           \A x \in D \ stop : jump[x] \in D /\ rank[jump[x]] < rank[x]
    PROVE  \E f \in [D -> V] : Follows(f, D, stop, val, jump)
<1> DEFINE Below(n) == {x \in D : rank[x] < n}
           Right(f, n) == \A x \in Below(n) :
                             f[x] = IF x \in stop THEN val[x] ELSE f[jump[x]]
           Good(n) == \E f \in [Below(n) -> V] : Right(f, n)
           Bad == {n \in Nat : ~Good(n)}
<1>1. Good(0)
  <2>1. Below(0) = {}
    OBVIOUS
  <2>2. [x \in Below(0) |-> val[x]] \in [Below(0) -> V]
    BY <2>1
  <2> QED BY <2>1, <2>2, Zenon
<1>2. ASSUME NEW n \in Nat, Good(n) PROVE Good(n + 1)
  <2>1. PICK g \in [Below(n) -> V] : Right(g, n)
    BY <1>2, Zenon
  <2> DEFINE f == [x \in Below(n + 1) |-> IF x \in stop THEN val[x] ELSE g[jump[x]]]
  <2>2. \A x \in Below(n + 1) \ stop : jump[x] \in Below(n)
    OBVIOUS
  <2>3. f \in [Below(n + 1) -> V]
    BY <2>2
  <2>4. \A x \in Below(n) : x \in Below(n + 1) /\ f[x] = g[x]
    BY <2>1
  <2>5. Right(f, n + 1)
    BY <2>2, <2>4, ZenonT(30)
  <2> QED BY <2>3, <2>5, Zenon
<1> HIDE DEF Good
<1>3. Bad = {}
  <2> SUFFICES ASSUME Bad # {} PROVE FALSE
    OBVIOUS
  <2>1. B!Lowest(Bad) \in Bad /\ \A q \in Bad : B!Lowest(Bad) <= q
    BY LowestFact, Zenon
  <2> DEFINE m == B!Lowest(Bad)
  <2>2. m \in Nat /\ ~Good(m)
    BY <2>1
  <2> HIDE DEF m
  <2>3. m # 0 /\ m - 1 \in Nat
    BY <1>1, <2>2
  <2>4. Good(m - 1)
    BY <2>1, <2>2, <2>3 DEF m
  <2>5. Good(m - 1 + 1)
    BY <1>2, <2>3, <2>4
  <2> QED BY <2>2, <2>5
<1>4. Good(bound + 1)
  BY <1>3
<1>5. Below(bound + 1) = D
  OBVIOUS
<1>6. PICK f \in [Below(bound + 1) -> V] : Right(f, bound + 1)
  BY <1>4 DEF Good
<1> HIDE DEF Below
<1> QED BY <1>5, <1>6 DEF Follows

\* next returns the first free bit from key on.
LEMMA NextFreeRight ==
    ASSUME BitmapInv, NEW key \in 0 .. Total - 1
    PROVE  LET from == {b \in Free : b >= key}
           IN  NextFree(key) = IF from = {} THEN B!None ELSE B!Lowest(from)
<1> DEFINE from(i) == IF i = key \div Cap THEN key - Cap * i ELSE 0
           in(i) == {k \in sub[i] : k >= from(i)}
           hits == {i \in key \div Cap .. Width - 1 : i \in bitset /\ in(i) # {}}
           later == {b \in Free : b >= key}
<1>1. /\ key \in Nat /\ key \div Cap \in Subtrees /\ key % Cap \in SubBits
      /\ key = (key \div Cap) * Cap + (key % Cap)
      /\ Cap \in Nat \ {0} /\ Width \in Nat \ {0}
  <2>1. key \in Nat
    OBVIOUS
  <2> QED BY <2>1, SubtreeOf, DivModCap, BitmapAssumption
<1>2. key - Cap * (key \div Cap) = key % Cap
  BY <1>1 DEF Subtrees, SubBits
<1>3. \A i \in hits : i \in Subtrees /\ in(i) \subseteq sub[i] /\ in(i) \subseteq Nat
  BY <1>1 DEF BitmapInv, BitmapTypeOK, Subtrees, SubBits
<1>4. ASSUME NEW i \in hits, NEW k \in in(i)
      PROVE  i * Cap + k \in later
  <2>1. i \in Subtrees /\ k \in SubBits /\ k \in sub[i]
    BY <1>3 DEF BitmapInv, BitmapTypeOK
  <2>2. i * Cap + k \in Free /\ i * Cap + k \in Nat
    BY <2>1, FreeBit, FreeNat, Zenon
  <2>3. (i * Cap + k) \div Cap = i /\ (i * Cap + k) % Cap = k
    BY <2>1, BitOf
  <2>4. (key \div Cap) * Cap + (key % Cap) <= i * Cap + k
    <3> DEFINE c == i * Cap + k
    <3>1. \/ key \div Cap < c \div Cap
          \/ key \div Cap = c \div Cap /\ key % Cap <= c % Cap
      BY <1>1, <1>2, <2>1, <2>3 DEF Subtrees, SubBits
    <3>2. key \div Cap \in Nat /\ key % Cap \in 0 .. Cap - 1 /\ c \in Nat
      BY <1>1, <2>2 DEF Subtrees, SubBits
    <3> HIDE DEF c
    <3>3. (key \div Cap) * Cap + (key % Cap) <= c
      BY <3>1, <3>2, BitsOrdered
    <3> QED BY <3>3 DEF c
  <2> QED BY <1>1, <2>2, <2>4
<1>5. ASSUME NEW b \in later
      PROVE  b \div Cap \in hits /\ b % Cap \in in(b \div Cap)
  <2>1. b \in 0 .. Total - 1 /\ b \in Nat /\ b >= key
    BY FreeNat
  <2>2. b \div Cap \in Subtrees /\ b % Cap \in sub[b \div Cap]
    BY <2>1, SubtreeOf DEF Free
  <2>3. b \div Cap \in bitset
    BY <2>2 DEF BitmapInv, SummaryRight
  <2>4. b = (b \div Cap) * Cap + (b % Cap) /\ b % Cap \in SubBits
    BY <2>1, DivModCap, SubtreeOf
  <2>5. key \div Cap <= b \div Cap
    <3> SUFFICES ASSUME b \div Cap < key \div Cap PROVE FALSE
      BY <1>1, <2>2 DEF Subtrees
    <3>0. b \div Cap \in Nat /\ b % Cap \in 0 .. Cap - 1 /\ key \in Nat
      BY <1>1, <2>2, <2>4 DEF Subtrees, SubBits
    <3>1. (b \div Cap) * Cap + (b % Cap) <= key
      BY <3>0, BitsOrdered
    <3>2. b = key
      BY <1>1, <2>1, <2>4, <3>1
    <3> QED BY <1>1, <2>2, <3>2 DEF Subtrees
  <2>6. b \div Cap = key \div Cap => key % Cap <= b % Cap
    <3> SUFFICES ASSUME b \div Cap = key \div Cap PROVE key % Cap <= b % Cap
      OBVIOUS
    <3> DEFINE c == (key \div Cap) * Cap
    <3>1. c \in Nat
      BY <1>1 DEF Subtrees
    <3>2. key = c + (key % Cap) /\ b = c + (b % Cap)
      BY <1>1, <2>4
    <3> HIDE DEF c
    <3> QED BY <1>1, <2>1, <2>4, <3>1, <3>2 DEF SubBits
  <2> DEFINE j == b \div Cap
  <2>7. j \in key \div Cap .. Width - 1
    BY <1>1, <2>2, <2>5 DEF Subtrees
  <2>8. b % Cap >= from(j)
    BY <1>2, <2>4, <2>6 DEF SubBits
  <2> QED BY <2>2, <2>3, <2>7, <2>8
<1>6. NextFree(key) = IF hits = {} THEN B!None
                      ELSE B!Lowest(in(B!Lowest(hits))) + Cap * B!Lowest(hits)
  BY DEF NextFree
<1>7. CASE hits = {}
  BY <1>5, <1>6, <1>7, Zenon
<1>8. CASE hits # {}
  <2> DEFINE i == B!Lowest(hits)
             k == B!Lowest(in(i))
  <2>1. i \in hits /\ \A j \in hits : i <= j
    <3>1. hits \subseteq Nat
      BY <1>3 DEF Subtrees
    <3> QED BY <1>8, <3>1, LowestFact, Zenon
  <2>2. k \in in(i) /\ \A l \in in(i) : k <= l
    <3>1. in(i) \subseteq Nat /\ in(i) # {}
      BY <1>3, <2>1, Zenon
    <3> QED BY <3>1, LowestFact, Zenon
  <2>3. i * Cap + k \in later
    BY <1>4, <2>1, <2>2, Zenon
  <2>4. i \in Subtrees /\ k \in SubBits
    BY <1>3, <2>1, <2>2, Zenon DEF BitmapInv, BitmapTypeOK
  <2>5. ASSUME NEW b \in later PROVE i * Cap + k <= b
    <3>1. b \div Cap \in hits /\ b % Cap \in in(b \div Cap) /\ b \in Nat
      BY <1>5, FreeNat
    <3>2. i <= b \div Cap /\ (i = b \div Cap => k <= b % Cap)
      BY <2>1, <2>2, <3>1, Zenon
    <3>3. b \div Cap \in Nat
      BY <1>3, <3>1 DEF Subtrees
    <3> HIDE DEF i, k
    <3>4. i \in Nat /\ k \in 0 .. Cap - 1
      BY <2>4 DEF Subtrees, SubBits
    <3>5. \/ i < b \div Cap
          \/ i = b \div Cap /\ k <= b % Cap
      BY <3>2, <3>3, <3>4
    <3> QED BY <3>1, <3>4, <3>5, BitsOrdered
  <2>6. later \subseteq Nat
    BY FreeNat, Zenon
  <2>7. B!Lowest(later) = i * Cap + k
    BY <2>3, <2>5, <2>6, LowestIs, Zenon
  <2>8. i * Cap + k = k + Cap * i
    <3> HIDE DEF i, k
    <3>1. i \in Nat /\ k \in Nat /\ Cap \in Nat
      BY <1>1, <2>4 DEF Subtrees, SubBits
    <3> QED BY <3>1
  <2> QED BY <1>6, <1>8, <2>3, <2>7, <2>8, Zenon
<1> QED BY <1>7, <1>8

\* The aligned place is the first multiple of align from next on.
LEMMA AlignedRight ==
    ASSUME NEW next \in Nat, next > 0, NEW align \in Nat, align > 0
    PROVE  /\ Aligned(next, align) \in next .. next + align - 1
           /\ Aligned(next, align) % align = 0
           /\ \A p \in Nat : p >= next /\ p % align = 0 => p >= Aligned(next, align)
<1> DEFINE q == (next - 1) \div align
           a == (q + 1) * align
<1>1. next - 1 \in Nat /\ q \in Nat
  OBVIOUS
<1>2. q * align <= next - 1 /\ next - 1 < q * align + align
  BY <1>1
<1>3. a = q * align + align /\ q * align \in Nat
  BY <1>1
<1>4. a \in next .. next + align - 1
  BY <1>1, <1>2, <1>3
<1>5. ASSUME NEW p \in Nat, p >= next, p % align = 0 PROVE p >= a
  <2> DEFINE r == p \div align
  <2>1. r \in Nat /\ p = r * align + (p % align)
    OBVIOUS
  <2>2. p = r * align
    <3>1. r * align \in Nat
      BY <2>1
    <3> HIDE DEF r
    <3> QED BY <1>5, <2>1, <3>1
  <2> HIDE DEF r, q
  <2>3. ~(r <= q)
    <3> SUFFICES ASSUME r <= q PROVE FALSE
      OBVIOUS
    <3>1. PICK d \in Nat : q = r + d
      <4>1. q - r \in Nat /\ q = r + (q - r)
        BY <1>1, <2>1
      <4> QED BY <4>1
    <3>2. q * align = r * align + d * align /\ d * align \in Nat
      BY <2>1, <3>1
    <3> QED BY <1>2, <1>3, <1>5, <2>2, <3>2
  <2>4. PICK d \in Nat : r = q + 1 + d
    <3>1. r - q - 1 \in Nat /\ r = q + 1 + (r - q - 1)
      BY <1>1, <2>1, <2>3
    <3> QED BY <3>1
  <2>5. r * align = a + d * align /\ d * align \in Nat
    BY <1>1, <1>3, <2>4
  <2> QED BY <1>3, <2>2, <2>5
<1>6. a % align = 0
  <2>1. a \in Nat /\ a % align \in 0 .. align - 1 /\ a = (a \div align) * align + (a % align)
        /\ a \div align \in Nat
    BY <1>1, <1>3
  <2> DEFINE r == a \div align
             m == a % align
  <2>2. r \in Nat /\ m \in 0 .. align - 1 /\ a = r * align + m
    BY <2>1
  <2> DEFINE t == q + 1
  <2>3. t \in Nat /\ a = t * align
    BY <1>1
  <2> HIDE DEF r, m, a, t
  <2>4. ~(t <= r) => FALSE
    <3> SUFFICES ASSUME ~(t <= r) PROVE FALSE
      OBVIOUS
    <3>1. PICK d \in Nat : t = r + 1 + d
      <4>1. t - r - 1 \in Nat /\ t = r + 1 + (t - r - 1)
        BY <2>2, <2>3
      <4> QED BY <4>1
    <3>2. t * align = r * align + align + d * align /\ d * align \in Nat /\ r * align \in Nat
      BY <2>2, <3>1
    <3> QED BY <2>2, <2>3, <3>2
  <2>5. PICK d \in Nat : r = t + d
    <3>1. r - t \in Nat /\ r = t + (r - t)
      BY <2>2, <2>3, <2>4
    <3> QED BY <3>1
  <2>6. r * align = t * align + d * align /\ d * align \in Nat /\ t * align \in Nat
    BY <2>3, <2>5
  <2>7. m = 0
    BY <2>2, <2>3, <2>6
  <2> QED BY <2>7 DEF m
<1>7. Aligned(next, align) = a
  BY DEF Aligned
<1> HIDE DEF a
<1> QED BY <1>4, <1>5, <1>6, <1>7

\* The arguments of the scan, and its function.
Cursor == 0 .. 2 * Total
IsScan(scan, size, align) ==
    scan = [at \in (0 .. 2 * Total) \X (0 .. 2 * Total) |->
            LET off == at[1]
                base   == at[2]
                next   == NextFree(off)
                new    == Aligned(next, align)
            IN  IF off >= Total THEN B!None
                ELSE IF next = B!None THEN B!None
                ELSE IF next # off THEN scan[<<new, new>>]
                ELSE IF off + 1 - base = size THEN base
                ELSE scan[<<off + 1, base>>]]

\* What next returns, in the scan.
LEMMA NextCases ==
    ASSUME BitmapInv, NEW o \in 0 .. Total - 1
    PROVE  \/ NextFree(o) = B!None /\ \A b \in Free : b < o
           \/ /\ NextFree(o) \in Free /\ NextFree(o) \in Nat /\ NextFree(o) >= o
              /\ NextFree(o) <= Total - 1
              /\ NextFree(o) # B!None
              /\ \A b \in Free : b < o \/ b >= NextFree(o)
<1> DEFINE from == {b \in Free : b >= o}
<1>1. Free \subseteq 0 .. Total - 1 /\ Free \subseteq Nat /\ from \subseteq Nat
      /\ o \in Nat /\ Total \in Nat
  <2>1. Total \in Nat
    BY BitmapAssumption DEF Total
  <2>2. Free \subseteq 0 .. Total - 1 /\ Free \subseteq Nat
    BY FreeNat
  <2>3. from \subseteq Nat
    BY <2>2, Zenon
  <2>4. o \in Nat
    BY <2>1
  <2> QED BY <2>1, <2>2, <2>3, <2>4
<1>2. CASE from = {}
  <2>1. NextFree(o) = B!None
    BY <1>2, NextFreeRight, Zenon
  <2> QED BY <1>1, <1>2, <2>1
<1>3. CASE from # {}
  <2>1. NextFree(o) = B!Lowest(from)
    BY <1>3, NextFreeRight
  <2>2. B!Lowest(from) \in from /\ \A q \in from : B!Lowest(from) <= q
    BY <1>1, <1>3, LowestFact
  <2> DEFINE n == NextFree(o)
  <2>3. n \in from /\ \A q \in from : n <= q
    BY <2>1, <2>2
  <2> HIDE DEF n
  <2>4. n \in Free /\ n >= o /\ n \in Nat /\ n <= Total - 1 /\ n # B!None
    BY <1>1, <2>3 DEF B!None
  <2>5. \A b \in Free : b < o \/ b >= n
    BY <1>1, <2>3, <2>4
  <2> QED BY <2>4, <2>5 DEF n
<1> QED BY <1>2, <1>3

\* The recursion of find_contiguous ends: the offset only grows.
LEMMA ScanExists ==
    ASSUME BitmapInv, NEW size \in Sizes, NEW align \in Aligns, align <= Total
    PROVE  \E scan : IsScan(scan, size, align)
<1> DEFINE D == Cursor \X Cursor
           V == Cursor \cup {B!None}
           N(x) == NextFree(x[1])
           A(x) == Aligned(N(x), align)
           stop == {x \in D : \/ x[1] >= Total \/ N(x) = B!None
                              \/ N(x) = x[1] /\ x[1] + 1 - x[2] = size}
           val == [x \in D |-> IF x[1] >= Total THEN B!None
                               ELSE IF N(x) = B!None THEN B!None ELSE x[2]]
           jump == [x \in D |-> IF N(x) # x[1] THEN <<A(x), A(x)>> ELSE <<x[1] + 1, x[2]>>]
           rank == [x \in D |-> 2 * Total - x[1]]
<1>1. Total \in Nat /\ align \in Nat /\ align > 0 /\ 2 * Total \in Nat
  BY BitmapAssumption DEF Total
<1>2. \A x \in D : x = <<x[1], x[2]>> /\ x[1] \in Cursor /\ x[2] \in Cursor
  OBVIOUS
<1>3. rank \in [D -> 0 .. 2 * Total] /\ val \in [D -> V] /\ stop \in SUBSET D
  BY <1>1, <1>2 DEF Cursor
<1>4. ASSUME NEW x \in D \ stop
      PROVE  jump[x] \in D /\ rank[jump[x]] < rank[x]
  <2> DEFINE o == x[1]
             b == x[2]
             n == NextFree(o)
             a == Aligned(n, align)
  <2>1. o \in 0 .. Total - 1 /\ o \in Cursor /\ b \in Cursor
    BY <1>1, <1>2 DEF Cursor
  <2>2. n # B!None
    OBVIOUS
  <2>3. n \in Nat /\ n >= o /\ n <= Total - 1
    BY <2>1, <2>2, NextCases
  <2>4. CASE n # o
    <3>1. n > 0
      BY <2>1, <2>3, <2>4
    <3>2. a \in n .. n + align - 1
      BY <1>1, <2>3, <3>1, AlignedRight, ZenonT(30)
    <3> HIDE DEF a, o, n
    <3>3. a \in Cursor /\ a > o
      BY <1>1, <2>1, <2>3, <2>4, <3>2 DEF Cursor
    <3>4. jump[x] = <<a, a>>
      BY <2>4 DEF a, o, n
    <3>5. jump[x] \in D /\ jump[x][1] = a
      BY <3>3, <3>4
    <3>6. rank[jump[x]] = 2 * Total - a /\ rank[x] = 2 * Total - o
      BY <3>5 DEF o
    <3> QED BY <1>1, <2>1, <3>3, <3>5, <3>6 DEF Cursor
  <2>5. CASE n = o
    <3> HIDE DEF o, b, n
    <3>1. o + 1 \in Cursor
      BY <1>1, <2>1 DEF Cursor
    <3>2. jump[x] = <<o + 1, b>>
      BY <2>5 DEF o, b, n
    <3>3. jump[x] \in D /\ jump[x][1] = o + 1
      BY <2>1, <3>1, <3>2
    <3>4. rank[jump[x]] = 2 * Total - (o + 1) /\ rank[x] = 2 * Total - o
      BY <3>3 DEF o
    <3> QED BY <1>1, <2>1, <3>3, <3>4 DEF Cursor
  <2> QED BY <2>4, <2>5
<1>5. PICK f \in [D -> V] :
         \A x \in D : f[x] = IF x \in stop THEN val[x] ELSE f[jump[x]]
  <2> DEFINE bound == 2 * Total
  <2>1. bound \in Nat /\ rank \in [D -> 0 .. bound]
    BY <1>1, <1>3
  <2>2. \A x \in D \ stop : jump[x] \in D /\ rank[jump[x]] < rank[x]
    BY <1>4, Zenon
  <2> HIDE DEF D, V, stop, val, jump, rank, bound
  <2>3. \E f \in [D -> V] : Follows(f, D, stop, val, jump)
    BY <1>3, <2>1, <2>2, TailRecursion, Zenon
  <2> QED BY <2>3 DEF Follows
<1>6. ASSUME NEW x \in D
      PROVE  f[x] = LET off == x[1]
                        base   == x[2]
                        next   == NextFree(off)
                        new    == Aligned(next, align)
                    IN  IF off >= Total THEN B!None
                        ELSE IF next = B!None THEN B!None
                        ELSE IF next # off THEN f[<<new, new>>]
                        ELSE IF off + 1 - base = size THEN base
                        ELSE f[<<off + 1, base>>]
  <2>2. f[x] = IF x \in stop THEN val[x] ELSE f[jump[x]]
    BY <1>5
  <2>3. x \in stop <=> \/ x[1] >= Total \/ NextFree(x[1]) = B!None
                       \/ NextFree(x[1]) = x[1] /\ x[1] + 1 - x[2] = size
    OBVIOUS
  <2>4. /\ val[x] = IF x[1] >= Total THEN B!None
                    ELSE IF NextFree(x[1]) = B!None THEN B!None ELSE x[2]
        /\ jump[x] = IF NextFree(x[1]) # x[1]
                     THEN <<Aligned(NextFree(x[1]), align), Aligned(NextFree(x[1]), align)>>
                     ELSE <<x[1] + 1, x[2]>>
    OBVIOUS
  <2> HIDE DEF stop, val, jump
  <2> QED BY <2>2, <2>3, <2>4
<1>8. IsScan(f, size, align)
  BY <1>5, <1>6 DEF IsScan, Cursor
<1> QED BY <1>8

\* find_contiguous returns the lowest aligned place of a free run, if there is
\* one: at every call of its recursion the bits from base to offset are free
\* and no place lies below base.
LEMMA FindRight ==
    ASSUME BitmapInv, NEW size \in Sizes, NEW align \in Aligns
    PROVE  FindContiguous(size, align)
             = IF B!Places(size, align) = {} THEN B!None ELSE B!Lowest(B!Places(size, align))
<1> DEFINE places == B!Places(size, align)
           answer == IF places = {} THEN B!None ELSE B!Lowest(places)
<1>1. /\ Total \in Nat /\ align \in Nat /\ align > 0 /\ size \in Nat /\ size > 0
      /\ Free \subseteq Nat
  <2>1. Total \in Nat /\ align \in Nat /\ align > 0 /\ size \in Nat /\ size > 0
    BY BitmapAssumption DEF Total
  <2> QED BY <2>1, FreeNat
<1>2. \A b \in Free : b \in 0 .. Total - 1
  BY FreeNat
<1>3. \A p : p \in places <=> /\ p \in 0 .. Total - 1 /\ align <= Total /\ p % align = 0
                              /\ \A b \in p .. p + size - 1 : b \in Free
  BY DEF B!Places
<1>4. places \subseteq Nat
  BY <1>1, <1>3
<1> HIDE DEF places
<1>5. CASE Total < align \/ bitset = {}
  <2>1. places = {}
    <3>1. CASE Total < align
      BY <1>1, <1>3, <3>1
    <3>2. CASE bitset = {}
      <4>1. Free = {}
        <5>1. \A i \in Subtrees : sub[i] = {}
          BY <3>2 DEF BitmapInv, SummaryRight
        <5> QED BY <5>1, SubtreeOf DEF Free
      <4>2. \A p \in places : p \in p .. p + size - 1
        BY <1>1, <1>4
      <4> QED BY <1>3, <4>1, <4>2
    <3> QED BY <1>5, <3>1, <3>2
  <2>2. FindContiguous(size, align) = B!None
    BY <1>5 DEF FindContiguous
  <2> QED BY <2>1, <2>2 DEF places
<1>6. CASE ~(Total < align \/ bitset = {})
  <2> DEFINE Scan == CHOOSE scan : IsScan(scan, size, align)
  <2>1. align <= Total /\ IsScan(Scan, size, align)
    <3>1. align <= Total
      BY <1>1, <1>6
    <3> QED BY <3>1, ScanExists
  <2>2. FindContiguous(size, align) = Scan[<<0, 0>>]
    BY <1>6 DEF FindContiguous, IsScan
  <2> HIDE DEF Scan
  <2>3. ASSUME NEW o \in Cursor, NEW b \in Cursor
        PROVE  Scan[<<o, b>>] =
                  IF o >= Total THEN B!None
                  ELSE IF NextFree(o) = B!None THEN B!None
                  ELSE IF NextFree(o) # o
                  THEN Scan[<<Aligned(NextFree(o), align), Aligned(NextFree(o), align)>>]
                  ELSE IF o + 1 - b = size THEN b
                  ELSE Scan[<<o + 1, b>>]
    BY <2>1, Zenon DEF IsScan, Cursor
  <2> DEFINE Held(o, b) == /\ b <= o /\ o < b + size /\ b % align = 0
                           /\ \A k \in b .. o - 1 : k \in Free
                           /\ \A p \in places : p >= b
             Good(r) == \A o, b \in Cursor :
                           r = 2 * Total - o /\ Held(o, b) => Scan[<<o, b>>] = answer
             Bad == {r \in Nat : ~Good(r)}
  <2>4. ASSUME NEW r \in Nat, \A s \in Nat : s < r => Good(s)
        PROVE  Good(r)
    <3> SUFFICES ASSUME NEW o \in Cursor, NEW b \in Cursor, r = 2 * Total - o, Held(o, b)
                 PROVE  Scan[<<o, b>>] = answer
      OBVIOUS
    <3>1. o \in Nat /\ b \in Nat
      BY <1>1 DEF Cursor
    <3>2. ASSUME NEW x \in Cursor, NEW y \in Cursor, x > o, Held(x, y)
          PROVE  Scan[<<x, y>>] = answer
      <4>1. 2 * Total - x \in Nat /\ 2 * Total - x < r
        BY <1>1, <3>1, <3>2 DEF Cursor
      <4>2. Good(2 * Total - x)
        BY <2>4, <4>1
      <4> QED BY <3>2, <4>2
    <3>3. \A p \in places : p >= b /\ p \in Nat /\ p + size - 1 \in Free /\ p + size - 1 >= o
      <4> SUFFICES ASSUME NEW p \in places
                   PROVE  p >= b /\ p \in Nat /\ p + size - 1 \in Free /\ p + size - 1 >= o
        OBVIOUS
      <4>1. p >= b /\ p \in Nat /\ o < b + size
        BY <1>4
      <4>2. p + size - 1 \in p .. p + size - 1 /\ p + size - 1 >= o
        BY <1>1, <3>1, <4>1
      <4> QED BY <1>3, <4>1, <4>2
    <3>4. CASE o >= Total
      <4>1. places = {}
        BY <1>1, <1>2, <3>1, <3>3, <3>4
      <4> QED BY <2>3, <3>4, <4>1, Zenon
    <3>5. CASE ~(o >= Total) /\ NextFree(o) = B!None
      <4>1. o \in 0 .. Total - 1
        BY <1>1, <3>1, <3>5
      <4>2. \A k \in Free : k < o
        BY <3>5, <4>1, NextCases
      <4>3. places = {}
        BY <1>1, <3>1, <3>3, <4>2
      <4> QED BY <2>3, <3>5, <4>3, Zenon
    <3>6. CASE ~(o >= Total) /\ NextFree(o) # B!None
      <4> DEFINE n == NextFree(o)
                 a == Aligned(n, align)
      <4>1. o \in 0 .. Total - 1
        BY <1>1, <3>1, <3>6
      <4>2. /\ n \in Free /\ n \in Nat /\ n >= o /\ n <= Total - 1
            /\ \A k \in Free : k < o \/ k >= n
        BY <3>6, <4>1, NextCases
      <4>3. CASE n # o
        <5>1. n > o /\ n > 0
          BY <3>1, <4>2, <4>3
        <5>2. /\ a \in n .. n + align - 1 /\ a % align = 0
              /\ \A p \in Nat : p >= n /\ p % align = 0 => p >= a
          BY <1>1, <4>2, <5>1, AlignedRight, Zenon
        <5> HIDE DEF n, a
        <5>3. a \in Cursor /\ a > o /\ a \in Nat
          BY <1>1, <2>1, <3>1, <4>2, <5>1, <5>2 DEF Cursor
        <5>4. o \notin Free
          BY <3>1, <4>2, <5>1
        <5>5. \A p \in places : p >= a
          <6> SUFFICES ASSUME NEW p \in places PROVE p >= a
            OBVIOUS
          <6>1. p \in Nat /\ p + size - 1 >= o /\ p % align = 0
                /\ \A k \in p .. p + size - 1 : k \in Free
            BY <1>3, <3>3
          <6>2. p > o
            <7>1. p <= o => o \in p .. p + size - 1
              BY <1>1, <3>1, <6>1
            <7> QED BY <3>1, <5>4, <6>1, <7>1
          <6>3. p \in Free
            BY <1>1, <6>1
          <6>4. p >= n
            BY <3>1, <4>2, <6>1, <6>2, <6>3
          <6> QED BY <5>2, <6>1, <6>4
        <5>6. Held(a, a)
          <6>1. a <= a /\ a < a + size /\ \A k \in a .. a - 1 : k \in Free
            BY <1>1, <5>3
          <6> QED BY <5>2, <5>5, <6>1
        <5>7. Scan[<<a, a>>] = answer
          BY <3>2, <5>3, <5>6
        <5> QED BY <2>3, <3>6, <4>3, <5>7, Zenon DEF a, n
      <4>4. CASE n = o /\ o + 1 - b = size
        <5> HIDE DEF n
        <5>1. b + size - 1 = o /\ b \in 0 .. Total - 1
          BY <1>1, <3>1, <4>1, <4>4
        <5>2. \A k \in b .. b + size - 1 : k \in Free
          <6>1. \A k \in b .. o : k = o \/ k \in b .. o - 1
            BY <3>1
          <6> QED BY <4>2, <4>4, <5>1, <6>1
        <5>3. b \in places
          BY <1>3, <2>1, <5>1, <5>2
        <5>4. B!Lowest(places) = b
          BY <1>4, <5>3, LowestIs, Zenon
        <5>5. Scan[<<o, b>>] = b
          BY <2>3, <3>6, <4>4, Zenon DEF n
        <5> QED BY <5>3, <5>4, <5>5
      <4>5. CASE n = o /\ o + 1 - b # size
        <5> HIDE DEF n
        <5>1. o + 1 \in Cursor /\ o + 1 > o
          BY <1>1, <4>1 DEF Cursor
        <5>2. Held(o + 1, b)
          <6>1. b <= o + 1 /\ o + 1 < b + size
            BY <1>1, <3>1, <4>5
          <6>2. \A k \in b .. (o + 1) - 1 : k = o \/ k \in b .. o - 1
            BY <3>1
          <6>3. \A k \in b .. (o + 1) - 1 : k \in Free
            BY <4>2, <4>5, <6>2
          <6>4. b % align = 0 /\ \A p \in places : p >= b
            OBVIOUS
          <6> HIDE DEF places
          <6> QED BY ONLY <6>1, <6>3, <6>4
        <5>3. Scan[<<o + 1, b>>] = answer
          BY <3>2, <5>1, <5>2
        <5> QED BY <2>3, <3>6, <4>5, <5>3, Zenon DEF n
      <4> QED BY <4>3, <4>4, <4>5
    <3> QED BY <3>4, <3>5, <3>6
  <2> HIDE DEF Good
  <2>5. Bad = {}
    <3> SUFFICES ASSUME Bad # {} PROVE FALSE
      OBVIOUS
    <3>1. B!Lowest(Bad) \in Bad /\ \A q \in Bad : B!Lowest(Bad) <= q
      BY LowestFact
    <3> DEFINE m == B!Lowest(Bad)
    <3>2. m \in Nat /\ ~Good(m) /\ \A q \in Bad : m <= q
      BY <3>1
    <3> HIDE DEF m
    <3>3. \A s \in Nat : s < m => Good(s)
      BY <3>2
    <3> QED BY <2>4, <3>2, <3>3
  <2>6. 0 \in Cursor /\ 2 * Total \in Nat /\ 2 * Total - 0 = 2 * Total
    BY <1>1 DEF Cursor
  <2>7. Held(0, 0)
    <3>1. 0 % align = 0 /\ 0 < 0 + size
      BY <1>1
    <3>2. \A p \in places : p >= 0
      BY <1>4
    <3> QED BY <3>1, <3>2
  <2>8. Good(2 * Total)
    BY <2>5, <2>6
  <2>9. Scan[<<0, 0>>] = answer
    BY <2>6, <2>7, <2>8 DEF Good
  <2> QED BY <2>2, <2>9 DEF places
<1> QED BY <1>5, <1>6

------------------------------------------------------------------------------
(* The calls. *)

\* The node invariant is part of the inductive one.
LEMMA InvNode == BitmapInv => NodeInv
  BY DEF BitmapInv, BitmapTypeOK, NodeInv

\* Nothing is free under a summary with no mark.
LEMMA NoneFree == BitmapInv /\ bitset = {} => Free = {}
<1> SUFFICES ASSUME BitmapInv, bitset = {} PROVE Free = {}
  OBVIOUS
<1>1. \A i \in Subtrees : sub[i] = {}
  BY DEF BitmapInv, SummaryRight
<1> QED BY <1>1, SubtreeOf DEF Free

\* The first bit of the first marked subtree is the lowest free bit.
LEMMA LowestFree ==
    ASSUME BitmapInv, bitset # {}
    PROVE  LET i == B!Lowest(bitset)
               k == B!Lowest(sub[i])
           IN  /\ i \in Subtrees /\ k \in SubBits /\ k \in sub[i]
               /\ k + i * Cap = i * Cap + k
               /\ i * Cap + k \in Free /\ B!Lowest(Free) = i * Cap + k
<1> DEFINE i == B!Lowest(bitset)
           k == B!Lowest(sub[i])
<1>1. bitset \subseteq Nat /\ bitset \subseteq Subtrees /\ SubBits \subseteq Nat
  BY BitmapAssumption DEF BitmapInv, BitmapTypeOK, Subtrees, SubBits
<1>2. i \in bitset /\ \A j \in bitset : i <= j
  BY <1>1, LowestFact, Zenon
<1>3. i \in Subtrees /\ sub[i] # {} /\ sub[i] \subseteq SubBits
  BY <1>1, <1>2, Zenon DEF BitmapInv, BitmapTypeOK, SummaryRight
<1>4. k \in sub[i] /\ \A h \in sub[i] : k <= h
  BY <1>1, <1>3, LowestFact, Zenon
<1> HIDE DEF i, k
<1>5. k \in SubBits /\ i \in Nat /\ k \in Nat /\ k \in 0 .. Cap - 1 /\ Cap \in Nat
  BY <1>1, <1>3, <1>4, BitmapAssumption DEF SubBits, Subtrees
<1>6. i * Cap + k \in Free
  BY <1>3, <1>4, <1>5, FreeBit
<1>7. ASSUME NEW b \in Free PROVE i * Cap + k <= b
  <2>1. b \in 0 .. Total - 1 /\ b \in Nat /\ b % Cap \in sub[b \div Cap]
    BY FreeNat DEF Free
  <2>2. b \div Cap \in Subtrees
    BY <2>1, SubtreeOf
  <2>3. b \div Cap \in bitset
    BY <2>1, <2>2 DEF BitmapInv, SummaryRight
  <2>4. i <= b \div Cap /\ b \div Cap \in Nat
    BY <1>1, <1>2, <2>3, Zenon
  <2>5. i = b \div Cap => k <= b % Cap
    BY <1>4, <2>1
  <2>6. i < b \div Cap \/ (i = b \div Cap /\ k <= b % Cap)
    BY <1>5, <2>4, <2>5
  <2> QED BY <1>5, <2>1, <2>6, BitsOrdered
<1>8. B!Lowest(Free) = i * Cap + k
  BY <1>6, <1>7, FreeNat, LowestIs, Zenon
<1>9. k + i * Cap = i * Cap + k
  <2>1. i * Cap \in Nat
    BY <1>5
  <2> QED BY <1>5, <2>1
<1> QED BY <1>3, <1>4, <1>5, <1>6, <1>8, <1>9 DEF i, k

\* Two bits are the same when their subtrees and their places there are.
LEMMA SameBit ==
    ASSUME NEW b \in 0 .. Total - 1, NEW i \in Subtrees, NEW k \in SubBits
    PROVE  b = i * Cap + k <=> b \div Cap = i /\ b % Cap = k
<1>1. b \in Nat
  OBVIOUS
<1>2. b = (b \div Cap) * Cap + (b % Cap)
  BY <1>1, DivModCap
<1> QED BY <1>2, BitOf

\* alloc takes the lowest free bit of the tree.
LEMMA AllocStep ==
    ASSUME BitmapInv, Alloc
    PROVE  BitmapInv' /\ B!PromiseNext
<1>1. CASE bitset = {}
  <2>1. Free = {} /\ Free' = Free /\ UNCHANGED <<bitset, sub, owned, failed>>
        /\ ret' = B!None /\ call' = <<"alloc">>
    BY <1>1, NoneFree DEF Alloc, Free
  <2>2. B!PromiseNext
    BY <2>1 DEF B!PromiseNext, B!PromiseAlloc
  <2>3. BitmapInv'
    BY <2>1 DEF BitmapInv, BitmapTypeOK, SummaryRight, B!None
  <2> QED BY <2>2, <2>3
<1>2. CASE bitset # {}
  <2> DEFINE i == B!Lowest(bitset)
             k == B!Lowest(sub[i])
             bit == i * Cap + k
  <2>1. /\ i \in Subtrees /\ k \in SubBits /\ k \in sub[i] /\ k + i * Cap = bit
        /\ bit \in Free /\ B!Lowest(Free) = bit
    BY <1>2, LowestFree
  <2>2. sub[i] # {}
    BY <2>1
  <2>3. /\ sub' = [sub EXCEPT ![i] = @ \ {k}]
        /\ ret' = bit /\ call' = <<"alloc">> /\ owned' = owned \cup {bit} /\ failed' = failed
    BY <1>2, <2>1, <2>2 DEF Alloc
  <2> HIDE DEF i, k
  <2>4. sub \in [Subtrees -> SUBSET SubBits]
    BY DEF BitmapInv, BitmapTypeOK
  <2>5. sub' \in [Subtrees -> SUBSET SubBits]
    BY <2>1, <2>3, <2>4
  <2>6. \A b \in 0 .. Total - 1 :
           b % Cap \in sub'[b \div Cap] <=> b % Cap \in sub[b \div Cap] /\ b # bit
    <3> SUFFICES ASSUME NEW b \in 0 .. Total - 1
                 PROVE  b % Cap \in sub'[b \div Cap]
                          <=> b % Cap \in sub[b \div Cap] /\ b # bit
      OBVIOUS
    <3>1. b \div Cap \in Subtrees /\ (b = bit <=> b \div Cap = i /\ b % Cap = k)
      BY <2>1, SubtreeOf, SameBit
    <3> HIDE DEF bit
    <3> QED BY <2>1, <2>3, <2>4, <3>1
  <2>7. Free' = Free \ {bit}
    BY <2>6 DEF Free
  <2>8. B!PromiseNext
    BY <2>1, <2>3, <2>7 DEF B!PromiseNext, B!PromiseAlloc
  <2>9. NodeInv'
    BY InvNode, AllocKeeps
  <2>10. bit \in 0 .. Total - 1 /\ bit \in Int
    <3>1. bit \in Free
      BY <2>1
    <3> HIDE DEF bit
    <3> QED BY <3>1, FreeNat
  <2> HIDE DEF bit
  <2>11. owned' \cap Free' = {} /\ owned' \subseteq 0 .. Total - 1
    BY <2>3, <2>7, <2>10 DEF BitmapInv, BitmapTypeOK
  <2>12. bitset' \subseteq Subtrees /\ SummaryRight'
    BY <2>9 DEF NodeInv, SummaryRight
  <2>13. BitmapInv'
    BY <2>3, <2>5, <2>10, <2>11, <2>12 DEF BitmapInv, BitmapTypeOK
  <2> QED BY <2>8, <2>13
<1> QED BY <1>1, <1>2

\* dealloc gives back a bit that is not free, so the assert of the leaf holds.
LEMMA DeallocStep ==
    ASSUME BitmapInv, NEW key \in 0 .. Total - 1, Dealloc(key)
    PROVE  BitmapInv' /\ B!PromiseNext
<1> DEFINE i == key \div Cap
           k == key % Cap
<1>1. i \in Subtrees /\ k \in SubBits /\ key = i * Cap + k
  <2>1. key \in Nat
    OBVIOUS
  <2> QED BY <2>1, SubtreeOf, DivModCap
<1>2. key \in owned /\ key \notin Free
  BY DEF Dealloc, BitmapInv
<1>3. k \notin sub[i]
  BY <1>2 DEF Free
<1>4. /\ sub' = [sub EXCEPT ![i] = @ \cup {k}] /\ ret' = B!None
      /\ call' = <<"dealloc", key>> /\ owned' = owned \ {key} /\ failed' = failed
  BY <1>3 DEF Dealloc
<1> HIDE DEF i, k
<1>5. sub \in [Subtrees -> SUBSET SubBits]
  BY DEF BitmapInv, BitmapTypeOK
<1>6. sub' \in [Subtrees -> SUBSET SubBits]
  BY <1>1, <1>4, <1>5
<1>7. \A b \in 0 .. Total - 1 :
         b % Cap \in sub'[b \div Cap] <=> b % Cap \in sub[b \div Cap] \/ b = key
  <2> SUFFICES ASSUME NEW b \in 0 .. Total - 1
               PROVE  b % Cap \in sub'[b \div Cap]
                        <=> b % Cap \in sub[b \div Cap] \/ b = key
    OBVIOUS
  <2>1. b \div Cap \in Subtrees /\ (b = key <=> b \div Cap = i /\ b % Cap = k)
    BY <1>1, SubtreeOf, SameBit
  <2> QED BY <1>1, <1>4, <1>5, <2>1
<1>8. Free' = Free \cup {key}
  BY <1>7 DEF Free
<1>9. B!PromiseNext
  BY <1>2, <1>4, <1>8 DEF B!PromiseNext, B!PromiseDealloc
<1>10. NodeInv'
  BY InvNode, DeallocKeeps
<1>11. bitset' \subseteq Subtrees /\ SummaryRight'
  BY <1>10 DEF NodeInv, SummaryRight
<1>12. BitmapInv'
  BY <1>4, <1>6, <1>8, <1>11 DEF BitmapInv, BitmapTypeOK, B!None
<1> QED BY <1>9, <1>12

\* What insert and remove make of the bits: they reach every bit of the range
\* and no other, whether or not it ends with a subtree.
LEMMA RangeStep ==
    ASSUME BitmapTypeOK, NEW start \in 0 .. Total, NEW end \in 0 .. Total, start < end
    PROVE  /\ Inserted(start, end) \in [Subtrees -> SUBSET SubBits]
           /\ Removed(start, end) \in [Subtrees -> SUBSET SubBits]
           /\ sub' = Inserted(start, end) => Free' = Free \cup (start .. end - 1)
           /\ sub' = Removed(start, end) => Free' = Free \ (start .. end - 1)
<1>1. /\ start \in Nat /\ end \in Nat /\ Cap \in Nat \ {0} /\ Total \in Nat
      /\ sub \in [Subtrees -> SUBSET SubBits]
  BY BitmapAssumption DEF BitmapTypeOK, Total
<1>2. \A i \in Subtrees : PartOf(i, start, end) \subseteq SubBits
  BY <1>1, DivModCap DEF PartOf, SubBits
<1>3. \A b \in 0 .. Total - 1 :
         /\ b \div Cap \in Subtrees
         /\ b \in start .. end - 1 <=> /\ b \div Cap \in Touched(start, end)
                                      /\ b % Cap \in PartOf(b \div Cap, start, end)
  <2> SUFFICES ASSUME NEW b \in 0 .. Total - 1
               PROVE  /\ b \div Cap \in Subtrees
                      /\ b \in start .. end - 1
                           <=> /\ b \div Cap \in Touched(start, end)
                               /\ b % Cap \in PartOf(b \div Cap, start, end)
    OBVIOUS
  <2>1. b \in Nat /\ b \div Cap \in Subtrees
    BY SubtreeOf
  <2> QED BY <1>1, <2>1, RangeParts, Zenon
<1>4. start .. end - 1 \subseteq 0 .. Total - 1
  BY <1>1
<1>5. ASSUME sub' = Inserted(start, end) PROVE Free' = Free \cup (start .. end - 1)
  <2>1. \A b \in 0 .. Total - 1 :
           b % Cap \in sub'[b \div Cap] <=> b % Cap \in sub[b \div Cap] \/ b \in start .. end - 1
    BY <1>3, <1>5 DEF Inserted
  <2>2. Free' = {b \in 0 .. Total - 1 : b % Cap \in sub[b \div Cap] \/ b \in start .. end - 1}
    BY <2>1 DEF Free
  <2> QED BY <1>4, <2>2 DEF Free
<1>6. ASSUME sub' = Removed(start, end) PROVE Free' = Free \ (start .. end - 1)
  <2>1. \A b \in 0 .. Total - 1 :
           b % Cap \in sub'[b \div Cap] <=> b % Cap \in sub[b \div Cap] /\ b \notin start .. end - 1
    BY <1>3, <1>6 DEF Removed
  <2>2. Free' = {b \in 0 .. Total - 1 : b % Cap \in sub[b \div Cap] /\ b \notin start .. end - 1}
    BY <2>1 DEF Free
  <2> QED BY <2>2 DEF Free
<1> QED BY <1>1, <1>2, <1>5, <1>6 DEF Inserted, Removed

\* insert frees the range the caller manages.
LEMMA InsertStep ==
    ASSUME BitmapInv, NEW start \in 0 .. Total, NEW end \in 0 .. Total, start < end,
           Insert(start, end)
    PROVE  BitmapInv' /\ B!PromiseNext
<1>1. /\ call' = <<"insert", start, end>> /\ sub' = Inserted(start, end) /\ ret' = B!None
      /\ owned = {} /\ owned' = owned /\ failed' = failed
      /\ bitset' = Summary(Touched(start, end), sub')
  BY DEF Insert
<1>2. /\ Free' = Free \cup (start .. end - 1)
      /\ sub' \in [Subtrees -> SUBSET SubBits]
  BY <1>1, RangeStep DEF BitmapInv
<1>3. B!PromiseNext
  BY <1>1, <1>2 DEF B!PromiseNext, B!PromiseInsert
<1>4. bitset' \subseteq Subtrees /\ SummaryRight'
  BY <1>1, InvNode, RangeKeeps DEF NodeInv, SummaryRight
<1>5. BitmapInv'
  BY <1>1, <1>2, <1>4 DEF BitmapInv, BitmapTypeOK, B!None
<1> QED BY <1>3, <1>5

\* alloc_contiguous takes the lowest aligned run, and its assert holds.
LEMMA ContiguousStep ==
    ASSUME BitmapInv, NEW size \in Sizes, NEW align \in Aligns, AllocContiguous(size, align)
    PROVE  BitmapInv' /\ B!PromiseNext
<1> DEFINE found == FindContiguous(size, align)
           places == B!Places(size, align)
<1>1. size \in Nat /\ size > 0 /\ Total \in Nat
  BY BitmapAssumption DEF Total
<1>2. found = IF places = {} THEN B!None ELSE B!Lowest(places)
  BY FindRight
<1>3. call' = <<"alloc_contiguous", size, align>> /\ ret' = found
  BY DEF AllocContiguous
<1>4. CASE places = {}
  <2>1. found = B!None /\ UNCHANGED <<bitset, sub, owned, failed>> /\ Free' = Free
    BY <1>2, <1>4 DEF AllocContiguous, Free
  <2>2. B!PromiseNext
    BY <1>3, <1>4, <2>1 DEF B!PromiseNext, B!PromiseAllocContiguous
  <2>3. BitmapInv'
    BY <1>3, <2>1 DEF BitmapInv, BitmapTypeOK, SummaryRight, B!None
  <2> QED BY <2>2, <2>3, ZenonT(30)
<1>5. CASE places # {}
  <2>1. places \subseteq Nat
    BY <1>1 DEF B!Places
  <2>2. found \in places
    BY <1>2, <1>5, <2>1, LowestFact
  <2>3. found \in 0 .. Total - 1 /\ found .. found + size - 1 \subseteq Free
    BY <2>2 DEF B!Places
  <2> HIDE DEF found, places
  <2>4. /\ found + size - 1 \in Free /\ found + size - 1 <= Total - 1
        /\ found # B!None /\ found \in Nat
    <3>1. found \in Nat /\ found + size - 1 \in found .. found + size - 1
      BY <1>1, <2>3
    <3> QED BY <2>3, <3>1, FreeNat DEF B!None
  <2>5. found + size \in 0 .. Total /\ found < found + size /\ found \in 0 .. Total
        /\ ~(found + size > Total) /\ (found + size) - 1 = found + size - 1
    BY <1>1, <2>3, <2>4
  <2>6. /\ sub' = Removed(found, found + size) /\ failed' = failed
        /\ bitset' = Summary(Touched(found, found + size), sub')
        /\ owned' = owned \cup (found .. found + size - 1)
    BY <2>4, <2>5 DEF AllocContiguous, found
  <2>7. /\ Free' = Free \ (found .. found + size - 1)
        /\ sub' \in [Subtrees -> SUBSET SubBits]
    BY <2>5, <2>6, RangeStep DEF BitmapInv
  <2>8. B!PromiseNext
    BY <1>2, <1>3, <1>5, <2>7 DEF B!PromiseNext, B!PromiseAllocContiguous, places
  <2>9. bitset' \subseteq Subtrees /\ SummaryRight'
    BY <2>6, InvNode, RangeKeeps, Zenon DEF NodeInv, SummaryRight
  <2>10. owned' \subseteq 0 .. Total - 1 /\ owned' \cap Free' = {}
    BY <2>3, <2>6, <2>7, FreeNat, Zenon DEF BitmapInv, BitmapTypeOK
  <2>11. BitmapInv'
    BY <1>3, <2>4, <2>6, <2>7, <2>9, <2>10 DEF BitmapInv, BitmapTypeOK
  <2> QED BY <2>8, <2>11
<1> QED BY <1>4, <1>5

\* A new node has no free bit, in the tree and in the flat set.
LEMMA BitmapStart == BitmapInit => BitmapInv /\ B!PromiseInit
<1> SUFFICES ASSUME BitmapInit PROVE BitmapInv /\ B!PromiseInit
  OBVIOUS
<1>1. Free = {}
  BY SubtreeOf DEF BitmapInit, Free
<1>2. B!PromiseInit
  BY <1>1 DEF BitmapInit, B!PromiseInit
<1>3. BitmapTypeOK /\ SummaryRight
  <2>1. bitset \subseteq Subtrees /\ sub \in [Subtrees -> SUBSET SubBits]
        /\ ret \in Int /\ owned \subseteq 0 .. Total - 1 /\ SummaryRight
    BY DEF BitmapInit, SummaryRight, B!None
  <2>2. failed \in BOOLEAN
    BY Zenon DEF BitmapInit
  <2> QED BY <2>1, <2>2 DEF BitmapTypeOK
<1> QED BY <1>1, <1>2, <1>3 DEF BitmapInit, BitmapInv

\* Every call keeps the invariant and is a call of the flat set.
LEMMA BitmapStep ==
    ASSUME BitmapInv, [BitmapNext]_bitmapVars
    PROVE  BitmapInv' /\ [B!PromiseNext]_<<Free, call, ret>>
<1>1. CASE UNCHANGED bitmapVars
  <2>1. Free' = Free
    BY <1>1 DEF bitmapVars, Free
  <2> QED BY <1>1, <2>1 DEF bitmapVars, BitmapInv, BitmapTypeOK, SummaryRight
<1>2. CASE BitmapNext
  BY <1>2, AllocStep, DeallocStep, InsertStep, ContiguousStep DEF BitmapNext
<1> QED BY <1>1, <1>2

\* A bit that is handed out is not free, a bit of the tree belongs to one
\* subtree, and no assert!, unwrap or index of the node panics.
THEOREM NeverPanics == BitmapSpec => [](BitmapTypeOK /\ ~failed)
<1>1. BitmapInit => BitmapInv
  BY BitmapStart
<1>2. BitmapInv /\ [BitmapNext]_bitmapVars => BitmapInv'
  BY BitmapStep
<1>3. BitmapInv => BitmapTypeOK /\ ~failed
  BY DEF BitmapInv
<1> QED BY <1>1, <1>2, <1>3, PTL DEF BitmapSpec

\* The tree of words does what the trait promises of a flat set of bits.
THEOREM PromiseKept == BitmapSpec => KeepsPromise
<1>1. BitmapInit => BitmapInv /\ B!PromiseInit
  BY BitmapStart
<1>2. BitmapInv /\ [BitmapNext]_bitmapVars => BitmapInv' /\ [B!PromiseNext]_<<Free, call, ret>>
  BY BitmapStep
<1> QED BY <1>1, <1>2, PTL DEF BitmapSpec, KeepsPromise, B!Promise

\* After any sequence of insert, alloc, dealloc and alloc_contiguous the summary
\* word marks exactly the subtrees that have a free bit, so alloc, which asks
\* the first marked subtree and unwraps the answer, finds one there.
THEOREM SummaryCorrect == BitmapSpec => []SummaryRight
<1>1. BitmapInit => NodeInv
  BY DEF BitmapInit, NodeInv, SummaryRight
<1>2. NodeInv /\ [BitmapNext]_bitmapVars => NodeInv'
  <2> SUFFICES ASSUME NodeInv, [BitmapNext]_bitmapVars PROVE NodeInv'
    OBVIOUS
  <2>1. CASE UNCHANGED bitmapVars
    BY <2>1 DEF bitmapVars, NodeInv, SummaryRight
  <2>2. CASE \E start, end \in 0 .. Total : start < end /\ Insert(start, end)
    BY <2>2, RangeKeeps DEF Insert
  <2>3. ASSUME NEW size \in Sizes, NEW align \in Aligns, AllocContiguous(size, align)
        PROVE  NodeInv'
    <3> DEFINE found == FindContiguous(size, align)
    <3>1. CASE UNCHANGED <<bitset, sub>>
      BY <3>1 DEF NodeInv, SummaryRight
    <3>2. CASE /\ sub' = Removed(found, found + size)
               /\ bitset' = Summary(Touched(found, found + size), sub')
      BY <3>2, RangeKeeps
    <3> QED
      BY <2>3, <3>1, <3>2 DEF AllocContiguous
  <2> QED
    BY <2>1, <2>2, <2>3, AllocKeeps, DeallocKeeps DEF BitmapNext
<1>3. NodeInv => SummaryRight
  BY DEF NodeInv
<1> QED
  BY <1>1, <1>2, <1>3, PTL DEF BitmapSpec

(********************************* the disk **********************************)
Device == [0 .. Size - 1 -> Byte]

\* The call under way is well formed: its buffer is as long as it says.
JobInv ==
    /\ job \in [op : {"none", "read", "write"}, len : Nat, buf : {job.buf},
                done : Nat, start : Nat, before : Device]
    /\ job.done <= job.len
    /\ job.op # "none" => job.buf \in [0 .. job.len - 1 -> Byte]

CursorInv ==
    /\ block_id \in Nat
    /\ offset \in 0 .. SectorSize - 1
    /\ bytes \in Device
    /\ broken \in BOOLEAN

\* The inductive invariant.
DiskIInv == CursorInv /\ JobInv /\ TransferRight

\* A sector of the device lies inside it.
LEMMA InSector ==
    ASSUME CursorInv, InRange
    PROVE  /\ block_id * SectorSize \in Nat
           /\ block_id * SectorSize + SectorSize <= Size
<1>1. block_id \in Nat /\ Sectors \in Nat /\ SectorSize \in Nat
  BY DiskAssumption DEF CursorInv
<1>2. PICK d \in Nat : Sectors = block_id + 1 + d
  <2>1. Sectors - block_id - 1 \in Nat
    BY <1>1 DEF InRange
  <2>2. Sectors = block_id + 1 + (Sectors - block_id - 1)
    BY <1>1
  <2> QED
    BY <2>1, <2>2
<1>3. Size = block_id * SectorSize + SectorSize + d * SectorSize
  BY <1>1, <1>2 DEF Size
<1>4. block_id * SectorSize \in Nat /\ d * SectorSize \in Nat
  BY <1>1, <1>2
<1> QED
  BY <1>1, <1>3, <1>4

\* The bytes of a call up to the cursor, and those of its next pass.
LEMMA Span ==
    ASSUME NEW s \in Nat, NEW d \in Nat, NEW c \in Nat, NEW p \in Nat
    PROVE  /\ p \in s .. s + (d + c) - 1 <=> \/ p \in s + d .. s + d + c - 1
                                            \/ p \in s .. s + d - 1
           /\ p \in s + d .. s + d + c - 1 => p - s \in 0 .. d + c - 1
OBVIOUS

\* One pass of the loop moves at least one byte, stays in the sector, and
\* leaves the cursor that many bytes further and inside a sector.
LEMMA AdvanceFacts ==
    ASSUME CursorInv, JobInv, job.done < job.len
    PROVE  /\ Count \in 1 .. SectorSize - offset
           /\ job.done + Count <= job.len
           /\ Advance => /\ block_id' \in Nat
                         /\ offset' \in 0 .. SectorSize - 1
                         /\ position' = position + Count
<1>1. /\ SectorSize \in Nat \ {0} /\ block_id \in Nat /\ offset \in 0 .. SectorSize - 1
      /\ job.len \in Nat /\ job.done \in Nat
  BY DiskAssumption DEF CursorInv, JobInv
<1>2. Count \in 1 .. SectorSize - offset /\ job.done + Count <= job.len
  BY <1>1 DEF Count
<1>3. ASSUME Advance
      PROVE  /\ block_id' \in Nat /\ offset' \in 0 .. SectorSize - 1
             /\ position' = position + Count
  <2>1. (block_id + 1) * SectorSize = block_id * SectorSize + SectorSize
    BY <1>1
  <2>2. CASE Whole
    <3>1. block_id' = block_id + 1 /\ offset' = 0 /\ offset = 0
      BY <1>3, <2>2 DEF Advance, Whole
    <3>2. Count = SectorSize
      BY <1>1, <2>2 DEF Count, Whole
    <3> QED
      BY <1>1, <2>1, <3>1, <3>2 DEF position
  <2>3. CASE ~Whole /\ offset + Count >= SectorSize
    <3>1. block_id' = block_id + 1 /\ offset' = offset + Count - SectorSize
      BY <1>3, <2>3 DEF Advance
    <3>2. offset + Count = SectorSize
      BY <1>1, <1>2, <2>3
    <3> QED
      BY <1>1, <1>2, <2>1, <3>1, <3>2 DEF position
  <2>4. CASE ~Whole /\ ~(offset + Count >= SectorSize)
    <3>1. block_id' = block_id /\ offset' = offset + Count
      BY <1>3, <2>4 DEF Advance
    <3> QED
      BY <1>1, <1>2, <2>4, <3>1 DEF position
  <2> QED
    BY <2>2, <2>3, <2>4
<1> QED
  BY <1>2, <1>3

\* read_one copies the bytes at the cursor into the next place of the buffer.
LEMMA ReadOneStep ==
    ASSUME DiskIInv, ReadOne
    PROVE  DiskIInv'
<1>1. CursorInv /\ JobInv /\ TransferRight /\ job.op = "read" /\ job.done < job.len /\ InRange
  BY DEF DiskIInv, ReadOne
<1> DEFINE new(i) == IF i \in job.done .. job.done + Count - 1
                     THEN bytes[block_id * SectorSize + offset + (i - job.done)]
                     ELSE job.buf[i]
<1>2. /\ Count \in 1 .. SectorSize - offset /\ job.done + Count <= job.len
      /\ block_id' \in Nat /\ offset' \in 0 .. SectorSize - 1
      /\ position' = position + Count
  BY <1>1, AdvanceFacts DEF ReadOne
<1>3. /\ bytes' = bytes /\ broken' = broken
      /\ job' = [job EXCEPT !.done = @ + Count,
                            !.buf = [i \in 0 .. job.len - 1 |-> new(i)]]
  BY DEF ReadOne
<1>4. /\ job'.op = "read" /\ job'.len = job.len /\ job'.done = job.done + Count
      /\ job'.start = job.start /\ job'.before = job.before
      /\ job'.buf = [i \in 0 .. job.len - 1 |-> new(i)]
  BY <1>1, <1>3 DEF JobInv
<1>5. /\ job.len \in Nat /\ job.done \in Nat /\ job.start \in Nat
      /\ position = job.start + job.done /\ bytes \in Device /\ SectorSize \in Nat
      /\ offset \in 0 .. SectorSize - 1
  BY <1>1, DiskAssumption DEF JobInv, TransferRight, CursorInv
<1>6. /\ block_id * SectorSize \in Nat /\ block_id * SectorSize + SectorSize <= Size
      /\ Size \in Nat
  <2>1. Size \in Nat
    BY DiskAssumption DEF Size
  <2> QED
    BY <1>1, <2>1, InSector
<1>7. ASSUME NEW i \in job.done .. job.done + Count - 1
      PROVE  /\ block_id * SectorSize + offset + (i - job.done) = job.start + i
             /\ job.start + i \in 0 .. Size - 1
  BY <1>2, <1>5, <1>6 DEF position
<1>8. job'.buf \in [0 .. job.len - 1 -> Byte]
  <2>1. \A i \in 0 .. job.len - 1 : new(i) \in Byte
    BY <1>1, <1>2, <1>5, <1>7, ZenonT(30) DEF JobInv, Device
  <2> QED
    BY <1>4, <2>1
<1>9. JobInv'
  <2>1. job' = [op |-> "read", len |-> job.len, buf |-> job'.buf,
                done |-> job.done + Count, start |-> job.start, before |-> job.before]
    BY <1>1, <1>3, <1>4, Zenon DEF JobInv
  <2>2a. job.before \in Device
    BY <1>1, Zenon DEF JobInv
  <2>2b. job.done + Count \in Nat /\ job.done + Count <= job.len
    BY ONLY <1>2, <1>5
  <2>2. job.before \in Device /\ job.done + Count \in Nat /\ job.done + Count <= job.len
    BY ONLY <2>2a, <2>2b
  <2>3. job' \in [op : {"none", "read", "write"}, len : Nat, buf : {job'.buf},
                 done : Nat, start : Nat, before : Device]
    BY ONLY <1>5, <2>1, <2>2
  <2> QED
    BY ONLY <1>4, <1>8, <2>2, <2>3 DEF JobInv, Device, Size
<1>10. CursorInv'
  BY <1>1, <1>2, <1>3 DEF CursorInv, Device
<1>11. position' = job'.start + job'.done
  BY <1>2, <1>4, <1>5
<1>12. bytes' = job'.before
  BY <1>1, <1>3, <1>4 DEF TransferRight
<1>13. \A i \in 0 .. job'.done - 1 : job'.buf[i] = bytes'[job'.start + i]
  <2>1. ASSUME NEW i \in 0 .. job.done + Count - 1
        PROVE  job'.buf[i] = bytes[job.start + i]
    <3>1. i \in 0 .. job.len - 1 /\ job'.buf[i] = new(i)
      <4>1. job.done \in Nat /\ Count \in Nat /\ job.len \in Nat /\ job.done + Count <= job.len
        BY <1>2, <1>5
      <4>2. i \in 0 .. job.len - 1
        BY ONLY <2>1, <4>1
      <4>3. job'.buf = [j \in 0 .. job.len - 1 |-> new(j)]
        BY <1>4
      <4> HIDE DEF new
      <4> QED
        BY ONLY <4>2, <4>3
    <3>2. CASE i \in job.done .. job.done + Count - 1
      BY <1>7, <3>1, <3>2
    <3>3. CASE i \notin job.done .. job.done + Count - 1
      <4>1. i \in 0 .. job.done - 1
        BY <1>2, <1>5, <3>3
      <4> QED
        BY <1>1, <3>1, <3>3, <4>1 DEF TransferRight
    <3> QED
      BY <3>2, <3>3
  <2>2. job'.done = job.done + Count /\ job'.start = job.start /\ bytes' = bytes
    BY <1>3, <1>4
  <2>3. \A i \in 0 .. job.done + Count - 1 : job'.buf[i] = bytes'[job'.start + i]
    BY ONLY <2>1, <2>2
  <2>4. 0 .. job'.done - 1 = 0 .. job.done + Count - 1
    <3>1. job.done \in Nat /\ Count \in Nat
      BY <1>2, <1>5
    <3> QED
      BY ONLY <2>2, <3>1
  <2> QED
    BY ONLY <2>3, <2>4, Zenon
<1> QED
  BY <1>4, <1>9, <1>10, <1>11, <1>12, <1>13 DEF DiskIInv, TransferRight

\* write_one stores the next bytes of the buffer at the cursor and, whether it
\* writes the sector whole or after reading it, changes no other byte.
LEMMA WriteOneStep ==
    ASSUME DiskIInv, WriteOne
    PROVE  DiskIInv'
<1>1. CursorInv /\ JobInv /\ TransferRight /\ job.op = "write" /\ job.done < job.len /\ InRange
  BY DEF DiskIInv, WriteOne
<1> DEFINE first == block_id * SectorSize
           after(p) == IF p \in first .. first + SectorSize - 1
                       THEN SectorAfter[p - first] ELSE bytes[p]
<1>2. /\ Count \in 1 .. SectorSize - offset /\ job.done + Count <= job.len
      /\ block_id' \in Nat /\ offset' \in 0 .. SectorSize - 1
      /\ position' = position + Count
  BY <1>1, AdvanceFacts DEF WriteOne
<1>3. /\ bytes' = [p \in 0 .. Size - 1 |-> after(p)] /\ broken' = broken
      /\ job' = [job EXCEPT !.done = @ + Count]
  BY DEF WriteOne
<1>4. /\ job'.op = "write" /\ job'.len = job.len /\ job'.done = job.done + Count
      /\ job'.start = job.start /\ job'.before = job.before /\ job'.buf = job.buf
  BY <1>1, <1>3 DEF JobInv
<1>5. /\ job.len \in Nat /\ job.done \in Nat /\ job.start \in Nat
      /\ position = job.start + job.done /\ bytes \in Device /\ SectorSize \in Nat
      /\ offset \in 0 .. SectorSize - 1 /\ job.buf \in [0 .. job.len - 1 -> Byte]
  BY <1>1, DiskAssumption DEF JobInv, TransferRight, CursorInv
<1>6. first \in Nat /\ first + SectorSize <= Size /\ Size \in Nat
  <2>1. Size \in Nat
    BY DiskAssumption DEF Size
  <2> QED
    BY <1>1, <2>1, InSector
<1>7. position = first + offset
  BY DEF position
<1> HIDE DEF first
<1>8. ASSUME NEW p \in 0 .. Size - 1
      PROVE  after(p) = IF p \in position .. position + Count - 1
                        THEN job.buf[p - job.start] ELSE bytes[p]
  <2>1. CASE p \notin first .. first + SectorSize - 1
    <3>1. p \notin position .. position + Count - 1
      BY <1>2, <1>5, <1>6, <1>7, <2>1
    <3> QED
      BY <2>1, <3>1
  <2>2. CASE p \in first .. first + SectorSize - 1
    <3>1. p - first \in 0 .. SectorSize - 1
      BY <1>5, <1>6, <2>2
    <3>2. after(p) = IF p - first \in offset .. offset + Count - 1
                     THEN job.buf[job.done + (p - first) - offset]
                     ELSE bytes[first + (p - first)]
      BY <2>2, <3>1 DEF SectorAfter, first
    <3> HIDE DEF after
    <3>3. /\ p \in Int /\ first \in Int /\ offset \in Int /\ Count \in Int
          /\ job.done \in Int /\ job.start \in Int
      BY <1>2, <1>5, <1>6
    <3>4. job.start + job.done = first + offset
      BY <1>5, <1>7, Zenon
    <3>5. /\ job.done + (p - first) - offset = p - job.start
          /\ first + (p - first) = p
          /\ p - first \in offset .. offset + Count - 1
               <=> p \in first + offset .. (first + offset) + Count - 1
      BY ONLY <3>3, <3>4
    <3> QED
      BY ONLY <1>7, <3>2, <3>5, Zenon
  <2> QED
    BY <2>1, <2>2
<1> HIDE DEF after
<1>8a. /\ Count \in Nat /\ job.done \in Nat /\ job.start \in Nat
      /\ position = job.start + job.done
  BY <1>2, <1>5
<1>9. ASSUME NEW p \in 0 .. Size - 1, p \in position .. position + Count - 1
      PROVE  p - job.start \in 0 .. job.len - 1
  <2>1. p \in Nat
    BY <1>6
  <2>2. p - job.start \in 0 .. job.done + Count - 1
    BY ONLY <1>9, <1>8a, <2>1, Span
  <2>3. job.len \in Nat /\ job.done + Count <= job.len
    BY <1>2, <1>5
  <2> QED
    BY ONLY <1>8a, <2>1, <2>2, <2>3
<1>10. bytes' \in Device
  <2>1. ASSUME NEW p \in 0 .. Size - 1 PROVE after(p) \in Byte
    BY <1>5, <1>8, <1>9, SMT DEF Device
  <2> QED
    BY <1>3, <2>1 DEF Device
<1>11. CursorInv'
  BY <1>1, <1>2, <1>3, <1>10 DEF CursorInv, Device, Size
<1>12. JobInv'
  <2>1. job' = [op |-> "write", len |-> job.len, buf |-> job.buf,
                done |-> job.done + Count, start |-> job.start, before |-> job.before]
    BY <1>1, <1>3, <1>4 DEF JobInv
  <2>2a. job.before \in Device
    BY <1>1, Zenon DEF JobInv
  <2>2b. job.done + Count \in Nat /\ job.done + Count <= job.len
    BY ONLY <1>2, <1>5
  <2>2. job.before \in Device /\ job.done + Count \in Nat /\ job.done + Count <= job.len
    BY ONLY <2>2a, <2>2b
  <2>3. job' \in [op : {"none", "read", "write"}, len : Nat, buf : {job'.buf},
                 done : Nat, start : Nat, before : Device]
    BY ONLY <1>4, <1>5, <2>1, <2>2
  <2> QED
    BY ONLY <1>4, <1>5, <2>2, <2>3 DEF JobInv, Device, Size
<1>13. position' = job'.start + job'.done
  BY <1>2, <1>4, <1>5
<1>14. ASSUME NEW p \in 0 .. Size - 1
       PROVE  bytes'[p] = IF p \in job'.start .. job'.start + job'.done - 1
                          THEN job'.buf[p - job'.start] ELSE job'.before[p]
  <2>1. bytes'[p] = IF p \in position .. position + Count - 1
                    THEN job.buf[p - job.start] ELSE bytes[p]
    BY <1>3, <1>8
  <2>2. bytes[p] = IF p \in job.start .. job.start + job.done - 1
                   THEN job.buf[p - job.start] ELSE job.before[p]
    BY <1>1 DEF TransferRight
  <2>3. p \in job.start .. job.start + (job.done + Count) - 1
          <=> \/ p \in position .. position + Count - 1
              \/ p \in job.start .. job.start + job.done - 1
    <3>1. p \in Nat
      BY <1>6
    <3> QED
      BY ONLY <1>8a, <3>1, Span
  <2>4. bytes'[p] = IF p \in job.start .. job.start + (job.done + Count) - 1
                    THEN job.buf[p - job.start] ELSE job.before[p]
    BY ONLY <2>1, <2>2, <2>3
  <2> QED
    BY ONLY <1>4, <2>4
<1> QED
  BY <1>4, <1>11, <1>12, <1>13, <1>14 DEF DiskIInv, TransferRight, Size

\* A seek puts the cursor inside a sector.
LEMMA SeekStep ==
    ASSUME DiskIInv, NEW off \in Offsets, NEW whence, Seek(off, whence)
    PROVE  DiskIInv'
<1>1. PICK p \in 0 .. Word - 1 : SetPosition(p)
  BY DEF Seek
<1>2. p \in Nat /\ SectorSize \in Nat \ {0}
  BY DiskAssumption
<1>3. p \div SectorSize \in Nat /\ p % SectorSize \in 0 .. SectorSize - 1
  BY <1>2
<1>4. job.op = "none" /\ UNCHANGED <<bytes, job, broken>>
  BY DEF Seek
<1>5. CursorInv' /\ JobInv'
  BY <1>1, <1>3, <1>4 DEF DiskIInv, CursorInv, JobInv, SetPosition, Device, Size
<1> QED
  BY <1>4, <1>5 DEF DiskIInv, TransferRight

\* A call starts with nothing moved; it remembers the device as it is.
LEMMA CallStep ==
    ASSUME DiskIInv, NEW op \in {"read", "write"}, NEW n \in Nat,
           NEW b \in [0 .. n - 1 -> Byte], Call(op, n, b)
    PROVE  DiskIInv'
<1>1. /\ job' = Job(op, n, b, position, bytes)
      /\ UNCHANGED <<block_id, offset, bytes, broken>>
  BY DEF Call
<1>2. /\ block_id \in Nat /\ offset \in 0 .. SectorSize - 1 /\ SectorSize \in Nat
      /\ bytes \in Device /\ Size \in Nat
  BY DiskAssumption DEF DiskIInv, CursorInv, Size
<1>3. position \in Nat /\ position' = position
  BY <1>1, <1>2 DEF position
<1>4. /\ job'.op = op /\ job'.len = n /\ job'.buf = b /\ job'.done = 0
      /\ job'.start = position /\ job'.before = bytes
  BY <1>1 DEF Job
<1>5. CursorInv'
  BY <1>1, <1>2 DEF DiskIInv, CursorInv, Device, Size
<1>6. JobInv'
  <2>1. job' \in [op : {"none", "read", "write"}, len : Nat, buf : {job'.buf},
                 done : Nat, start : Nat, before : Device]
    BY <1>1, <1>2, <1>3, <1>4 DEF Job
  <2> QED
    BY <1>4, <2>1 DEF JobInv, Device, Size
<1>7. TransferRight'
  <2>1. position' = job'.start + job'.done
    BY ONLY <1>3, <1>4
  <2>2. 0 .. job'.done - 1 = {}
    BY ONLY <1>4
  <2>3. bytes' = job'.before
    BY <1>1, <1>4
  <2>4. job'.start .. job'.start + job'.done - 1 = {}
    BY ONLY <1>3, <1>4
  <2> QED
    BY <2>1, <2>2, <2>3, <2>4 DEF TransferRight
<1> QED
  BY <1>5, <1>6, <1>7 DEF DiskIInv

\* Between two calls the device is what the last one left.
LEMMA NoJobFacts ==
    ASSUME CursorInv', job' = NoJob(bytes')
    PROVE  JobInv' /\ TransferRight'
<1>1. /\ job'.op = "none" /\ job'.len = 0 /\ job'.done = 0 /\ job'.before = bytes'
      /\ job' = [op |-> "none", len |-> 0, buf |-> <<>>, done |-> 0, start |-> 0,
                 before |-> bytes'] /\ job'.buf = <<>>
  BY DEF NoJob, Job
<1>2. bytes' \in Device
  BY DEF CursorInv, Device, Size
<1> QED
  BY <1>1, <1>2 DEF JobInv, TransferRight, Device, Size

\* Every step keeps the invariant.
LEMMA DiskStepInv == DiskIInv /\ [DiskNext]_diskVars => DiskIInv'
<1> SUFFICES ASSUME DiskIInv, [DiskNext]_diskVars PROVE DiskIInv'
  OBVIOUS
<1>1. ASSUME UNCHANGED <<block_id, offset, bytes, job>>, broken' \in BOOLEAN PROVE DiskIInv'
  BY <1>1 DEF DiskIInv, CursorInv, JobInv, TransferRight, Device, Size, position
<1>2. broken \in BOOLEAN
  BY DEF DiskIInv, CursorInv
<1>3. ASSUME NEW off \in Offsets, NEW whence, SeekFails(off, whence) PROVE DiskIInv'
  BY <1>1, <1>2, <1>3 DEF SeekFails, diskVars
<1>4. ASSUME NEW n \in Lengths, StartRead(n) PROVE DiskIInv'
  <2>1. n \in Nat /\ [i \in 0 .. n - 1 |-> Blank] \in [0 .. n - 1 -> Byte]
    BY DiskAssumption
  <2> QED
    BY <1>4, <2>1, CallStep DEF StartRead
<1>5. ASSUME NEW b \in Buffers, StartWrite(b) PROVE DiskIInv'
  BY <1>5, DiskAssumption, CallStep DEF StartWrite
<1>6. CASE OutOfRange
  BY <1>1, <1>6 DEF OutOfRange
<1>7. CASE Return
  <2>1. job' = NoJob(bytes') /\ UNCHANGED <<block_id, offset, bytes, broken>>
    BY <1>7 DEF Return
  <2>2. CursorInv'
    BY <2>1 DEF DiskIInv, CursorInv, Device, Size
  <2> QED
    BY <2>1, <2>2, NoJobFacts DEF DiskIInv
<1>8. CASE UNCHANGED diskVars
  BY <1>1, <1>2, <1>8 DEF diskVars
<1> QED
  BY <1>3, <1>4, <1>5, <1>6, <1>7, <1>8, SeekStep, ReadOneStep, WriteOneStep DEF DiskNext

\* The device starts blank with the cursor on its first byte.
LEMMA DiskInitInv == DiskInit => DiskIInv
<1> SUFFICES ASSUME DiskInit PROVE DiskIInv
  OBVIOUS
<1>1. /\ job.op = "none" /\ job.len = 0 /\ job.done = 0 /\ job.before = bytes
      /\ job = [op |-> "none", len |-> 0, buf |-> <<>>, done |-> 0, start |-> 0,
                before |-> bytes] /\ job.buf = <<>>
  BY DEF DiskInit, NoJob, Job
<1>2. CursorInv
  <2>1. block_id = 0 /\ offset = 0 /\ broken = FALSE /\ bytes = [i \in 0 .. Size - 1 |-> Blank]
    BY DEF DiskInit
  <2>2. bytes \in Device
    BY <2>1, DiskAssumption DEF Device
  <2>3. offset \in 0 .. SectorSize - 1
    BY <2>1, DiskAssumption
  <2> QED
    BY ONLY <2>1, <2>2, <2>3, Zenon DEF CursorInv
<1> QED
  BY <1>1, <1>2 DEF DiskIInv, JobInv, TransferRight, CursorInv

\* KernelDevOp::read and write move exactly the bytes from the cursor on,
\* whatever the alignment of the cursor and the length of the buffer.
THEOREM DiskTransfers == DiskSpec => []TransferRight
<1>1. DiskIInv => TransferRight
  BY DEF DiskIInv
<1> QED
  BY <1>1, DiskInitInv, DiskStepInv, PTL DEF DiskSpec

\* The cursor never leaves its sector, and a call never overruns its buffer.
THEOREM DiskTyped == DiskSpec => []DiskTypeOK
<1>1. DiskIInv => DiskTypeOK
  BY DEF DiskIInv, CursorInv, JobInv, DiskTypeOK, Device
<1> QED
  BY <1>1, DiskInitInv, DiskStepInv, PTL DEF DiskSpec
=============================================================================
