--------------------------- MODULE PageTableTrees ---------------------------
(****************************************************************************)
(* Facts about the trees of PageTable, for any number of levels and any     *)
(* fan-out: which tables a page number leads through, what linking a table  *)
(* or changing a leaf does to every other walk, and that find_pte_create    *)
(* and the leaf updates keep a tree a tree.                                 *)
(****************************************************************************)
EXTENDS PageTable, TLAPS, WellFoundedInduction

Depths == 0..(Levels - 1)

\* v and w share their way through the first d tables.
Agree(v, w, d) == \A e \in 0..(d - 1) : Index(v, e) = Index(w, e)

\* Page numbers whose top index is in range.
Vpn == {v \in Nat : Shift(v, Levels - 1) \in 0..(Fanout - 1)}

\* The frame the allocator chooses is one of the free ones.
LEMMA LowestFact ==
    ASSUME NEW S, S \subseteq Nat, S # {}
    PROVE  Lowest(S) \in S /\ \A q \in S : Lowest(S) <= q
<1>1. IsWellFoundedOn(OpToRel(<, Nat), Nat)
  BY NatLessThanWellFounded, Zenon
<1>2. PICK x \in S : \A y \in S : ~(<<y, x>> \in OpToRel(<, Nat))
  BY <1>1, WFMin, Zenon
<1>3. ASSUME NEW y \in S PROVE x <= y
  <2>1. ~(<<y, x>> \in {ss \in Nat \X Nat : ss[1] < ss[2]})
    BY <1>2 DEF OpToRel
  <2>2. x \in Nat /\ y \in Nat /\ ~(y < x)
    BY <2>1
  <2> QED BY <2>2
<1> QED BY <1>3, Zenon DEF Lowest

\* Induction, stated of a set.
LEMMA Upwards ==
    ASSUME NEW S, 0 \in S, \A n \in Nat : n \in S => n + 1 \in S
    PROVE  \A n \in Nat : n \in S
<1> DEFINE Bad == Nat \ S
<1> SUFFICES ASSUME Bad # {} PROVE FALSE
  OBVIOUS
<1>1. Lowest(Bad) \in Bad /\ \A q \in Bad : Lowest(Bad) <= q
  BY LowestFact, Zenon
<1> DEFINE m == Lowest(Bad)
<1>2. m \in Nat /\ m \notin S /\ \A q \in Bad : m <= q
  BY <1>1
<1> HIDE DEF m
<1>3. m # 0 /\ m - 1 \in Nat /\ m - 1 + 1 = m
  BY <1>2
<1>4. m - 1 \in Bad
  BY <1>2, <1>3
<1> QED BY <1>2, <1>3, <1>4

\* There is a level below the root (Levels, Fanout).
LEMMA LevelFacts == /\ Levels \in Nat /\ Levels >= 2 /\ Levels - 1 \in Depths
                    /\ 0 \in Depths /\ Fanout \in Nat /\ Fanout >= 2
  BY LayoutAssumption DEF Depths

\* Span is the function its recursion describes.
LEMMA SpanRec ==
    /\ Span[0] = 1
    /\ \A k \in 1..(Levels - 1) : Span[k] = Fanout * Span[k - 1]
<1> DEFINE Fits(f, n) == f = [k \in 0..n |-> IF k = 0 THEN 1 ELSE Fanout * f[k - 1]]
           S == {n \in Nat : \E f : Fits(f, n)}
<1>1. 0 \in S
  <2>1. Fits([k \in 0..0 |-> 1], 0)
    OBVIOUS
  <2> QED BY <2>1, Zenon
<1>2. ASSUME NEW n \in Nat, n \in S PROVE n + 1 \in S
  <2>1. PICK f : Fits(f, n)
    BY <1>2
  <2> DEFINE g == [k \in 0..(n + 1) |-> IF k = 0 THEN 1 ELSE Fanout * f[k - 1]]
  <2>2. \A k \in 0..n : g[k] = f[k]
    BY <2>1
  <2>3. \A k \in 0..(n + 1) : k # 0 => k - 1 \in 0..n
    OBVIOUS
  <2>4. Fits(g, n + 1)
    BY <2>2, <2>3, Zenon
  <2> HIDE DEF g
  <2> QED BY <2>4
<1> HIDE DEF S
<1>3. Levels - 1 \in S
  <2>1. \A n \in Nat : n \in S
    BY <1>1, <1>2, Upwards, Zenon
  <2> QED BY <2>1, LevelFacts
<1>4. PICK f : Fits(f, Levels - 1)
  BY <1>3 DEF S
<1>5. Fits(Span, Levels - 1)
  BY <1>4, Zenon DEF Span
<1> QED BY <1>5, LevelFacts

\* The quotient and the remainder are the only ones.
LEMMA DivModIs ==
    ASSUME NEW m \in Nat \ {0}, NEW i \in Nat, NEW k \in 0..(m - 1)
    PROVE  (i * m + k) \div m = i
<1> DEFINE b == i * m + k
           q == b \div m
           r == b % m
<1>1. i * m \in Nat /\ b \in Nat
  OBVIOUS
<1>2. q \in Nat /\ r \in 0..(m - 1) /\ i * m + k = q * m + r
  BY <1>1
<1> HIDE DEF q, r
<1>3. ~(q > i)
  <2> SUFFICES ASSUME q > i PROVE FALSE
    OBVIOUS
  <2>1. PICK d \in Nat : q = i + 1 + d
    <3>1. q - i - 1 \in Nat /\ q = i + 1 + (q - i - 1)
      BY <1>2
    <3> QED BY <3>1
  <2>2. q * m = i * m + m + d * m /\ d * m \in Nat
    BY <2>1
  <2> QED BY <1>1, <1>2, <2>2
<1>4. ~(q < i)
  <2> SUFFICES ASSUME q < i PROVE FALSE
    OBVIOUS
  <2>1. PICK d \in Nat : i = q + 1 + d
    <3>1. i - q - 1 \in Nat /\ i = q + 1 + (i - q - 1)
      BY <1>2
    <3> QED BY <3>1
  <2>2. i * m = q * m + m + d * m /\ d * m \in Nat
    BY <1>2, <2>1
  <2> QED BY <1>1, <1>2, <2>2
<1>5. q = i
  BY <1>2, <1>3, <1>4
<1> QED BY <1>5 DEF q, b

\* Shifting twice is shifting once.
LEMMA DivDiv ==
    ASSUME NEW a \in Nat, NEW b \in Nat \ {0}, NEW c \in Nat \ {0}
    PROVE  a \div (c * b) = (a \div b) \div c
<1> DEFINE q == a \div b
           r == a % b
           p == q \div c
           s == q % c
<1>1. q \in Nat /\ r \in 0..(b - 1) /\ a = q * b + r
  OBVIOUS
<1>2. p \in Nat /\ s \in 0..(c - 1) /\ q = p * c + s
  BY <1>1
<1> HIDE DEF q, r, p, s
<1>3. a = p * (c * b) + (s * b + r)
  <2>1. q * b = p * c * b + s * b
    BY <1>1, <1>2
  <2>2. p * c * b = p * (c * b) /\ p * (c * b) \in Nat /\ s * b \in Nat
    BY <1>1, <1>2
  <2> QED BY <1>1, <2>1, <2>2
<1>4. c * b \in Nat \ {0} /\ s * b + r \in 0..(c * b - 1)
  <2>1. PICK d \in Nat : c = s + 1 + d
    <3>1. c - s - 1 \in Nat /\ c = s + 1 + (c - s - 1)
      BY <1>2
    <3> QED BY <3>1
  <2>2. c * b = s * b + b + d * b /\ d * b \in Nat /\ s * b \in Nat
    BY <1>2, <2>1
  <2> QED BY <1>1, <2>2
<1>5. a \div (c * b) = p
  BY <1>2, <1>3, <1>4, DivModIs
<1> QED BY <1>5 DEF p, q

\* Every entry spans some pages, so shifting is a division by no zero.
LEMMA SpanPositive == \A k \in Depths : Span[k] \in Nat \ {0}
<1> DEFINE S == {n \in Nat : n \in Depths => Span[n] \in Nat \ {0}}
<1>1. 0 \in S
  BY SpanRec
<1>2. ASSUME NEW n \in Nat, n \in S PROVE n + 1 \in S
  <2> SUFFICES ASSUME n + 1 \in Depths PROVE Span[n + 1] \in Nat \ {0}
    OBVIOUS
  <2>1. n \in Depths /\ n + 1 \in 1..(Levels - 1) /\ n + 1 - 1 = n
    BY LevelFacts DEF Depths
  <2>2. Span[n + 1] = Fanout * Span[n]
    BY <2>1, SpanRec
  <2>3. Span[n] \in Nat \ {0}
    BY <1>2, <2>1
  <2> QED BY <2>2, <2>3, LevelFacts
<1> HIDE DEF S
<1>3. \A n \in Nat : n \in S
  BY <1>1, <1>2, Upwards, Zenon
<1> QED BY <1>3, LevelFacts DEF S, Depths

\* A page number is shifted a level at a time.
LEMMA ShiftStep ==
    ASSUME NEW v \in Nat
    PROVE  /\ Shift(v, 0) = v
           /\ \A k \in Depths : Shift(v, k) \in Nat
           /\ \A k \in 1..(Levels - 1) : Shift(v, k) = Shift(v, k - 1) \div Fanout
<1>1. Shift(v, 0) = v
  BY SpanRec DEF Shift
<1>2. \A k \in Depths : Shift(v, k) \in Nat
  BY SpanPositive DEF Shift
<1>3. ASSUME NEW k \in 1..(Levels - 1) PROVE Shift(v, k) = Shift(v, k - 1) \div Fanout
  <2>1. k - 1 \in Depths
    BY LevelFacts DEF Depths
  <2>2. Span[k] = Fanout * Span[k - 1] /\ Span[k - 1] \in Nat \ {0}
    BY <2>1, SpanRec, SpanPositive
  <2> QED BY <2>2, DivDiv, LevelFacts DEF Shift
<1> QED BY <1>1, <1>2, <1>3

\* An index of vaddr_to_pte_vpn is below Fanout: it is in the table.
LEMMA IndexRange ==
    ASSUME NEW v \in Nat, NEW d \in Depths
    PROVE  Index(v, d) \in 0..(Fanout - 1)
<1>1. Levels - 1 - d \in Depths
  BY LevelFacts DEF Depths
<1>2. Shift(v, Levels - 1 - d) \in Nat
  BY <1>1, ShiftStep
<1> QED BY <1>2, LevelFacts DEF Index

\* The indices of a page number are its digits: they determine it.
LEMMA DigitsDecide ==
    ASSUME NEW v \in Vpn, NEW w \in Vpn, Agree(v, w, Levels)
    PROVE  v = w
<1>0. v \in Nat /\ w \in Nat
  BY DEF Vpn
<1> DEFINE S == {n \in Nat : n \in Depths => Shift(v, Levels - 1 - n) = Shift(w, Levels - 1 - n)}
<1>d. \A d \in Depths : Index(v, d) = Index(w, d)
  BY LevelFacts DEF Agree, Depths
<1>1. 0 \in S
  <2>1. /\ Shift(v, Levels - 1) \in 0..(Fanout - 1)
        /\ Shift(w, Levels - 1) \in 0..(Fanout - 1)
    BY DEF Vpn
  <2>2. Shift(v, Levels - 1) % Fanout = Shift(w, Levels - 1) % Fanout /\ Levels - 1 - 0 = Levels - 1
    BY <1>d, LevelFacts DEF Index
  <2>3. Shift(v, Levels - 1) = Shift(w, Levels - 1)
    BY <2>1, <2>2, LevelFacts
  <2> QED BY <2>2, <2>3
<1>2. ASSUME NEW n \in Nat, n \in S PROVE n + 1 \in S
  <2> SUFFICES ASSUME n + 1 \in Depths
               PROVE  Shift(v, Levels - 1 - (n + 1)) = Shift(w, Levels - 1 - (n + 1))
    OBVIOUS
  <2> DEFINE k == Levels - 1 - n
  <2>1. n \in Depths /\ k \in 1..(Levels - 1) /\ k - 1 = Levels - 1 - (n + 1) /\ k - 1 \in Depths
    BY LevelFacts DEF Depths
  <2>2. Shift(v, k) = Shift(w, k)
    BY <1>2, <2>1
  <2> DEFINE x == Shift(v, k - 1)
             y == Shift(w, k - 1)
  <2>3. x \in Nat /\ y \in Nat /\ x \div Fanout = y \div Fanout
    BY <1>0, <2>1, <2>2, ShiftStep
  <2>4. x % Fanout = y % Fanout
    BY <1>d, <2>1 DEF Index
  <2> HIDE DEF x, y
  <2>5. x = y
    <3>1. x = Fanout * (x \div Fanout) + (x % Fanout)
      BY <2>3, LevelFacts
    <3>2. y = Fanout * (y \div Fanout) + (y % Fanout)
      BY <2>3, LevelFacts
    <3> QED BY <2>3, <2>4, <3>1, <3>2
  <2> QED BY <2>1, <2>5 DEF x, y
<1> HIDE DEF S
<1>3. \A n \in Nat : n \in S
  BY <1>1, <1>2, Upwards, Zenon
<1>4. Shift(v, Levels - 1 - (Levels - 1)) = Shift(w, Levels - 1 - (Levels - 1))
  BY <1>3, LevelFacts DEF S
<1>5. Levels - 1 - (Levels - 1) = 0
  BY LevelFacts
<1> QED BY <1>0, <1>4, <1>5, ShiftStep

\* The walk to v goes a level at a time.
Stepwise(tab, r, v) ==
    \A d \in 1..(Levels - 1) :
        TableAt(tab, r, v, d) = Walk(tab, v, TableAt(tab, r, v, d - 1), d)

\* The walk is the one its recursion describes.
LEMMA TableRec ==
    ASSUME NEW tab, NEW r, NEW v
    PROVE  TableAt(tab, r, v, 0) = r /\ Stepwise(tab, r, v)
<1> DEFINE Fits(f, n) == f = [d \in 0..n |-> IF d = 0 THEN r ELSE Walk(tab, v, f[d - 1], d)]
           S == {n \in Nat : \E f : Fits(f, n)}
<1>1. 0 \in S
  <2>1. Fits([d \in 0..0 |-> r], 0)
    OBVIOUS
  <2> QED BY <2>1, Zenon
<1>2. ASSUME NEW n \in Nat, n \in S PROVE n + 1 \in S
  <2>1. PICK f : Fits(f, n)
    BY <1>2
  <2> DEFINE g == [d \in 0..(n + 1) |-> IF d = 0 THEN r ELSE Walk(tab, v, f[d - 1], d)]
  <2>2. \A d \in 0..n : g[d] = f[d]
    BY <2>1
  <2>3. \A d \in 0..(n + 1) : d # 0 => d - 1 \in 0..n
    OBVIOUS
  <2>4. Fits(g, n + 1)
    BY <2>2, <2>3, Zenon
  <2> HIDE DEF g
  <2> QED BY <2>4
<1> HIDE DEF S
<1>3. Levels - 1 \in S
  <2>1. \A n \in Nat : n \in S
    BY <1>1, <1>2, Upwards, Zenon
  <2> QED BY <2>1, LevelFacts
<1>4. PICK f : Fits(f, Levels - 1)
  BY <1>3 DEF S
<1> DEFINE at == CHOOSE h : Fits(h, Levels - 1)
<1>5. Fits(at, Levels - 1)
  BY <1>4, Zenon
<1>6. \A d \in Depths : TableAt(tab, r, v, d) = at[d]
  BY Zenon DEF TableAt
<1> HIDE DEF at
<1>7. \A d \in Depths : at[d] = IF d = 0 THEN r ELSE Walk(tab, v, at[d - 1], d)
  BY <1>5, Zenon DEF Depths
<1>8. \A d \in 1..(Levels - 1) : d \in Depths /\ d - 1 \in Depths /\ d # 0
  BY LevelFacts DEF Depths
<1> QED BY <1>6, <1>7, <1>8, LevelFacts, Zenon DEF Stepwise

\* find_pte_create goes down a level at a time.
LEMMA CreateRec ==
    ASSUME NEW b, NEW r, NEW v
    PROVE  \E down :
             /\ down[0] = b
             /\ \A d \in 1..(Levels - 1) : down[d] = CreateLevel(down[d - 1], r, v, d)
             /\ FindPteCreate(b, r, v) = down[Levels - 1]
<1> DEFINE Fits(f, n) == f = [d \in 0..n |-> IF d = 0 THEN b ELSE CreateLevel(f[d - 1], r, v, d)]
           S == {n \in Nat : \E f : Fits(f, n)}
<1>1. 0 \in S
  <2>1. Fits([d \in 0..0 |-> b], 0)
    OBVIOUS
  <2> QED BY <2>1, Zenon
<1>2. ASSUME NEW n \in Nat, n \in S PROVE n + 1 \in S
  <2>1. PICK f : Fits(f, n)
    BY <1>2
  <2> DEFINE g == [d \in 0..(n + 1) |-> IF d = 0 THEN b ELSE CreateLevel(f[d - 1], r, v, d)]
  <2>2. \A d \in 0..n : g[d] = f[d]
    BY <2>1
  <2>3. \A d \in 0..(n + 1) : d # 0 => d - 1 \in 0..n
    OBVIOUS
  <2>4. Fits(g, n + 1)
    BY <2>2, <2>3, Zenon
  <2> HIDE DEF g
  <2> QED BY <2>4
<1> HIDE DEF S
<1>3. Levels - 1 \in S
  <2>1. \A n \in Nat : n \in S
    BY <1>1, <1>2, Upwards, Zenon
  <2> QED BY <2>1, LevelFacts
<1>4. PICK f : Fits(f, Levels - 1)
  BY <1>3 DEF S
<1> DEFINE down == CHOOSE h : Fits(h, Levels - 1)
<1>5. Fits(down, Levels - 1)
  BY <1>4, Zenon
<1>6. FindPteCreate(b, r, v) = down[Levels - 1]
  BY Zenon DEF FindPteCreate
<1> HIDE DEF down
<1>7. \A d \in Depths : down[d] = IF d = 0 THEN b ELSE CreateLevel(down[d - 1], r, v, d)
  BY <1>5, Zenon DEF Depths
<1>8. \A d \in 1..(Levels - 1) : d \in Depths /\ d # 0
  BY LevelFacts DEF Depths
<1> QED BY <1>6, <1>7, <1>8, LevelFacts, Zenon

\* new_kernel maps a last page.
LEMMA LastFact ==
    LastKernelPage \in KernelPages /\ \A w \in KernelPages : w <= LastKernelPage
  BY LayoutAssumption, Zenon DEF LastKernelPage

\* The kernel's table is built a page at a time.
LEMMA BootRec ==
    \E below :
             /\ below[0] = NewTable(Lowest(Frame))
             /\ \A v \in 1..(LastKernelPage + 1) :
                  below[v] = IF v - 1 \in KernelPages
                             THEN PushDirect(below[v - 1], Lowest(Frame), v - 1)
                             ELSE below[v - 1]
             /\ KernelTable = below[LastKernelPage + 1]
<1>0. LastKernelPage \in Nat
  BY LastFact, LayoutAssumption
<1> DEFINE Fits(f, n) == f = [v \in 0..n |-> IF v = 0 THEN NewTable(Lowest(Frame)) ELSE IF v - 1 \in KernelPages THEN PushDirect(f[v - 1], Lowest(Frame), v - 1) ELSE f[v - 1]]
           S == {n \in Nat : \E f : Fits(f, n)}
<1>1. 0 \in S
  <2>1. Fits([v \in 0..0 |-> NewTable(Lowest(Frame))], 0)
    OBVIOUS
  <2> QED BY <2>1, Zenon
<1>2. ASSUME NEW n \in Nat, n \in S PROVE n + 1 \in S
  <2>1. PICK f : Fits(f, n)
    BY <1>2
  <2> DEFINE g == [v \in 0..(n + 1) |-> IF v = 0 THEN NewTable(Lowest(Frame)) ELSE IF v - 1 \in KernelPages THEN PushDirect(f[v - 1], Lowest(Frame), v - 1) ELSE f[v - 1]]
  <2>2. \A v \in 0..n : g[v] = f[v]
    BY <2>1
  <2>3. \A v \in 0..(n + 1) : v # 0 => v - 1 \in 0..n
    OBVIOUS
  <2>4. Fits(g, n + 1)
    BY <2>2, <2>3, Zenon
  <2> HIDE DEF g
  <2> QED BY <2>4
<1> HIDE DEF S
<1>3. LastKernelPage + 1 \in S
  <2>1. \A n \in Nat : n \in S
    BY <1>1, <1>2, Upwards, Zenon
  <2> QED BY <2>1, <1>0
<1>4. PICK f : Fits(f, LastKernelPage + 1)
  BY <1>3 DEF S
<1> DEFINE below == CHOOSE h : Fits(h, LastKernelPage + 1)
<1>5. Fits(below, LastKernelPage + 1)
  BY <1>4, Zenon
<1>6. KernelTable = below[LastKernelPage + 1]
  BY Zenon DEF KernelTable
<1> HIDE DEF below
<1>7. \A v \in 0..(LastKernelPage + 1) :
        below[v] = IF v = 0 THEN NewTable(Lowest(Frame))
                   ELSE IF v - 1 \in KernelPages THEN PushDirect(below[v - 1], Lowest(Frame), v - 1)
                   ELSE below[v - 1]
  BY <1>5, Zenon
<1>8. 0 \in 0..(LastKernelPage + 1)
      /\ \A v \in 1..(LastKernelPage + 1) : v \in 0..(LastKernelPage + 1) /\ v # 0
  BY <1>0
<1> QED BY <1>6, <1>7, <1>8, Zenon

(********************************** the trees ********************************)
TabOK(tab) == DOMAIN tab = Frame /\ \A f \in Frame : DOMAIN tab[f] \subseteq 0..(Fanout - 1)

\* Entry i of table t is in new what it is in tab.
SameEntry(tab, new, t, i) ==
    /\ i \in DOMAIN new[t] <=> i \in DOMAIN tab[t]
    /\ i \in DOMAIN tab[t] => new[t][i] = tab[t][i]

\* The walks of the pages P from r stay in F, and end only where there is
\* no entry.
Reaches(tab, r, P, F) ==
    /\ r \in F /\ F \subseteq Frame
    /\ \A v \in P, d \in Depths : TableAt(tab, r, v, d) \in F \cup {None}
    /\ \A v \in P, d \in 1..(Levels - 1) :
         TableAt(tab, r, v, d) = None /\ TableAt(tab, r, v, d - 1) # None
           => Index(v, d - 1) \notin DOMAIN tab[TableAt(tab, r, v, d - 1)]

\* Two walks meet only where they have been the same so far.
Apart(tab, r, P) ==
    \A v, w \in P, d, e \in Depths :
        TableAt(tab, r, v, d) # None /\ TableAt(tab, r, v, d) = TableAt(tab, r, w, e)
          => d = e /\ Agree(v, w, d)

Tree(tab, r, P, F) == Reaches(tab, r, P, F) /\ Apart(tab, r, P)

\* The table below t on the way to v, for t at depth d.
Below(tab, v, t, d) ==
    IF t # None /\ Index(v, d) \in DOMAIN tab[t] THEN tab[t][Index(v, d)].ppn ELSE None

\* find_pte goes down a level at a time.
LEMMA OneDown ==
    ASSUME NEW tab, NEW r, NEW v, NEW d \in Nat, NEW e \in Depths, e = d + 1
    PROVE  TableAt(tab, r, v, e) = Below(tab, v, TableAt(tab, r, v, d), d)
<1>1. e \in 1..(Levels - 1) /\ e - 1 = d
  BY LevelFacts DEF Depths
<1>2. Stepwise(tab, r, v)
  BY TableRec, Zenon
<1>3. TableAt(tab, r, v, e) = Walk(tab, v, TableAt(tab, r, v, d), e)
  BY <1>1, <1>2 DEF Stepwise
<1>4. Walk(tab, v, TableAt(tab, r, v, d), e) = Below(tab, v, TableAt(tab, r, v, d), d)
  BY <1>1 DEF Walk, Below
<1> QED BY <1>3, <1>4

\* Where the entries on the way are the same, so is the walk.
SameWay(tab, new, r, v, n) ==
    \A d \in 0..(n - 1) : TableAt(tab, r, v, d) # None
        => SameEntry(tab, new, TableAt(tab, r, v, d), Index(v, d))

SameTables(tab, new, r, v, n) == \A d \in 0..n : TableAt(new, r, v, d) = TableAt(tab, r, v, d)

\* Two contents that agree along the walk to v reach the same tables.
LEMMA PathRule ==
    ASSUME NEW tab, NEW new, NEW r, NEW v, NEW n \in Depths, SameWay(tab, new, r, v, n)
    PROVE  SameTables(tab, new, r, v, n)
<1> DEFINE S == {d \in Nat : d \in 0..n => TableAt(new, r, v, d) = TableAt(tab, r, v, d)}
<1>0. n \in Nat /\ n <= Levels - 1 /\ Levels \in Nat
  BY LevelFacts DEF Depths
<1>1. 0 \in S
  BY TableRec
<1>2. ASSUME NEW d \in Nat, d \in S PROVE d + 1 \in S
  <2> SUFFICES ASSUME d + 1 \in 0..n PROVE TableAt(new, r, v, d + 1) = TableAt(tab, r, v, d + 1)
    OBVIOUS
  <2>1. d \in 0..n /\ d \in 0..(n - 1) /\ d + 1 \in Depths
    BY <1>0 DEF Depths
  <2>2. TableAt(new, r, v, d) = TableAt(tab, r, v, d)
    BY <1>2, <2>1
  <2>3. TableAt(new, r, v, d + 1) = Below(new, v, TableAt(tab, r, v, d), d)
    <3>1. TableAt(new, r, v, d + 1) = Below(new, v, TableAt(new, r, v, d), d)
      BY <2>1, OneDown, Zenon
    <3> QED BY <2>2, <3>1
  <2>4. TableAt(tab, r, v, d + 1) = Below(tab, v, TableAt(tab, r, v, d), d)
    BY <2>1, OneDown, Zenon
  <2>5. Below(new, v, TableAt(tab, r, v, d), d) = Below(tab, v, TableAt(tab, r, v, d), d)
    <3>1. CASE TableAt(tab, r, v, d) = None
      BY <3>1, Zenon DEF Below
    <3>2. CASE TableAt(tab, r, v, d) # None
      <4>1. SameEntry(tab, new, TableAt(tab, r, v, d), Index(v, d))
        BY <2>1, <3>2 DEF SameWay
      <4> QED BY <4>1, Zenon DEF SameEntry, Below
    <3> QED BY <3>1, <3>2
  <2> QED BY <2>3, <2>4, <2>5
<1> HIDE DEF S
<1>3. \A d \in Nat : d \in S
  BY <1>1, <1>2, Upwards, Zenon
<1> QED BY <1>0, <1>3 DEF S, SameTables

\* So is the leaf.
LEMMA FrameRule ==
    ASSUME NEW tab, NEW new, NEW r, NEW v, SameWay(tab, new, r, v, Levels)
    PROVE  /\ SameTables(tab, new, r, v, Levels - 1)
           /\ FindPte(new, r, v) = FindPte(tab, r, v)
<1>1. SameWay(tab, new, r, v, Levels - 1)
  BY LevelFacts DEF SameWay
<1>2. SameTables(tab, new, r, v, Levels - 1)
  BY <1>1, PathRule, LevelFacts, Zenon
<1>3. FindPte(new, r, v) = FindPte(tab, r, v)
  <2> DEFINE leaf == TableAt(tab, r, v, Levels - 1)
  <2>1. TableAt(new, r, v, Levels - 1) = leaf
    BY <1>2, LevelFacts DEF SameTables, Depths
  <2>2. leaf # None => SameEntry(tab, new, leaf, Index(v, Levels - 1))
    BY LevelFacts DEF SameWay, Depths
  <2> QED BY <2>1, <2>2, Zenon DEF FindPte, SameEntry
<1> QED BY <1>2, <1>3

\* Pages that agree so far are looked up in the same table.
LEMMA SamePath ==
    ASSUME NEW tab, NEW r, NEW v, NEW w, NEW n \in Depths, Agree(v, w, n)
    PROVE  \A d \in 0..n : TableAt(tab, r, v, d) = TableAt(tab, r, w, d)
<1> DEFINE S == {d \in Nat : d \in 0..n => TableAt(tab, r, v, d) = TableAt(tab, r, w, d)}
<1>0. n \in Nat /\ n <= Levels - 1 /\ Levels \in Nat
  BY LevelFacts DEF Depths
<1>1. 0 \in S
  BY TableRec
<1>2. ASSUME NEW d \in Nat, d \in S PROVE d + 1 \in S
  <2> SUFFICES ASSUME d + 1 \in 0..n PROVE TableAt(tab, r, v, d + 1) = TableAt(tab, r, w, d + 1)
    OBVIOUS
  <2>1. d \in 0..n /\ d \in 0..(n - 1) /\ d + 1 \in Depths
    BY <1>0 DEF Depths
  <2>2. TableAt(tab, r, v, d) = TableAt(tab, r, w, d) /\ Index(v, d) = Index(w, d)
    BY <1>2, <2>1 DEF Agree
  <2>3. /\ TableAt(tab, r, v, d + 1) = Below(tab, v, TableAt(tab, r, v, d), d)
        /\ TableAt(tab, r, w, d + 1) = Below(tab, w, TableAt(tab, r, w, d), d)
    BY <2>1, OneDown, Zenon
  <2> QED BY <2>2, <2>3, Zenon DEF Below
<1> HIDE DEF S
<1>3. \A d \in Nat : d \in S
  BY <1>1, <1>2, Upwards, Zenon
<1> QED BY <1>0, <1>3 DEF S

\* Nothing is reached below a missing table.
NoneFrom(tab, r, v, n) == \A d \in Depths : d >= n => TableAt(tab, r, v, d) = None

\* A walk that has met an invalid entry finds no table and no leaf below it.
LEMMA NoneBelow ==
    ASSUME NEW tab, NEW r, NEW v, NEW n \in Depths, TableAt(tab, r, v, n) = None
    PROVE  NoneFrom(tab, r, v, n) /\ FindPte(tab, r, v) = {}
<1> DEFINE S == {k \in Nat : n + k \in Depths => TableAt(tab, r, v, n + k) = None}
<1>0. n \in Nat /\ n <= Levels - 1 /\ Levels \in Nat
  BY LevelFacts DEF Depths
<1>1. 0 \in S
  BY <1>0
<1>2. ASSUME NEW k \in Nat, k \in S PROVE k + 1 \in S
  <2> SUFFICES ASSUME n + (k + 1) \in Depths PROVE TableAt(tab, r, v, n + (k + 1)) = None
    OBVIOUS
  <2>1. n + k \in Depths /\ n + k \in Nat /\ n + (k + 1) = n + k + 1
    BY <1>0 DEF Depths
  <2>2. TableAt(tab, r, v, n + k) = None
    BY <1>2, <2>1
  <2>3. TableAt(tab, r, v, n + (k + 1)) = Below(tab, v, TableAt(tab, r, v, n + k), n + k)
    BY <2>1, OneDown, Zenon
  <2> QED BY <2>2, <2>3, Zenon DEF Below
<1> HIDE DEF S
<1>3. \A k \in Nat : k \in S
  BY <1>1, <1>2, Upwards, Zenon
<1>4. ASSUME NEW d \in Depths, d >= n PROVE TableAt(tab, r, v, d) = None
  <2>1. d - n \in Nat /\ n + (d - n) = d
    BY <1>0, <1>4 DEF Depths
  <2> QED BY <1>3, <2>1 DEF S
<1>5. TableAt(tab, r, v, Levels - 1) = None
  BY <1>0, <1>4, LevelFacts
<1> QED BY <1>4, <1>5, Zenon DEF FindPte, NoneFrom

\* Pages agree down to one more level when they have the same index there.
LEMMA AgreeStep ==
    ASSUME NEW v, NEW w, NEW c \in Nat
    PROVE  Agree(v, w, c + 1) <=> Agree(v, w, c) /\ Index(v, c) = Index(w, c)
<1>1. 0..(c + 1 - 1) = 0..(c - 1) \cup {c}
  OBVIOUS
<1> QED BY <1>1 DEF Agree

\* What a new table n of r leaves as it was.
Kept(tab, new, r, P) == \A w \in P : FindPte(new, r, w) = FindPte(tab, r, w)
Outside(tab, new, G) == \A f \in Frame \ G : new[f] = tab[f]
RootKept(tab, new, r, v) == \A i : i # Index(v, 0) => SameEntry(tab, new, r, i)

AllKept(tab, new, r, P, v, G) ==
    Outside(tab, new, G) /\ RootKept(tab, new, r, v) /\ Kept(tab, new, r, P)

\* The walks after table n is linked at depth d on the way to v.
Linked(tab, new, r, P, v, d, n) ==
    \A w \in P, e \in Depths :
        TableAt(new, r, w, e) = IF e = d /\ Agree(w, v, d) THEN n ELSE TableAt(tab, r, w, e)

\* The entries on the ways that it leaves alone.
OtherEntries(tab, new, r, P, v, c) ==
    \A w \in P, e \in Depths :
        TableAt(tab, r, w, e) # None /\ ~(e = c /\ Agree(w, v, c + 1))
          => SameEntry(tab, new, TableAt(tab, r, w, e), Index(w, e))

WasMissing(tab, r, P, v, d) == \A w \in P : Agree(w, v, d) => TableAt(tab, r, w, d) = None

\* n is a free frame that becomes the missing table of v below t.
Linking(tab, new, r, P, F, v, c, d, t, n) ==
    /\ TabOK(tab) /\ Tree(tab, r, P, F) /\ P \subseteq Vpn
    /\ v \in P /\ c \in Nat /\ d \in Depths /\ d = c + 1
    /\ t \in F /\ t = TableAt(tab, r, v, c) /\ Index(v, c) \notin DOMAIN tab[t]
    /\ n \in Frame \ F /\ new = Link(tab, t, Index(v, c), n)

NewTables(tab, new, t, i, n) ==
    /\ DOMAIN new = Frame /\ new[n] = Empty /\ n # t
    /\ new[t] = Put(tab[t], i, [ppn |-> n])
    /\ Outside(tab, new, {t, n})

\* A table linked where there was no entry is on the way of the pages that
\* agree with v so far; no other walk and no translation changes.
LEMMA LinkEntries ==
    ASSUME NEW tab, NEW new, NEW r, NEW P, NEW F, NEW v, NEW c, NEW d, NEW t, NEW n,
           Linking(tab, new, r, P, F, v, c, d, t, n)
    PROVE  NewTables(tab, new, t, Index(v, c), n) /\ OtherEntries(tab, new, r, P, v, c)
<1> /\ TabOK(tab) /\ Tree(tab, r, P, F) /\ P \subseteq Vpn
    /\ v \in P /\ c \in Nat /\ d \in Depths /\ d = c + 1
    /\ t \in F /\ t = TableAt(tab, r, v, c) /\ Index(v, c) \notin DOMAIN tab[t]
    /\ n \in Frame \ F /\ new = Link(tab, t, Index(v, c), n)
  BY DEF Linking
<1>1. t \in Frame /\ n \in Frame /\ n # t /\ DOMAIN tab = Frame /\ c \in Depths
  BY LevelFacts DEF Tree, Reaches, TabOK, Depths
<1>2. /\ DOMAIN new = Frame /\ new[n] = Empty
      /\ new[t] = Put(tab[t], Index(v, c), [ppn |-> n])
      /\ Outside(tab, new, {t, n})
  BY <1>1 DEF Link, Outside
<1>3. ASSUME NEW w \in P, NEW e \in Depths, TableAt(tab, r, w, e) # None,
             ~(e = c /\ Agree(w, v, d))
      PROVE  SameEntry(tab, new, TableAt(tab, r, w, e), Index(w, e))
  <2> DEFINE x == TableAt(tab, r, w, e)
  <2>1. x \in F /\ x \in Frame /\ x # n
    BY <1>3, Zenon DEF Tree, Reaches
  <2>2. CASE x # t
    <3>1. new[x] = tab[x]
      BY <1>2, <2>1, <2>2 DEF Outside
    <3> QED BY <3>1, Zenon DEF SameEntry
  <2>3. CASE x = t
    <3>1. e = c /\ Agree(w, v, e)
      BY <1>1, <1>3, <2>3, Zenon DEF Tree, Apart
    <3>2. Index(w, e) # Index(v, c)
      BY <1>3, <3>1, AgreeStep
    <3>3. SameEntry(tab, new, t, Index(w, e))
      BY <1>2, <3>2 DEF SameEntry, Put
    <3> QED BY <2>3, <3>3
  <2> QED BY <2>2, <2>3
<1>4. OtherEntries(tab, new, r, P, v, c)
  BY <1>3, Zenon DEF OtherEntries
<1> QED BY <1>1, <1>2, <1>4, Zenon DEF NewTables

\* A walk through the new entry of find_pte_create ends in the new, empty table;
\* every other walk is as before.
LEMMA LinkWalks ==
    ASSUME NEW tab, NEW new, NEW r, NEW P, NEW F, NEW v, NEW c, NEW d, NEW t, NEW n,
           Linking(tab, new, r, P, F, v, c, d, t, n)
    PROVE  /\ Linked(tab, new, r, P, v, d, n)
           /\ WasMissing(tab, r, P, v, d)
           /\ Kept(tab, new, r, P)
<1>a. NewTables(tab, new, t, Index(v, c), n) /\ OtherEntries(tab, new, r, P, v, c)
  BY LinkEntries, Zenon
<1>1. /\ new[n] = Empty /\ n # t
      /\ new[t] = Put(tab[t], Index(v, c), [ppn |-> n])
      /\ OtherEntries(tab, new, r, P, v, c)
  BY <1>a, Zenon DEF NewTables
<1> /\ TabOK(tab) /\ Tree(tab, r, P, F) /\ P \subseteq Vpn
    /\ v \in P /\ c \in Nat /\ d \in Depths /\ d = c + 1
    /\ t \in F /\ t = TableAt(tab, r, v, c) /\ Index(v, c) \notin DOMAIN tab[t]
    /\ n \in Frame \ F /\ new = Link(tab, t, Index(v, c), n)
  BY DEF Linking
<1>0. c \in Depths /\ 0..(Levels - 1) = Depths /\ c < d
  BY LevelFacts DEF Depths
<1>t. t # None /\ n # None
  BY LayoutAssumption DEF Tree, Reaches
<1>2. ASSUME NEW w \in P, ~Agree(w, v, d)
      PROVE  /\ \A e \in Depths : TableAt(new, r, w, e) = TableAt(tab, r, w, e)
             /\ FindPte(new, r, w) = FindPte(tab, r, w)
  <2>1. SameWay(tab, new, r, w, Levels)
    BY <1>1, <1>2 DEF SameWay, Depths, OtherEntries
  <2>2. SameTables(tab, new, r, w, Levels - 1) /\ FindPte(new, r, w) = FindPte(tab, r, w)
    BY <2>1, FrameRule
  <2> QED BY <2>2 DEF SameTables, Depths
<1>3. ASSUME NEW w \in P, Agree(w, v, d)
      PROVE  /\ \A e \in 0..c : TableAt(new, r, w, e) = TableAt(tab, r, w, e)
             /\ TableAt(new, r, w, d) = n
             /\ \A e \in Depths : e > d => TableAt(new, r, w, e) = None
             /\ \A e \in Depths : e >= d => TableAt(tab, r, w, e) = None
             /\ FindPte(new, r, w) = {} /\ FindPte(tab, r, w) = {}
  <2>1. Agree(w, v, c) /\ Index(w, c) = Index(v, c)
    BY <1>3, AgreeStep
  <2>2. TableAt(tab, r, w, c) = t
    BY <1>0, <2>1, SamePath
  <2>3. SameWay(tab, new, r, w, c)
    <3>1. \A e \in 0..(c - 1) : e \in Depths /\ e # c
      BY <1>0, LevelFacts DEF Depths
    <3> QED BY <1>1, <3>1, Zenon DEF SameWay, OtherEntries
  <2>4. \A e \in 0..c : TableAt(new, r, w, e) = TableAt(tab, r, w, e)
    BY <1>0, <2>3, PathRule DEF SameTables
  <2>5. TableAt(new, r, w, c) = t
    BY <2>2, <2>4
  <2>6. TableAt(new, r, w, d) = n
    <3>1. TableAt(new, r, w, d) = Below(new, w, t, c)
      BY <2>5, OneDown
    <3>2. Index(w, c) \in DOMAIN new[t] /\ new[t][Index(w, c)] = [ppn |-> n]
      BY <1>1, <2>1, Zenon DEF Put
    <3> QED BY <1>t, <3>1, <3>2 DEF Below
  <2>7. TableAt(tab, r, w, d) = None
    <3>1. TableAt(tab, r, w, d) = Below(tab, w, t, c)
      BY <2>2, OneDown
    <3> QED BY <2>1, <3>1 DEF Below
  <2>8. (\A e \in Depths : e >= d => TableAt(tab, r, w, e) = None) /\ FindPte(tab, r, w) = {}
    BY <2>7, NoneBelow, Zenon DEF NoneFrom
  <2>9. DOMAIN new[n] = {}
    BY <1>1 DEF Empty
  <2>10. CASE d = Levels - 1
    <3>1. FindPte(new, r, w) = {}
      BY <2>6, <2>9, <2>10, Zenon DEF FindPte
    <3>2. \A e \in Depths : ~(e > d)
      BY <2>10, LevelFacts DEF Depths
    <3> QED BY <2>4, <2>6, <2>8, <3>1, <3>2, Zenon
  <2>11. CASE d # Levels - 1
    <3>1. d + 1 \in Depths /\ d \in Nat
      BY <2>11, LevelFacts DEF Depths
    <3>2. TableAt(new, r, w, d + 1) = Below(new, w, n, d)
      BY <2>6, <3>1, OneDown
    <3>3. TableAt(new, r, w, d + 1) = None
      BY <2>9, <3>2, Zenon DEF Below
    <3>4. (\A e \in Depths : e >= d + 1 => TableAt(new, r, w, e) = None) /\ FindPte(new, r, w) = {}
      <4>1. NoneFrom(new, r, w, d + 1) /\ FindPte(new, r, w) = {}
        BY <3>1, <3>3, NoneBelow, Zenon
      <4> QED BY <4>1, Zenon DEF NoneFrom
    <3>5. \A e \in Depths : e > d => e >= d + 1
      BY LevelFacts DEF Depths
    <3> QED BY <2>4, <2>6, <2>8, <3>4, <3>5, Zenon
  <2> QED BY <2>10, <2>11
<1>4. ASSUME NEW w \in P, NEW e \in Depths
      PROVE  TableAt(new, r, w, e) = IF e = d /\ Agree(w, v, d) THEN n ELSE TableAt(tab, r, w, e)
  <2>1. CASE ~Agree(w, v, d)
    BY <1>2, <2>1, Zenon
  <2>2. CASE Agree(w, v, d)
    <3>1. e \in 0..c \/ e = d \/ e > d
      BY LevelFacts DEF Depths
    <3>2. e > d => e >= d /\ e # d
      BY LevelFacts DEF Depths
    <3>3. e \in 0..c => e # d
      BY LevelFacts DEF Depths
    <3> QED BY <1>3, <2>2, <3>1, <3>2, <3>3, ZenonT(60)
  <2> QED BY <2>1, <2>2
<1>5. \A w \in P : Agree(w, v, d) => TableAt(tab, r, w, d) = None
  <2>1. d >= d
    BY LevelFacts DEF Depths
  <2> QED BY <1>3, <2>1, Zenon
<1> QED BY <1>2, <1>3, <1>4, <1>5, Zenon DEF Linked, Kept, WasMissing

Relinked(tab, new, r, P, G, v, d, n) ==
    /\ TabOK(new) /\ Tree(new, r, P, G) /\ AllKept(tab, new, r, P, v, G)
    /\ TableAt(new, r, v, d) = n

\* The tree stays a tree, with n in it; its root changes below v alone.
LEMMA LinkTree ==
    ASSUME NEW tab, NEW new, NEW r, NEW P, NEW F, NEW v, NEW c, NEW d, NEW t, NEW n,
           Linking(tab, new, r, P, F, v, c, d, t, n)
    PROVE  Relinked(tab, new, r, P, F \cup {n}, v, d, n)
<1>a. NewTables(tab, new, t, Index(v, c), n) /\ OtherEntries(tab, new, r, P, v, c)
  BY LinkEntries, Zenon
<1>b. Linked(tab, new, r, P, v, d, n) /\ WasMissing(tab, r, P, v, d) /\ Kept(tab, new, r, P)
  BY LinkWalks, Zenon
<1> /\ TabOK(tab) /\ Tree(tab, r, P, F) /\ P \subseteq Vpn
    /\ v \in P /\ c \in Nat /\ d \in Depths /\ d = c + 1
    /\ t \in F /\ t = TableAt(tab, r, v, c) /\ Index(v, c) \notin DOMAIN tab[t]
    /\ n \in Frame \ F /\ new = Link(tab, t, Index(v, c), n)
  BY DEF Linking
<1>0. c \in Depths /\ 0 \in Depths /\ r \in F /\ F \subseteq Frame /\ n # None /\ None \notin F
  <2>1. c \in Depths /\ 0 \in Depths
    BY LevelFacts DEF Depths
  <2>2. r \in F /\ F \subseteq Frame
    BY Zenon DEF Tree, Reaches
  <2>3. None \notin Frame
    BY LayoutAssumption
  <2> QED BY <2>1, <2>2, <2>3
<1>1. TabOK(new)
  <2>1. Index(v, c) \in 0..(Fanout - 1)
    BY <1>0, IndexRange, Zenon DEF Vpn
  <2>2. DOMAIN new = Frame
    BY <1>a, Zenon DEF NewTables
  <2>3. ASSUME NEW f \in Frame PROVE DOMAIN new[f] \subseteq 0..(Fanout - 1)
    <3>1. DOMAIN tab[f] \subseteq 0..(Fanout - 1)
      BY DEF TabOK
    <3>2. CASE f = n
      BY <1>a, <3>2 DEF NewTables, Empty
    <3>3. CASE f = t
      <4>1. DOMAIN new[t] = DOMAIN tab[t] \cup {Index(v, c)}
        BY <1>a DEF NewTables, Put
      <4> QED BY <2>1, <3>1, <3>3, <4>1, Zenon
    <3>4. CASE f \notin {t, n}
      <4>1. new[f] = tab[f]
        BY <1>a, <3>4 DEF NewTables, Outside
      <4> QED BY <3>1, <4>1
    <3> QED BY <3>2, <3>3, <3>4
  <2> QED BY <2>2, <2>3, Zenon DEF TabOK
<1>2. Outside(tab, new, F \cup {n})
  BY <1>a DEF NewTables, Outside
<1>3. RootKept(tab, new, r, v)
  <2> SUFFICES ASSUME NEW i, i # Index(v, 0) PROVE SameEntry(tab, new, r, i)
    BY Zenon DEF RootKept
  <2>1. CASE r # t
    <3>1. new[r] = tab[r]
      BY <1>0, <1>a, <2>1 DEF NewTables, Outside
    <3> QED BY <3>1, Zenon DEF SameEntry
  <2>2. CASE r = t
    <3>1. TableAt(tab, r, v, 0) = TableAt(tab, r, v, c) /\ TableAt(tab, r, v, 0) # None
      BY <1>0, <2>2, TableRec, Zenon
    <3>2. c = 0
      BY <1>0, <3>1, Zenon DEF Tree, Apart
    <3>3. new[t] = Put(tab[t], Index(v, 0), [ppn |-> n])
      BY <1>a, <3>2 DEF NewTables
    <3>4. SameEntry(tab, new, t, i)
      BY <3>3 DEF SameEntry, Put
    <3> QED BY <2>2, <3>4
  <2> QED BY <2>1, <2>2
<1>4. \A w \in P, e \in Depths :
        \/ e = d /\ Agree(w, v, d) /\ TableAt(new, r, w, e) = n /\ TableAt(tab, r, w, e) = None
        \/ ~(e = d /\ Agree(w, v, d)) /\ TableAt(new, r, w, e) = TableAt(tab, r, w, e)
  BY <1>b, Zenon DEF Linked, WasMissing
<1>5. \A w \in P, e \in Depths : TableAt(tab, r, w, e) \in F \cup {None}
  BY DEF Tree, Reaches
<1>6. Reaches(new, r, P, F \cup {n})
  <2>1. r \in F \cup {n} /\ F \cup {n} \subseteq Frame
    BY <1>0
  <2>2. \A w \in P, e \in Depths : TableAt(new, r, w, e) \in (F \cup {n}) \cup {None}
    BY <1>4, <1>5, ZenonT(60)
  <2>3. ASSUME NEW w \in P, NEW e \in 1..(Levels - 1),
               TableAt(new, r, w, e) = None, TableAt(new, r, w, e - 1) # None
        PROVE  Index(w, e - 1) \notin DOMAIN new[TableAt(new, r, w, e - 1)]
    <3>1. e \in Depths /\ e - 1 \in Depths
      BY LevelFacts DEF Depths
    <3>2. TableAt(tab, r, w, e) = None /\ ~(e = d /\ Agree(w, v, d))
      BY <1>0, <1>4, <2>3, <3>1, Zenon
    <3>3. CASE TableAt(new, r, w, e - 1) = n
      BY <1>a, <3>3 DEF NewTables, Empty
    <3>4. CASE TableAt(new, r, w, e - 1) # n
      <4>1. TableAt(tab, r, w, e - 1) = TableAt(new, r, w, e - 1)
        BY <1>4, <3>1, <3>4, Zenon
      <4>2. Index(w, e - 1) \notin DOMAIN tab[TableAt(tab, r, w, e - 1)]
        BY <2>3, <3>2, <4>1, Zenon DEF Tree, Reaches
      <4>3. ~(e - 1 = c /\ Agree(w, v, c + 1))
        BY <3>2, LevelFacts
      <4>4. SameEntry(tab, new, TableAt(tab, r, w, e - 1), Index(w, e - 1))
        BY <1>a, <2>3, <3>1, <4>1, <4>3, Zenon DEF OtherEntries
      <4> QED BY <4>1, <4>2, <4>4, Zenon DEF SameEntry
    <3> QED BY <3>3, <3>4
  <2> QED BY <2>1, <2>2, <2>3, Zenon DEF Reaches
<1>9. ASSUME NEW w \in P, NEW e \in Depths, TableAt(new, r, w, e) = n
      PROVE  e = d /\ Agree(w, v, d)
  <2>1. n \notin F \cup {None}
    BY <1>0
  <2>2. TableAt(tab, r, w, e) # n
    BY <1>5, <2>1
  <2> QED BY <1>4, <1>9, <2>2, Zenon
<1>7. Apart(new, r, P)
  <2> SUFFICES ASSUME NEW w \in P, NEW x \in P, NEW e \in Depths, NEW f \in Depths,
                      TableAt(new, r, w, e) # None,
                      TableAt(new, r, w, e) = TableAt(new, r, x, f)
               PROVE  e = f /\ Agree(w, x, e)
    BY Zenon DEF Apart
  <2>1. CASE TableAt(new, r, w, e) = n
    <3>0. TableAt(new, r, x, f) = n
      BY <2>1
    <3>1. e = d /\ Agree(w, v, d)
      BY <1>9, <2>1, Zenon
    <3>2. f = d /\ Agree(x, v, d)
      BY <1>9, <3>0, Zenon
    <3> QED BY <3>1, <3>2 DEF Agree
  <2>2. CASE TableAt(new, r, w, e) # n
    <3>1. /\ TableAt(tab, r, w, e) # None
          /\ TableAt(tab, r, w, e) = TableAt(tab, r, x, f)
      BY <1>4, <2>2, Zenon
    <3> QED BY <3>1, Zenon DEF Tree, Apart
  <2> QED BY <2>1, <2>2
<1>8. TableAt(new, r, v, d) = n
  <2>1. Agree(v, v, d)
    BY DEF Agree
  <2> QED BY <1>4, <2>1, Zenon
<1> QED BY <1>b, <1>1, <1>2, <1>3, <1>6, <1>7, <1>8, Zenon DEF Tree, Relinked, AllKept

\* The walks of P are the same, and so are the entries they use above the leaf.
SameWalks(tab, new, r, P) ==
    \A v \in P, d \in Depths : TableAt(new, r, v, d) = TableAt(tab, r, v, d)
SameWays(tab, new, r, P) == \A v \in P : SameWay(tab, new, r, v, Levels - 1)

\* A tree whose walks and entries are kept is still a tree.
LEMMA KeepTree ==
    ASSUME NEW tab, NEW new, NEW r, NEW P, NEW F, Tree(tab, r, P, F), SameWays(tab, new, r, P)
    PROVE  Tree(new, r, P, F) /\ SameWalks(tab, new, r, P)
<1>1. SameWalks(tab, new, r, P)
  <2> SUFFICES ASSUME NEW v \in P, NEW d \in Depths
               PROVE  TableAt(new, r, v, d) = TableAt(tab, r, v, d)
    BY Zenon DEF SameWalks
  <2>1. SameWay(tab, new, r, v, Levels - 1)
    BY Zenon DEF SameWays
  <2>2. SameTables(tab, new, r, v, Levels - 1)
    BY <2>1, LevelFacts, PathRule, Zenon
  <2> QED BY <2>2 DEF SameTables, Depths
<1>2. Reaches(new, r, P, F)
  <2>1. \A v \in P, d \in Depths : TableAt(new, r, v, d) \in F \cup {None}
    BY <1>1, Zenon DEF SameWalks, Tree, Reaches
  <2>2. ASSUME NEW v \in P, NEW d \in 1..(Levels - 1),
               TableAt(new, r, v, d) = None, TableAt(new, r, v, d - 1) # None
        PROVE  Index(v, d - 1) \notin DOMAIN new[TableAt(new, r, v, d - 1)]
    <3>1. d \in Depths /\ d - 1 \in Depths /\ d - 1 \in 0..(Levels - 1 - 1)
      BY LevelFacts DEF Depths
    <3>2. /\ TableAt(tab, r, v, d) = None
          /\ TableAt(tab, r, v, d - 1) = TableAt(new, r, v, d - 1)
      BY <1>1, <2>2, <3>1, Zenon DEF SameWalks
    <3>3. Index(v, d - 1) \notin DOMAIN tab[TableAt(tab, r, v, d - 1)]
      BY <2>2, <3>2, Zenon DEF Tree, Reaches
    <3>4. SameEntry(tab, new, TableAt(tab, r, v, d - 1), Index(v, d - 1))
      BY <2>2, <3>1, <3>2, Zenon DEF SameWays, SameWay
    <3> QED BY <3>2, <3>3, <3>4, Zenon DEF SameEntry
  <2> QED BY <2>1, <2>2, Zenon DEF Tree, Reaches
<1>3. Apart(new, r, P)
  BY <1>1, ZenonT(60) DEF SameWalks, Tree, Apart
<1> QED BY <1>1, <1>2, <1>3, Zenon DEF Tree

\* A tree does not notice a change outside its tables.
Untouched(tab, new, F) == \A f \in F : new[f] = tab[f]

\* A tree whose frames are not written stays as it is.
LEMMA Unmoved ==
    ASSUME NEW tab, NEW new, NEW r, NEW P, NEW F, Tree(tab, r, P, F), Untouched(tab, new, F)
    PROVE  Tree(new, r, P, F) /\ SameWalks(tab, new, r, P) /\ Kept(tab, new, r, P)
<1>1. ASSUME NEW v \in P, NEW d \in Depths, TableAt(tab, r, v, d) # None
      PROVE  SameEntry(tab, new, TableAt(tab, r, v, d), Index(v, d))
  <2>1. TableAt(tab, r, v, d) \in F
    BY <1>1, Zenon DEF Tree, Reaches
  <2>2. new[TableAt(tab, r, v, d)] = tab[TableAt(tab, r, v, d)]
    BY <2>1, Zenon DEF Untouched
  <2> QED BY <2>2, Zenon DEF SameEntry
<1>2. ASSUME NEW v \in P PROVE SameWay(tab, new, r, v, Levels)
  BY <1>1, LevelFacts DEF SameWay, Depths
<1>3. SameWays(tab, new, r, P)
  <2>1. \A d \in 0..(Levels - 1 - 1) : d \in Depths
    BY LevelFacts DEF Depths
  <2> QED BY <1>1, <2>1, Zenon DEF SameWays, SameWay
<1>4. ASSUME NEW v \in P PROVE FindPte(new, r, v) = FindPte(tab, r, v)
  <2>1. SameWay(tab, new, r, v, Levels)
    BY <1>2
  <2> QED BY <2>1, FrameRule
<1>5. Tree(new, r, P, F) /\ SameWalks(tab, new, r, P)
  BY <1>3, KeepTree, Zenon
<1> QED BY <1>4, <1>5, Zenon DEF Kept

\* new differs from tab in the leaf entry of v at most.
LeafChange(tab, new, r, P, F, v, t) ==
    /\ Tree(tab, r, P, F) /\ P \subseteq Vpn /\ v \in P
    /\ t = TableAt(tab, r, v, Levels - 1) /\ t # None
    /\ Outside(tab, new, {t})
    /\ \A i : i # Index(v, Levels - 1) => SameEntry(tab, new, t, i)

OneLeaf(tab, new, r, P, F, v) ==
    /\ Tree(new, r, P, F) /\ SameWalks(tab, new, r, P)
    /\ Kept(tab, new, r, P \ {v}) /\ new[r] = tab[r]

\* Then the translation of v changes and no other.
LEMMA LeafTree ==
    ASSUME NEW tab, NEW new, NEW r, NEW P, NEW F, NEW v, NEW t,
           LeafChange(tab, new, r, P, F, v, t)
    PROVE  OneLeaf(tab, new, r, P, F, v)
<1> /\ Tree(tab, r, P, F) /\ P \subseteq Vpn /\ v \in P
    /\ t = TableAt(tab, r, v, Levels - 1) /\ t # None
    /\ Outside(tab, new, {t})
    /\ \A i : i # Index(v, Levels - 1) => SameEntry(tab, new, t, i)
  BY DEF LeafChange
<1>0. t \in F /\ F \subseteq Frame /\ r \in F /\ None \notin F /\ Levels - 1 \in Depths /\ 0 \in Depths
  <2>1. F \subseteq Frame /\ r \in F
    BY Zenon DEF Tree, Reaches
  <2>2. t \in F \cup {None}
    BY LevelFacts, Zenon DEF Tree, Reaches
  <2> QED BY <2>1, <2>2, LevelFacts, LayoutAssumption, Zenon
<1>1. ASSUME NEW w \in P, NEW d \in Depths, TableAt(tab, r, w, d) # None,
             TableAt(tab, r, w, d) # t
      PROVE  SameEntry(tab, new, TableAt(tab, r, w, d), Index(w, d))
  <2>1. TableAt(tab, r, w, d) \in Frame
    BY <1>0, <1>1 DEF Tree, Reaches
  <2>2. new[TableAt(tab, r, w, d)] = tab[TableAt(tab, r, w, d)]
    BY <1>1, <2>1 DEF Outside
  <2> QED BY <2>2, Zenon DEF SameEntry
<1>2. ASSUME NEW w \in P, NEW d \in Depths, TableAt(tab, r, w, d) = t
      PROVE  d = Levels - 1 /\ Agree(w, v, Levels - 1)
  <2>1. TableAt(tab, r, w, d) # None /\ TableAt(tab, r, w, d) = TableAt(tab, r, v, Levels - 1)
    BY <1>2
  <2>2. Apart(tab, r, P)
    BY Zenon DEF Tree
  <2>3. d = Levels - 1 /\ Agree(w, v, d)
    BY <1>0, <2>1, <2>2 DEF Apart
  <2> QED BY <2>3
<1>3. SameWays(tab, new, r, P)
  <2>1. \A d \in 0..(Levels - 1 - 1) : d \in Depths /\ d # Levels - 1
    BY LevelFacts DEF Depths
  <2> QED BY <1>1, <1>2, <2>1, Zenon DEF SameWays, SameWay
<1>4. Tree(new, r, P, F) /\ SameWalks(tab, new, r, P)
  BY <1>3, KeepTree, Zenon
<1>5. ASSUME NEW w \in P \ {v} PROVE FindPte(new, r, w) = FindPte(tab, r, w)
  <2>1. ASSUME NEW d \in Depths, TableAt(tab, r, w, d) # None
        PROVE  SameEntry(tab, new, TableAt(tab, r, w, d), Index(w, d))
    <3>1. CASE TableAt(tab, r, w, d) # t
      BY <1>1, <2>1, <3>1
    <3>2. CASE TableAt(tab, r, w, d) = t
      <4>1. d = Levels - 1 /\ Agree(w, v, Levels - 1)
        BY <1>2, <3>2
      <4>2. Index(w, Levels - 1) # Index(v, Levels - 1)
        <5> SUFFICES ASSUME Index(w, Levels - 1) = Index(v, Levels - 1) PROVE FALSE
          OBVIOUS
        <5>1. Levels - 1 \in Nat /\ Levels - 1 + 1 = Levels
          BY LevelFacts
        <5>2. Agree(w, v, Levels - 1 + 1)
          BY <4>1, <5>1, AgreeStep, Zenon
        <5>3. Agree(w, v, Levels)
          BY <5>1, <5>2
        <5> QED BY <5>3, DigitsDecide
      <4>3. SameEntry(tab, new, t, Index(w, Levels - 1))
        BY <4>2, Zenon
      <4> QED BY <3>2, <4>1, <4>3
    <3> QED BY <3>1, <3>2
  <2>2. SameWay(tab, new, r, w, Levels)
    BY <2>1, LevelFacts DEF SameWay, Depths
  <2> QED BY <2>2, FrameRule
<1>6. r # t
  <2> SUFFICES ASSUME r = t PROVE FALSE
    OBVIOUS
  <2>1. TableAt(tab, r, v, 0) = t
    BY TableRec, Zenon
  <2>2. 0 = Levels - 1
    BY <1>0, <1>2, <2>1, Zenon
  <2> QED BY <2>2, LevelFacts
<1>7. new[r] = tab[r]
  BY <1>0, <1>6 DEF Outside
<1> QED BY <1>0, <1>4, <1>5, <1>7, Zenon DEF Kept, OneLeaf

(****************************** find_pte_create ******************************)
IsBuild(b) ==
    /\ b = [ok |-> b.ok, tab |-> b.tab, own |-> b.own, used |-> b.used]
    /\ b.ok \in BOOLEAN

\* A build that starts from the tree of r, which owns F and what b allocated.
Start(b, r, P, F, v) ==
    /\ P \subseteq Vpn /\ v \in P
    /\ TabOK(b.tab) /\ Tree(b.tab, r, P, F \cup b.own)
    /\ F \cup b.own \subseteq b.used

\* What find_pte_create has done when it got from b to c: more tables of r
\* in frames that were free, and every translation as it was.
Grown(b, c, r, P, F, v) ==
    /\ TabOK(c.tab) /\ Tree(c.tab, r, P, F \cup c.own)
    /\ b.own \subseteq c.own /\ c.own \subseteq b.own \cup (Frame \ b.used)
    /\ c.used = b.used \cup c.own
    /\ AllKept(b.tab, c.tab, r, P, v, F \cup c.own)

\* What two levels of find_pte_create keep, both together keep.
LEMMA Compose ==
    ASSUME NEW a, NEW b, NEW c, NEW r, NEW P, NEW v, NEW G, NEW H, G \subseteq H,
           AllKept(a, b, r, P, v, G), AllKept(b, c, r, P, v, H)
    PROVE  AllKept(a, c, r, P, v, H)
<1> USE DEF AllKept
<1>1. Outside(a, c, H)
  BY DEF Outside
<1>2. RootKept(a, c, r, v)
  <2> SUFFICES ASSUME NEW i, i # Index(v, 0) PROVE SameEntry(a, c, r, i)
    BY Zenon DEF RootKept
  <2>1. SameEntry(a, b, r, i) /\ SameEntry(b, c, r, i)
    BY Zenon DEF RootKept
  <2> QED BY <2>1, Zenon DEF SameEntry
<1>3. Kept(a, c, r, P)
  BY Zenon DEF Kept
<1> QED BY <1>1, <1>2, <1>3

\* One level of find_pte_create that succeeds.
LEMMA LevelStep ==
    ASSUME NEW b, NEW x, NEW y, NEW r, NEW P, NEW F, NEW v,
           NEW c \in Nat, NEW d \in Depths, d = c + 1,
           Start(b, r, P, F, v), Grown(b, x, r, P, F, v), x.ok, IsBuild(x),
           TableAt(x.tab, r, v, c) # None,
           y = CreateLevel(x, r, v, d), y.ok
    PROVE  Grown(b, y, r, P, F, v) /\ TableAt(y.tab, r, v, d) # None
<1> DEFINE t == TableAt(x.tab, r, v, c)
           G == F \cup x.own
           n == Lowest(Frame \ x.used)
<1>0. c \in Depths /\ d - 1 = c /\ d \in 1..(Levels - 1)
  BY LevelFacts DEF Depths
<1>1. TabOK(x.tab) /\ Tree(x.tab, r, P, G) /\ P \subseteq Vpn /\ v \in P
  BY Zenon DEF Grown, Start
<1>2. t \in G
  BY <1>0, <1>1, Zenon DEF Tree, Reaches
<1>3. CASE Index(v, c) \in DOMAIN x.tab[t]
  <2>1. y = x
    BY <1>0, <1>3 DEF CreateLevel
  <2>2. TableAt(x.tab, r, v, d) # None
    <3> SUFFICES ASSUME TableAt(x.tab, r, v, d) = None PROVE FALSE
      OBVIOUS
    <3>1. Reaches(x.tab, r, P, G)
      BY <1>1, Zenon DEF Tree
    <3>2. Index(v, d - 1) \notin DOMAIN x.tab[TableAt(x.tab, r, v, d - 1)]
      BY <1>0, <1>1, <3>1 DEF Reaches
    <3> QED BY <1>0, <1>3, <3>2
  <2> QED BY <2>1, <2>2
<1>4. CASE Index(v, c) \notin DOMAIN x.tab[t]
  <2>1. Frame \ x.used # {}
    <3> SUFFICES ASSUME Frame \ x.used = {} PROVE FALSE
      OBVIOUS
    <3>1. y = [x EXCEPT !.ok = FALSE]
      BY <1>0, <1>4 DEF CreateLevel
    <3>2. y.ok = FALSE
      BY <3>1 DEF IsBuild
    <3> QED BY <3>2
  <2>2. n \in Frame \ x.used
    <3>1. Frame \ x.used \subseteq Nat
      BY LayoutAssumption, Zenon
    <3> QED BY <2>1, <3>1, LowestFact
  <2>3. y = [ok |-> TRUE, tab |-> Link(x.tab, t, Index(v, c), n),
             own |-> x.own \cup {n}, used |-> x.used \cup {n}]
    BY <1>0, <1>4, <2>1, Zenon DEF CreateLevel
  <2> HIDE DEF n
  <2>4. /\ y.tab = Link(x.tab, t, Index(v, c), n)
        /\ y.own = x.own \cup {n} /\ y.used = x.used \cup {n}
    BY <2>3
  <2>5. x.used = b.used \cup x.own /\ F \subseteq b.used
    BY DEF Grown, Start
  <2>6. n \notin G /\ n \in Frame
    BY <2>2, <2>5, ZenonT(30)
  <2>7. Linking(x.tab, y.tab, r, P, G, v, c, d, t, n)
    BY <1>1, <1>2, <1>4, <2>4, <2>6 DEF Linking
  <2> HIDE DEF t, G
  <2>8. Relinked(x.tab, y.tab, r, P, G \cup {n}, v, d, n)
    BY <2>7, LinkTree
  <2>9. G \cup {n} = F \cup y.own
    BY <2>4, ZenonT(30) DEF G
  <2>10. /\ b.own \subseteq y.own /\ y.own \subseteq b.own \cup (Frame \ b.used)
         /\ y.used = b.used \cup y.own
    BY <2>2, <2>4, <2>5, ZenonT(30) DEF Grown
  <2>11. AllKept(b.tab, y.tab, r, P, v, G \cup {n})
    <3>1. AllKept(b.tab, x.tab, r, P, v, G)
      BY Zenon DEF Grown, G
    <3>2. G \subseteq G \cup {n} /\ AllKept(x.tab, y.tab, r, P, v, G \cup {n})
      BY <2>8 DEF Relinked
    <3> QED BY <3>1, <3>2, Compose
  <2>12. n # None
    BY <2>6, LayoutAssumption
  <2> QED BY <2>8, <2>9, <2>10, <2>11, <2>12, Zenon DEF Grown, Relinked
<1> QED BY <1>3, <1>4

\* A level of find_pte_create that panics stays panicked, one that succeeds had
\* not panicked before.
LEMMA LevelBuild ==
    ASSUME NEW x, NEW r, NEW v, NEW d, IsBuild(x)
    PROVE  /\ IsBuild(CreateLevel(x, r, v, d))
           /\ CreateLevel(x, r, v, d).ok => x.ok
<1> DEFINE t == TableAt(x.tab, r, v, d - 1)
           n == Lowest(Frame \ x.used)
           y == CreateLevel(x, r, v, d)
<1>1. \/ y = x
      \/ x.ok /\ y = [x EXCEPT !.ok = FALSE]
      \/ x.ok /\ y = [ok |-> TRUE, tab |-> Link(x.tab, t, Index(v, d - 1), n),
              own |-> x.own \cup {n}, used |-> x.used \cup {n}]
  BY DEF CreateLevel
<1> HIDE DEF y, t, n
<1>2. CASE y = x
  BY <1>2 DEF y
<1>3. CASE x.ok /\ y = [x EXCEPT !.ok = FALSE]
  <2>1. y = [ok |-> FALSE, tab |-> x.tab, own |-> x.own, used |-> x.used]
    BY <1>3, Zenon DEF IsBuild
  <2>2. IsBuild(y)
    BY <2>1 DEF IsBuild
  <2> QED BY <1>3, <2>2 DEF y
<1>4. CASE x.ok /\ y = [ok |-> TRUE, tab |-> Link(x.tab, t, Index(v, d - 1), n),
                        own |-> x.own \cup {n}, used |-> x.used \cup {n}]
  <2>1. IsBuild(y)
    BY <1>4 DEF IsBuild
  <2> QED BY <1>4, <2>1 DEF y
<1> QED BY <1>1, <1>2, <1>3, <1>4

Created(b, c, r, P, F, v) ==
    Grown(b, c, r, P, F, v) /\ TableAt(c.tab, r, v, Levels - 1) # None

\* find_pte_create allocates what is missing and changes no translation.
LEMMA CreateGrows ==
    ASSUME NEW b, NEW r, NEW P, NEW F, NEW v, IsBuild(b)
    PROVE  /\ IsBuild(FindPteCreate(b, r, v))
           /\ FindPteCreate(b, r, v).ok => b.ok
           /\ FindPteCreate(b, r, v).ok /\ Start(b, r, P, F, v)
                => Created(b, FindPteCreate(b, r, v), r, P, F, v)
<1>1. PICK down :
        /\ down[0] = b
        /\ \A d \in 1..(Levels - 1) : down[d] = CreateLevel(down[d - 1], r, v, d)
        /\ FindPteCreate(b, r, v) = down[Levels - 1]
  BY CreateRec
<1>2. ASSUME NEW d \in Nat, d + 1 \in Depths
      PROVE  down[d + 1] = CreateLevel(down[d], r, v, d + 1)
  <2>1. d + 1 \in 1..(Levels - 1) /\ d + 1 - 1 = d
    BY <1>2, LevelFacts DEF Depths
  <2> QED BY <1>1, <2>1
<1> DEFINE Good(d) == IsBuild(down[d]) /\ (down[d].ok => b.ok)
           S == {d \in Nat : d \in Depths => Good(d)}
<1>3. \A d \in Depths : Good(d)
  <2>1. 0 \in S
    BY <1>1
  <2>2. ASSUME NEW d \in Nat, d \in S PROVE d + 1 \in S
    <3> SUFFICES ASSUME d + 1 \in Depths PROVE Good(d + 1)
      OBVIOUS
    <3>1. d \in Depths
      BY LevelFacts DEF Depths
    <3>2. IsBuild(down[d]) /\ (down[d].ok => b.ok)
      BY <2>2, <3>1
    <3>3. IsBuild(down[d + 1]) /\ (down[d + 1].ok => down[d].ok)
      BY <1>2, <3>2, LevelBuild
    <3> QED BY <3>2, <3>3
  <2> HIDE DEF S
  <2>3. \A d \in Nat : d \in S
    BY <2>1, <2>2, Upwards, Zenon
  <2> QED BY <2>3, LevelFacts DEF S, Depths
<1>4. ASSUME Start(b, r, P, F, v)
      PROVE  \A d \in Depths : down[d].ok
                => Grown(b, down[d], r, P, F, v) /\ TableAt(down[d].tab, r, v, d) # None
  <2> DEFINE Fine(d) == down[d].ok
                => Grown(b, down[d], r, P, F, v) /\ TableAt(down[d].tab, r, v, d) # None
             T == {d \in Nat : d \in Depths => Fine(d)}
  <2>1. 0 \in T
    <3>1. Grown(b, b, r, P, F, v)
      <4>1. AllKept(b.tab, b.tab, r, P, v, F \cup b.own)
        BY DEF AllKept, Outside, RootKept, Kept, SameEntry
      <4>2. b.used = b.used \cup b.own
        BY <1>4 DEF Start
      <4> QED BY <1>4, <4>1, <4>2 DEF Grown, Start
    <3>2. TableAt(b.tab, r, v, 0) # None
      <4>1. r \in Frame
        BY <1>4 DEF Start, Tree, Reaches
      <4>2. r # None /\ TableAt(b.tab, r, v, 0) = r
        BY <4>1, LayoutAssumption, TableRec
      <4> QED BY <4>2
    <3> QED BY <1>1, <3>1, <3>2
  <2>2. ASSUME NEW d \in Nat, d \in T PROVE d + 1 \in T
    <3> SUFFICES ASSUME d + 1 \in Depths, down[d + 1].ok
                 PROVE  Grown(b, down[d + 1], r, P, F, v) /\ TableAt(down[d + 1].tab, r, v, d + 1) # None
      OBVIOUS
    <3>1. d \in Depths
      BY LevelFacts DEF Depths
    <3>2. IsBuild(down[d]) /\ down[d + 1] = CreateLevel(down[d], r, v, d + 1)
      BY <1>2, <1>3, <3>1
    <3>3. down[d].ok
      BY <3>2, LevelBuild
    <3>4. Grown(b, down[d], r, P, F, v) /\ TableAt(down[d].tab, r, v, d) # None
      BY <2>2, <3>1, <3>3
    <3> QED BY <1>4, <3>2, <3>3, <3>4, LevelStep
  <2> HIDE DEF T
  <2>3. \A d \in Nat : d \in T
    BY <2>1, <2>2, Upwards, Zenon
  <2> QED BY <2>3, LevelFacts DEF T, Depths
<1> HIDE DEF Good
<1>5. Good(Levels - 1)
  BY <1>3, LevelFacts
<1> QED BY <1>1, <1>4, <1>5, LevelFacts DEF Good, Created

(************************************ leaves *********************************)
\* The tree with the leaf of v set to what S holds.
LeafSet(tab, new, r, P, F, v, S) ==
    /\ TabOK(new) /\ Tree(new, r, P, F) /\ SameWalks(tab, new, r, P)
    /\ Kept(tab, new, r, P \ {v}) /\ new[r] = tab[r] /\ Outside(tab, new, F)
    /\ FindPte(new, r, v) = S

LeafReady(tab, r, P, F, v) ==
    /\ TabOK(tab) /\ Tree(tab, r, P, F) /\ P \subseteq Vpn /\ v \in P
    /\ TableAt(tab, r, v, Levels - 1) # None

\* The leaf table of v is a frame of the tree, and the index of v is in it.
LEMMA LeafFrame ==
    ASSUME NEW tab, NEW r, NEW P, NEW F, NEW v, LeafReady(tab, r, P, F, v)
    PROVE  /\ TableAt(tab, r, v, Levels - 1) \in F /\ F \subseteq Frame
           /\ Index(v, Levels - 1) \in 0..(Fanout - 1)
<1>1. Index(v, Levels - 1) \in 0..(Fanout - 1)
  BY LevelFacts, IndexRange DEF LeafReady, Vpn
<1>2. TableAt(tab, r, v, Levels - 1) \in F \cup {None} /\ F \subseteq Frame
  BY LevelFacts, Zenon DEF LeafReady, Tree, Reaches
<1> QED BY <1>1, <1>2 DEF LeafReady

\* The table g is h but for entry i.
SameBut(g, h, i) ==
    /\ DOMAIN g \subseteq DOMAIN h \cup {i}
    /\ \A j : j # i => (j \in DOMAIN g <=> j \in DOMAIN h) /\ (j \in DOMAIN h => g[j] = h[j])

Replaced(tab, new, t, g) == new = [tab EXCEPT ![t] = g]

LeafEdit(tab, new, r, P, F, v, t, g) ==
    /\ LeafReady(tab, r, P, F, v) /\ t = TableAt(tab, r, v, Levels - 1)
    /\ SameBut(g, tab[t], Index(v, Levels - 1)) /\ Replaced(tab, new, t, g)
LeafEdited(tab, new, r, P, F, v, t, g) ==
    LeafSet(tab, new, r, P, F, v, FindPte(new, r, v)) /\ new[t] = g

\* Writing the leaf entry of v changes no walk, and no leaf of another page:
\* two pages with the same leaf table have different last indices.
LEMMA LeafChanges ==
    ASSUME NEW tab, NEW new, NEW r, NEW P, NEW F, NEW v, NEW t, NEW g,
           LeafEdit(tab, new, r, P, F, v, t, g)
    PROVE  LeafEdited(tab, new, r, P, F, v, t, g)
<1> /\ LeafReady(tab, r, P, F, v) /\ t = TableAt(tab, r, v, Levels - 1)
    /\ SameBut(g, tab[t], Index(v, Levels - 1)) /\ Replaced(tab, new, t, g)
  BY ZenonT(30) DEF LeafEdit
<1>1. t \in F /\ F \subseteq Frame /\ Index(v, Levels - 1) \in 0..(Fanout - 1) /\ DOMAIN tab = Frame
  BY LeafFrame DEF LeafReady, TabOK
<1>2. DOMAIN new = Frame /\ new[t] = g /\ \A f \in Frame \ {t} : new[f] = tab[f]
  BY <1>1 DEF Replaced
<1>3. LeafChange(tab, new, r, P, F, v, t)
  <2>1. Outside(tab, new, {t})
    BY <1>2 DEF Outside
  <2>2. \A i : i # Index(v, Levels - 1) => SameEntry(tab, new, t, i)
    BY <1>2, Zenon DEF SameEntry, SameBut
  <2> QED BY <2>1, <2>2, Zenon DEF LeafChange, LeafReady
<1>4. OneLeaf(tab, new, r, P, F, v)
  BY <1>3, LeafTree
<1>5. TabOK(new)
  <2>1. ASSUME NEW f \in Frame PROVE DOMAIN new[f] \subseteq 0..(Fanout - 1)
    <3>1. DOMAIN tab[f] \subseteq 0..(Fanout - 1)
      BY DEF LeafReady, TabOK
    <3>2. CASE f = t
      BY <1>1, <1>2, <3>1, <3>2, Zenon DEF SameBut
    <3>3. CASE f # t
      BY <1>2, <3>1, <3>3
    <3> QED BY <3>2, <3>3
  <2> QED BY <1>2, <2>1, ZenonT(60) DEF TabOK
<1>6. Outside(tab, new, F)
  BY <1>1, <1>2 DEF Outside
<1> QED BY <1>2, <1>4, <1>5, <1>6, Zenon DEF LeafSet, OneLeaf, LeafEdited

\* Setting an entry gives v that translation.
LEMMA SetLeafFact ==
    ASSUME NEW tab, NEW r, NEW P, NEW F, NEW v, NEW e, LeafReady(tab, r, P, F, v)
    PROVE  LeafSet(tab, SetLeaf(tab, r, v, e), r, P, F, v, {e})
<1> DEFINE t == TableAt(tab, r, v, Levels - 1)
           i == Index(v, Levels - 1)
           g == Put(tab[t], i, e)
           new == SetLeaf(tab, r, v, e)
<1>1. new = [tab EXCEPT ![t] = g]
  BY Zenon DEF SetLeaf
<1>2. DOMAIN g = DOMAIN tab[t] \cup {i} /\ g[i] = e /\ SameBut(g, tab[t], i)
  BY DEF Put, SameBut
<1> HIDE DEF new, g, t, i
<1>3. LeafSet(tab, new, r, P, F, v, FindPte(new, r, v)) /\ new[t] = g
  <2>1. t = TableAt(tab, r, v, Levels - 1) /\ SameBut(g, tab[t], Index(v, Levels - 1))
    BY <1>2 DEF t, i
  <2>2. Replaced(tab, new, t, g)
    BY <1>1, Zenon DEF Replaced
  <2>3. LeafEdit(tab, new, r, P, F, v, t, g)
    BY <2>1, <2>2, Zenon DEF LeafEdit
  <2>4. LeafEdited(tab, new, r, P, F, v, t, g)
    BY <2>3, LeafChanges, Zenon
  <2> QED BY <2>4, ZenonT(60) DEF LeafEdited
<1>4. TableAt(new, r, v, Levels - 1) = t /\ t # None
  BY <1>3, LevelFacts, ZenonT(30) DEF LeafSet, SameWalks, LeafReady, t
<1>5. FindPte(new, r, v) = {e}
  BY <1>2, <1>3, <1>4 DEF FindPte, i
<1> QED BY <1>3, <1>5 DEF new

\* Clearing it leaves v without one.
LEMMA ClearLeafFact ==
    ASSUME NEW tab, NEW r, NEW P, NEW F, NEW v, LeafReady(tab, r, P, F, v)
    PROVE  LeafSet(tab, ClearLeaf(tab, r, v), r, P, F, v, {})
<1> DEFINE t == TableAt(tab, r, v, Levels - 1)
           i == Index(v, Levels - 1)
           g == Without(tab[t], {i})
           new == ClearLeaf(tab, r, v)
<1>1. new = [tab EXCEPT ![t] = g]
  BY Zenon DEF ClearLeaf
<1>2. DOMAIN g = DOMAIN tab[t] \ {i} /\ SameBut(g, tab[t], i)
  BY DEF Without, SameBut
<1> HIDE DEF new, g, t, i
<1>3. LeafSet(tab, new, r, P, F, v, FindPte(new, r, v)) /\ new[t] = g
  <2>1. t = TableAt(tab, r, v, Levels - 1) /\ SameBut(g, tab[t], Index(v, Levels - 1))
    BY <1>2, ZenonT(30) DEF t, i
  <2>2. Replaced(tab, new, t, g)
    BY <1>1, Zenon DEF Replaced
  <2>3. LeafEdit(tab, new, r, P, F, v, t, g)
    BY <2>1, <2>2, Zenon DEF LeafEdit
  <2>4. LeafEdited(tab, new, r, P, F, v, t, g)
    BY <2>3, LeafChanges, Zenon
  <2> QED BY <2>4, Zenon DEF LeafEdited
<1>4. TableAt(new, r, v, Levels - 1) = t /\ t # None
  BY <1>3, LevelFacts DEF LeafSet, SameWalks, LeafReady, t
<1>5. FindPte(new, r, v) = {}
  BY <1>2, <1>3, <1>4 DEF FindPte, i
<1> QED BY <1>3, <1>5 DEF new

\* The root entries of user pages are not the ones shared with the kernel.
LEMMA PageFacts ==
    /\ KernelPages \subseteq Vpn /\ UserPages \subseteq Vpn
    /\ \A v \in KernelPages : Index(v, 0) \in Shared
    /\ \A v \in UserPages : Index(v, 0) \notin Shared
<1>1. Levels - 1 - 0 = Levels - 1
  BY LevelFacts
<1>2. ASSUME NEW v \in KernelPages PROVE v \in Vpn /\ Index(v, 0) \in Shared
  <2>1. Shift(v, Levels - 1) \in Shared /\ Shift(v, Levels - 1) \in 0..(Fanout - 1) /\ v \in Nat
    BY LayoutAssumption, Zenon
  <2> QED BY <1>1, <2>1, LevelFacts DEF Index, Vpn
<1>3. ASSUME NEW v \in UserPages PROVE v \in Vpn /\ Index(v, 0) \notin Shared
  <2>1. /\ Shift(v, Levels - 1) \in 0..(Fanout - 1) /\ Shift(v, Levels - 1) \notin Shared
        /\ v \in Nat
    BY LayoutAssumption
  <2> QED BY <1>1, <2>1, LevelFacts DEF Index, Vpn
<1> QED BY <1>2, <1>3
==============================================================================
