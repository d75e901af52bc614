-------------------------- MODULE DescriptorProofs ---------------------------
(****************************************************************************)
(* Proofs about what a program holds descriptors for: the listing of a      *)
(* directory is complete (Directory), for any openings, names and buffers;  *)
(* descriptor tables agree with their allocators (FdTable), for every       *)
(* number of tasks, tables, files and descriptors; and the time stamps of a *)
(* file of a FAT volume are right (FatTime), for every date.                *)
(****************************************************************************)
EXTENDS FdTable, Directory, FatTime, TLAPS, FiniteSetTheorems, WellFoundedInduction

(********************************* listings **********************************)
\* A set of numbers has a least member.
LEMMA LeastOf ==
    ASSUME NEW S, S \subseteq Nat, S # {}
    PROVE  \E x \in S : \A y \in S : x <= y
<1>1. IsWellFoundedOn(OpToRel(<, Nat), Nat)
  BY NatLessThanWellFounded, Zenon
<1>2. PICK x \in S : \A y \in S : ~(<<y, x>> \in OpToRel(<, Nat))
  BY <1>1, WFMin, Zenon
<1>3. ASSUME NEW y \in S PROVE x <= y
  <2>1. ~(<<y, x>> \in {ss \in Nat \X Nat : ss[1] < ss[2]})
    BY <1>2 DEF OpToRel
  <2>2. x \in Nat /\ y \in Nat /\ ~(y < x)
    BY <2>1
  <2> QED BY <2>2
<1> QED BY <1>3

\* Induction, stated of a set.
LEMMA Upwards ==
    ASSUME NEW S, 0 \in S, \A n \in Nat : n \in S => n + 1 \in S
    PROVE  \A n \in Nat : n \in S
<1> SUFFICES ASSUME Nat \ S # {} PROVE FALSE
  OBVIOUS
<1>1. PICK m \in Nat \ S : \A q \in Nat \ S : m <= q
  BY LeastOf, Zenon
<1>2. m # 0 /\ m - 1 \in Nat /\ m - 1 + 1 = m
  BY <1>1
<1>3. m - 1 \notin S
  BY <1>1, <1>2
<1> QED BY <1>1, <1>2, <1>3
\* The names of a directory are finitely many.
LEMMA EntryFinite ==
    /\ IsFiniteSet(Entry) /\ Last \in Nat
    /\ \A n \in Entry : n \in 1..Last
<1>1. PICK n \in Entry : \A m \in Entry : n >= m
  BY EntryAssumption
<1>2. Entry \subseteq Nat \ {0}
  BY EntryAssumption
<1>3. Last \in Entry /\ \A m \in Entry : Last >= m
  BY <1>1 DEF Last
<1>4. Last \in Nat /\ \A m \in Entry : m \in 1..Last
  <2> DEFINE t == Last
  <2>1. t \in Entry /\ \A m \in Entry : t >= m
    BY <1>3
  <2> HIDE DEF t
  <2>2. t \in Nat
    BY <1>2, <2>1
  <2>3. ASSUME NEW m \in Entry PROVE m \in 1..t
    <3>1. m \in Nat \ {0} /\ t >= m
      BY <1>2, <2>1
    <3> QED BY <2>2, <3>1
  <2> QED BY <2>2, <2>3 DEF t
<1>5. Entry \subseteq 1..Last /\ IsFiniteSet(1..Last)
  BY <1>4, FS_Interval
<1> QED BY <1>4, <1>5, FS_Subset, Zenon

Sums(f, S, k) ==
    f = [m \in 0..k |-> IF m = 0 THEN 0 ELSE f[m - 1] + (IF m \in S THEN DirentSize[m] ELSE 0)]

\* The running sum of the sizes of the entries exists.
LEMMA SumExists ==
    ASSUME NEW S, NEW k \in Nat
    PROVE  \E f : Sums(f, S, k)
<1> DEFINE T == {n \in Nat : \E f : Sums(f, S, n)}
<1>1. 0 \in T
  <2>1. Sums([m \in 0..0 |-> 0], S, 0)
    BY DEF Sums
  <2> QED BY <2>1, Zenon
<1>2. ASSUME NEW n \in Nat, n \in T PROVE n + 1 \in T
  <2>1. PICK f : Sums(f, S, n)
    BY <1>2
  <2> DEFINE g == [m \in 0..(n + 1) |->
                     IF m = 0 THEN 0 ELSE f[m - 1] + (IF m \in S THEN DirentSize[m] ELSE 0)]
  <2>2. \A i \in 0..n : g[i] = f[i]
    BY <2>1 DEF Sums
  <2>3. \A i \in 0..(n + 1) : i # 0 => i - 1 \in 0..n
    OBVIOUS
  <2>4. Sums(g, S, n + 1)
    BY <2>2, <2>3, Zenon DEF Sums
  <2> HIDE DEF g
  <2> QED BY <2>4
<1> HIDE DEF T
<1>3. k \in T
  BY <1>1, <1>2, Upwards
<1> QED BY <1>3 DEF T

\* SizeTo, unfolded once.
LEMMA SizeToRule ==
    ASSUME NEW S, S \subseteq Entry
    PROVE  /\ SizeTo(S, 0) = 0
           /\ \A m \in 1..Last : SizeTo(S, m) = SizeTo(S, m - 1) + (IF m \in S THEN DirentSize[m] ELSE 0)
<1>0. Last \in Nat
  BY EntryFinite
<1>1. PICK f : Sums(f, S, Last)
  BY <1>0, SumExists
<1> DEFINE sum == CHOOSE h : Sums(h, S, Last)
<1>2. Sums(sum, S, Last)
  BY <1>1, Zenon
<1>3. \A n : SizeTo(S, n) = sum[n]
  BY Zenon DEF SizeTo, Sums
<1> HIDE DEF sum
<1>4. sum[0] = 0
  BY <1>0, <1>2 DEF Sums
<1>5. ASSUME NEW m \in 1..Last
      PROVE  sum[m] = sum[m - 1] + (IF m \in S THEN DirentSize[m] ELSE 0)
  <2>1. m \in 0..Last /\ m # 0
    BY <1>0
  <2> QED BY <1>2, <2>1, Zenon DEF Sums
<1> QED BY <1>3, <1>4, <1>5

\* The entries of getdents64 take more room the more of them there are.
LEMMA SizeToGrows ==
    ASSUME NEW S, S \subseteq Entry
    PROVE  /\ \A n \in 0..Last : SizeTo(S, n) \in Nat
           /\ \A m, n \in 0..Last : m <= n => SizeTo(S, m) <= SizeTo(S, n)
<1>0. Last \in Nat /\ \A n \in S : DirentSize[n] \in Nat
  BY EntryFinite, EntryAssumption
<1> DEFINE z(n) == SizeTo(S, n)
           T == {n \in Nat : n <= Last =>
                   z(n) \in Nat /\ \A m \in 0..n : z(m) \in Nat /\ z(m) <= z(n)}
<1>1. z(0) = 0 /\ \A m \in 1..Last : z(m) = z(m - 1) + (IF m \in S THEN DirentSize[m] ELSE 0)
  BY SizeToRule
<1> HIDE DEF z
<1>2. 0 \in T
  BY <1>1
<1>3. ASSUME NEW n \in Nat, n \in T PROVE n + 1 \in T
  <2> SUFFICES ASSUME n + 1 <= Last
               PROVE  z(n + 1) \in Nat /\ \A m \in 0..(n + 1) : z(m) \in Nat /\ z(m) <= z(n + 1)
    OBVIOUS
  <2>1. z(n) \in Nat /\ \A m \in 0..n : z(m) \in Nat /\ z(m) <= z(n)
    BY <1>0, <1>3
  <2>2. n + 1 \in 1..Last /\ n + 1 - 1 = n
    BY <1>0
  <2>3. z(n + 1) = z(n) + (IF n + 1 \in S THEN DirentSize[n + 1] ELSE 0)
    BY <1>1, <2>2
  <2>4. z(n + 1) \in Nat /\ z(n + 1) >= z(n)
    BY <1>0, <2>1, <2>3
  <2>5. ASSUME NEW m \in 0..(n + 1) PROVE z(m) \in Nat /\ z(m) <= z(n + 1)
    <3>1. m \in 0..n \/ m = n + 1
      OBVIOUS
    <3> QED BY <2>1, <2>4, <3>1
  <2> QED BY <2>4, <2>5
<1> HIDE DEF T
<1>4. \A n \in Nat : n \in T
  BY <1>2, <1>3, Upwards
<1>5. ASSUME NEW n \in 0..Last PROVE z(n) \in Nat /\ \A m \in 0..n : z(m) <= z(n)
  <2>1. n \in Nat /\ n <= Last
    BY <1>0
  <2> QED BY <1>4, <2>1 DEF T
<1> QED BY <1>0, <1>5 DEF z

\* The first entry takes its own size.
LEMMA SizeOfLeast ==
    ASSUME NEW S, S \subseteq Entry, NEW a \in S, \A b \in S : a <= b
    PROVE  SizeTo(S, a) = DirentSize[a]
<1>0. Last \in Nat /\ a \in 1..Last /\ DirentSize[a] \in Nat
  BY EntryFinite, EntryAssumption
<1> DEFINE z(n) == SizeTo(S, n)
           T == {n \in Nat : n < a => z(n) = 0}
<1>1. z(0) = 0 /\ \A m \in 1..Last : z(m) = z(m - 1) + (IF m \in S THEN DirentSize[m] ELSE 0)
  BY SizeToRule
<1> HIDE DEF z
<1>2. 0 \in T
  BY <1>1
<1>3. ASSUME NEW n \in Nat, n \in T PROVE n + 1 \in T
  <2> SUFFICES ASSUME n + 1 < a PROVE z(n + 1) = 0
    OBVIOUS
  <2>1. z(n) = 0 /\ n + 1 \in 1..Last /\ n + 1 - 1 = n
    BY <1>0, <1>3
  <2>2. n + 1 \notin S
    BY <1>0
  <2> QED BY <1>1, <2>1, <2>2
<1> HIDE DEF T
<1>4. a - 1 \in T
  BY <1>0, <1>2, <1>3, Upwards
<1>5. z(a - 1) = 0
  BY <1>0, <1>4 DEF T
<1>6. z(a) = DirentSize[a]
  BY <1>0, <1>1, <1>5
<1> QED BY <1>6 DEF z

\* The place of a name among the names E.
Below(E, n) == {m \in E : m < n}
Rank(E, n) == Cardinality(Below(E, n))
Past(E, k) == {m \in E : Rank(E, m) < k}
From(E, k) == {m \in E : Rank(E, m) >= k}

\* Parts of the directory are finite, and a part is not larger.
LEMMA Finite ==
    ASSUME NEW E, E \subseteq Entry, NEW S, S \subseteq E
    PROVE  /\ IsFiniteSet(S) /\ Cardinality(S) \in Nat /\ S \subseteq Nat
           /\ Cardinality(S) <= Cardinality(E) /\ Cardinality(E) <= Cardinality(Entry)
           /\ Cardinality(E) \in Nat /\ Cardinality(Entry) \in Nat
<1>1. IsFiniteSet(Entry) /\ Entry \subseteq Nat
  BY EntryFinite, EntryAssumption
<1>2. IsFiniteSet(E) /\ IsFiniteSet(S) /\ S \subseteq Nat
  BY <1>1, FS_Subset, Zenon
<1> QED BY <1>1, <1>2, FS_Subset, FS_CardinalityType, Zenon

\* Places grow with the names and with the directory.
LEMMA RankGrows ==
    ASSUME NEW E, E \subseteq Entry
    PROVE  /\ \A n \in E : Rank(E, n) \in Nat
           /\ \A m, n \in E : m <= n => Rank(E, m) <= Rank(E, n)
           /\ \A D \in SUBSET E : \A n \in D : Rank(D, n) \in Nat /\ Rank(D, n) <= Rank(E, n)
<1>0. E \subseteq Nat
  BY EntryAssumption
<1>1. ASSUME NEW n \in E PROVE Rank(E, n) \in Nat /\ IsFiniteSet(Below(E, n))
  BY Finite DEF Rank, Below
<1>2. ASSUME NEW m \in E, NEW n \in E, m <= n PROVE Rank(E, m) <= Rank(E, n)
  <2>1. Below(E, m) \subseteq Below(E, n)
    <3>1. ASSUME NEW b \in E, b < m PROVE b < n
      <4>1. b \in Nat /\ m \in Nat /\ n \in Nat
        BY <1>0
      <4> QED BY <1>2, <3>1, <4>1
    <3> QED BY <3>1 DEF Below
  <2> QED BY <1>1, <2>1, FS_Subset DEF Rank
<1>3. ASSUME NEW D \in SUBSET E, NEW n \in D
      PROVE  Rank(D, n) \in Nat /\ Rank(D, n) <= Rank(E, n)
  <2>1. Below(D, n) \subseteq Below(E, n)
    BY DEF Below
  <2>2. IsFiniteSet(Below(E, n))
    BY <1>1
  <2>3. Cardinality(Below(D, n)) <= Cardinality(Below(E, n)) /\ IsFiniteSet(Below(D, n))
    BY <2>1, <2>2, FS_Subset
  <2> QED BY <2>3, FS_CardinalityType DEF Rank
<1> QED BY <1>1, <1>2, <1>3

\* When there is a name at place k or later, k names come before that place.
LEMMA EnoughPast ==
    ASSUME NEW E, E \subseteq Entry, NEW k \in Nat, From(E, k) # {}
    PROVE  Cardinality(Past(E, k)) >= k
<1>0. E \subseteq Nat
  BY EntryAssumption
<1>1. PICK a \in From(E, k) : \A b \in From(E, k) : a <= b
  BY <1>0, LeastOf, Zenon DEF From
<1>2. a \in E /\ Rank(E, a) >= k
  BY <1>1 DEF From
<1>3. Below(E, a) = Past(E, k)
  <2>1. ASSUME NEW m \in E, m < a PROVE Rank(E, m) < k
    <3>1. m \notin From(E, k)
      BY <1>0, <1>1, <1>2, <2>1
    <3>2. ~(Rank(E, m) >= k) /\ Rank(E, m) \in Nat
      BY <3>1, RankGrows DEF From
    <3> QED BY <3>2
  <2>2. ASSUME NEW m \in E, Rank(E, m) < k PROVE m < a
    <3>1. ~(a <= m)
      BY <1>2, <2>2, RankGrows
    <3> QED BY <1>0, <1>2, <3>1
  <2> QED BY <2>1, <2>2 DEF Below, Past
<1> QED BY <1>2, <1>3 DEF Rank

Apart(A, B) ==
    /\ IsFiniteSet(A \cup B) /\ Cardinality(A \cup B) = Cardinality(A) + Cardinality(B)
    /\ Cardinality(B) \in Nat /\ Cardinality(A) \in Nat

\* The names before place k and a part of the later ones are apart: together
\* they are as many as both.
LEMMA TwoParts ==
    ASSUME NEW E, E \subseteq Entry, NEW k \in Nat, NEW R, R \subseteq From(E, k)
    PROVE  Apart(Past(E, k), R)
<1>1. Past(E, k) \subseteq E /\ R \subseteq E
  BY DEF Past, From
<1>2. IsFiniteSet(Past(E, k)) /\ IsFiniteSet(R)
  BY <1>1, Finite
<1>3. Past(E, k) \cap R = {}
  <2> SUFFICES ASSUME NEW m \in Past(E, k), m \in R PROVE FALSE
    OBVIOUS
  <2>1. m \in E /\ Rank(E, m) < k /\ Rank(E, m) >= k
    BY DEF Past, From
  <2>2. Rank(E, m) \in Nat
    BY <2>1, RankGrows
  <2> QED BY <2>1, <2>2
<1>4. /\ IsFiniteSet(Past(E, k) \cup R)
      /\ Cardinality(Past(E, k) \cup R)
           = Cardinality(Past(E, k)) + Cardinality(R) - Cardinality(Past(E, k) \cap R)
  BY <1>2, FS_Union
<1>5. Cardinality({}) = 0
  BY FS_EmptySet
<1>6. Cardinality(R) \in Nat /\ Cardinality(Past(E, k)) \in Nat
  BY <1>2, FS_CardinalityType
<1> DEFINE c == Cardinality(Past(E, k))
           d == Cardinality(R)
           u == Cardinality(Past(E, k) \cup R)
<1>7. u = c + d - 0 /\ c \in Nat /\ d \in Nat
  BY <1>3, <1>4, <1>5, <1>6, Zenon
<1> HIDE DEF c, d, u
<1>8. u = c + d
  BY <1>7
<1> QED BY <1>4, <1>6, <1>8 DEF c, d, u, Apart

Fit(E, k, count) == {n \in From(E, k) : SizeTo(From(E, k), n) <= count}

\* What getdents64 returns ends where its next index begins: every name whose
\* place is before the new index was returned now or comes before the old one.
LEMMA ReturnsPrefix ==
    ASSUME NEW E, E \subseteq Entry, NEW k \in Nat, NEW count \in Nat, NEW n \in E,
           Rank(E, n) < k + Cardinality(Fit(E, k, count))
    PROVE  Rank(E, n) < k \/ n \in Fit(E, k, count)
<1> DEFINE S == From(E, k)
           R == Fit(E, k, count)
<1>0. E \subseteq Nat /\ S \subseteq Entry /\ R \subseteq S /\ S \subseteq E
  BY EntryAssumption, Zenon DEF From, Fit
<1> SUFFICES ASSUME ~(Rank(E, n) < k), n \notin R PROVE FALSE
  OBVIOUS
<1>1. n \in S
  BY RankGrows DEF From
<1>2. Cardinality(Past(E, k)) >= k
  BY <1>1, EnoughPast
<1>3. Past(E, k) \cup R \subseteq Below(E, n)
  <2>1. ASSUME NEW m \in Past(E, k) PROVE m \in E /\ m < n
    <3>1. m \in E /\ Rank(E, m) < k
      BY DEF Past
    <3>2. ~(n <= m)
      BY <3>1, RankGrows
    <3> QED BY <1>0, <3>1, <3>2
  <2>2. ASSUME NEW m \in R PROVE m \in E /\ m < n
    <3>1. m \in S /\ SizeTo(S, m) <= count
      BY DEF Fit
    <3>2. m \in 0..Last /\ n \in 0..Last
      <4>1. Last \in Nat /\ m \in 1..Last /\ n \in 1..Last
        BY <1>0, <3>1, EntryFinite, Zenon
      <4> QED BY <4>1
    <3>3. ~(n <= m)
      <4> SUFFICES ASSUME n <= m PROVE FALSE
        OBVIOUS
      <4>1. SizeTo(S, n) <= SizeTo(S, m) /\ SizeTo(S, n) \in Nat /\ SizeTo(S, m) \in Nat
        BY <1>0, <3>2, SizeToGrows
      <4>2. SizeTo(S, n) <= count
        BY <3>1, <4>1
      <4> QED BY <1>1, <4>2 DEF Fit
    <3>4. m \in E /\ m \in Nat /\ n \in Nat
      BY <1>0, <3>1, Zenon
    <3> QED BY <3>3, <3>4
  <2> QED BY <2>1, <2>2 DEF Below
<1>4. Below(E, n) \subseteq E
  BY DEF Below
<1>5. IsFiniteSet(Below(E, n))
  BY <1>4, Finite
<1>6. Cardinality(Past(E, k) \cup R) <= Rank(E, n)
  BY <1>3, <1>5, FS_Subset DEF Rank
<1>7. /\ Cardinality(Past(E, k) \cup R) = Cardinality(Past(E, k)) + Cardinality(R)
      /\ Cardinality(R) \in Nat /\ Cardinality(Past(E, k)) \in Nat
  <2>1. R \subseteq From(E, k)
    BY <1>0
  <2> HIDE DEF R
  <2>2. Apart(Past(E, k), R)
    BY <2>1, TwoParts
  <2> QED BY <2>2 DEF Apart
<1>8. Rank(E, n) \in Nat /\ Rank(E, n) < k + Cardinality(R)
  BY RankGrows
<1> HIDE DEF R
<1> QED BY <1>2, <1>6, <1>7, <1>8

\* The index does not pass the names there can be.
LEMMA IndexBound ==
    ASSUME NEW E, E \subseteq Entry, NEW k \in 0..Cardinality(Entry), NEW count \in Nat
    PROVE  k + Cardinality(Fit(E, k, count)) \in 0..Cardinality(Entry)
<1> DEFINE R == Fit(E, k, count)
<1>0. R \subseteq From(E, k) /\ From(E, k) \subseteq E /\ Past(E, k) \subseteq E
  BY DEF Fit, From, Past
<1>1. Cardinality(Entry) \in Nat /\ k \in Nat
  BY EntryFinite, FS_CardinalityType
<1>2. CASE R = {}
  BY <1>1, <1>2, FS_EmptySet
<1>3. CASE R # {}
  <2>1. Cardinality(Past(E, k)) >= k
    BY <1>0, <1>1, <1>3, EnoughPast
  <2>2. Cardinality(Past(E, k) \cup R) <= Cardinality(E) /\ Cardinality(E) <= Cardinality(Entry)
        /\ Cardinality(E) \in Nat
    BY <1>0, Finite
  <2>3. /\ Cardinality(Past(E, k) \cup R) = Cardinality(Past(E, k)) + Cardinality(R)
        /\ Cardinality(R) \in Nat /\ Cardinality(Past(E, k)) \in Nat
    <3> HIDE DEF R
    <3>1. Apart(Past(E, k), R)
      BY <1>0, <1>1, TwoParts
    <3> QED BY <3>1 DEF Apart
  <2> HIDE DEF R
  <2>4. k + Cardinality(R) \in 0..Cardinality(Entry)
    BY <1>1, <2>1, <2>2, <2>3
  <2> QED BY <2>4 DEF R
<1> QED BY <1>2, <1>3

\* When a buffer that holds any one entry gets none, none is left.
LEMMA NoneLeft ==
    ASSUME NEW E, E \subseteq Entry, NEW k \in Nat, NEW count \in Nat,
           Fit(E, k, count) = {}, \A n \in E : DirentSize[n] <= count
    PROVE  \A n \in E : Rank(E, n) < k
<1> DEFINE S == From(E, k)
<1>0. S \subseteq Nat /\ S \subseteq Entry /\ S \subseteq E
  BY EntryAssumption, Zenon DEF From
<1>1. S = {}
  <2> SUFFICES ASSUME S # {} PROVE FALSE
    OBVIOUS
  <2>1. PICK a \in S : \A b \in S : a <= b
    BY <1>0, LeastOf
  <2> HIDE DEF S
  <2>2. SizeTo(S, a) = DirentSize[a]
    BY <1>0, <2>1, SizeOfLeast, Zenon
  <2>3. SizeTo(S, a) <= count
    BY <1>0, <2>2
  <2> QED BY <2>3 DEF Fit, S
<1>2. ASSUME NEW n \in E PROVE Rank(E, n) < k
  <2>1. ~(Rank(E, n) >= k) /\ Rank(E, n) \in Nat
    BY <1>1, RankGrows DEF From
  <2> QED BY <2>1
<1> QED BY <1>2
(****************************** the invariant ********************************)
\* The inductive invariant: while nothing is removed, the steady names before
\* an opening's index have been returned to it.
Passed(h) ==
    \A n \in steady[h].names : Rank(entries, n) < dirent_index[h] => n \in listed[h].names

Promised(h) ==
    /\ steady[h].names \subseteq entries
    /\ ~steady[h].removed => Passed(h)
    /\ listed[h].ended /\ ~steady[h].removed => steady[h].names \subseteq listed[h].names

DirInv ==
    /\ entries \subseteq Entry /\ opened \subseteq Reader
    /\ dirent_index \in [Reader -> 0..Cardinality(Entry)]
    /\ listed \in [Reader -> [names : SUBSET Entry, ended : BOOLEAN]]
    /\ steady \in [Reader -> [names : SUBSET Entry, removed : BOOLEAN]]
    /\ \A h \in opened : Promised(h)

\* The number of names is a number.
LEMMA EntryCount == Cardinality(Entry) \in Nat
  BY EntryFinite, FS_CardinalityType

\* What the promise says of one opening, and how a step that leaves the
\* directory alone keeps it for the others.
LEMMA OthersKept ==
    ASSUME DirInv, NEW h, UNCHANGED entries,
           \A g \in opened' \ {h} :
              /\ g \in opened /\ dirent_index'[g] = dirent_index[g]
              /\ listed'[g] = listed[g] /\ steady'[g] = steady[g]
    PROVE  \A g \in opened' \ {h} : Promised(g)'
  BY Zenon DEF DirInv, Promised, Passed

\* The start.
LEMMA DirInitInv == DirInit => DirInv
<1> SUFFICES ASSUME DirInit PROVE DirInv
  OBVIOUS
<1>1. 0 \in 0..Cardinality(Entry)
  BY EntryCount
<1>2. /\ dirent_index \in [Reader -> 0..Cardinality(Entry)] /\ entries \subseteq Entry
      /\ opened = {}
      /\ listed \in [Reader -> [names : SUBSET Entry, ended : BOOLEAN]]
      /\ steady \in [Reader -> [names : SUBSET Entry, removed : BOOLEAN]]
  BY <1>1 DEF DirInit
<1> QED BY <1>2 DEF DirInv

\* A new opening has passed nothing.
LEMMA OpenDirInv ==
    ASSUME DirInv, NEW h \in Reader, OpenDir(h)
    PROVE  DirInv'
<1>1. /\ opened' = opened \cup {h} /\ entries' = entries
      /\ dirent_index' = [dirent_index EXCEPT ![h] = 0]
      /\ listed' = [listed EXCEPT ![h] = [names |-> {}, ended |-> FALSE]]
      /\ steady' = [steady EXCEPT ![h] = [names |-> entries, removed |-> FALSE]]
  BY DEF OpenDir
<1>2. /\ entries' \subseteq Entry /\ opened' \subseteq Reader
      /\ dirent_index' \in [Reader -> 0..Cardinality(Entry)]
      /\ listed' \in [Reader -> [names : SUBSET Entry, ended : BOOLEAN]]
      /\ steady' \in [Reader -> [names : SUBSET Entry, removed : BOOLEAN]]
  BY <1>1, EntryCount DEF DirInv
<1>3. /\ steady'[h].names = entries' /\ ~listed'[h].ended /\ dirent_index'[h] = 0
      /\ \A g \in Reader \ {h} : /\ dirent_index'[g] = dirent_index[g]
                                 /\ listed'[g] = listed[g] /\ steady'[g] = steady[g]
  BY <1>1 DEF DirInv
<1>4. Passed(h)'
  <2>1. ASSUME NEW n \in entries' PROVE ~(Rank(entries', n) < 0)
    <3> DEFINE E == entries'
    <3> HIDE DEF E
    <3>1. n \in E /\ E \subseteq Entry
      BY <1>2, <2>1 DEF E
    <3>2. Rank(E, n) \in Nat
      BY <3>1, RankGrows
    <3> QED BY <3>2 DEF E
  <2> QED BY <1>3, <2>1, Zenon DEF Passed
<1>5. \A g \in opened' \ {h} : Promised(g)'
  <2>1. \A g \in opened' \ {h} : g \in opened /\ g \in Reader \ {h}
    BY <1>1, <1>2
  <2> QED BY <1>1, <1>3, <2>1, OthersKept, Zenon
<1>6. Promised(h)'
  BY <1>3, <1>4 DEF Promised
<1> QED BY <1>2, <1>5, <1>6, Zenon DEF DirInv

\* close keeps what the others are promised.
LEMMA CloseDirInv ==
    ASSUME DirInv, NEW h \in Reader, CloseDir(h)
    PROVE  DirInv'
<1>1. opened' \subseteq opened /\ UNCHANGED <<entries, dirent_index, listed, steady>>
  BY DEF CloseDir
<1> QED BY <1>1, Zenon DEF DirInv, Promised, Passed

\* getdents64 keeps it: its index is where what it returned ends.
LEMMA GetdentsInv ==
    ASSUME DirInv, NEW h \in Reader, NEW count \in DirBuffers, Getdents64(h, count)
    PROVE  DirInv'
<1> DEFINE k == dirent_index[h]
           R == Fit(entries, k, count)
           i == k + Cardinality(R)
           end == R = {} /\ \A n \in entries : DirentSize[n] <= count
<1>0. Fitting(k, count) = R
  BY Zenon DEF Fitting, Ordered, Fit, From, Rank, Below
<1>1. /\ dirent_index' = [dirent_index EXCEPT ![h] = i] /\ h \in opened
      /\ listed' = [listed EXCEPT ![h] = [names |-> listed[h].names \cup R, ended |-> end]]
      /\ UNCHANGED <<entries, opened, steady>>
  BY <1>0, Zenon DEF Getdents64, NextIndex, DirInv
<1>2. count \in Nat /\ entries \subseteq Entry /\ k \in 0..Cardinality(Entry)
  BY EntryAssumption DEF DirInv
<1>3. k \in Nat /\ R \subseteq entries /\ end \in BOOLEAN
  BY <1>2, EntryCount DEF Fit, From
<1> HIDE DEF k
<1>4. i \in 0..Cardinality(Entry)
  BY <1>2, IndexBound
<1>5. ASSUME NEW n \in entries, Rank(entries, n) < i PROVE Rank(entries, n) < k \/ n \in R
  BY <1>2, <1>3, <1>5, ReturnsPrefix
<1>6. ASSUME end PROVE \A n \in entries : Rank(entries, n) < k
  BY <1>2, <1>3, <1>6, NoneLeft
<1> HIDE DEF R, i, end
<1>7. /\ entries' \subseteq Entry /\ opened' \subseteq Reader
      /\ dirent_index' \in [Reader -> 0..Cardinality(Entry)]
      /\ listed' \in [Reader -> [names : SUBSET Entry, ended : BOOLEAN]]
      /\ steady' \in [Reader -> [names : SUBSET Entry, removed : BOOLEAN]]
  BY <1>1, <1>2, <1>3, <1>4 DEF DirInv
<1>8. /\ dirent_index'[h] = i /\ listed'[h].names = listed[h].names \cup R
      /\ listed'[h].ended = end
      /\ \A g \in Reader \ {h} : dirent_index'[g] = dirent_index[g] /\ listed'[g] = listed[g]
  BY <1>1 DEF DirInv
<1>9. steady'[h] = steady[h] /\ steady[h].names \subseteq entries /\ entries' = entries
      /\ (~steady[h].removed => Passed(h))
  BY <1>1 DEF DirInv, Promised
<1>10. ASSUME ~steady'[h].removed PROVE Passed(h)'
  <2>1. ~steady[h].removed
    BY <1>9, <1>10
  <2>2. Passed(h)
    BY <1>9, <2>1
  <2>3. ASSUME NEW n \in steady[h].names, Rank(entries, n) < i PROVE n \in listed'[h].names
    <3>1. Rank(entries, n) < k \/ n \in R
      BY <1>5, <1>9, <2>3
    <3> QED BY <1>8, <2>2, <3>1 DEF Passed, k
  <2> QED BY <1>1, <1>8, <1>9, <2>3, Zenon DEF Passed
<1>11. ASSUME listed'[h].ended, ~steady'[h].removed
       PROVE  steady'[h].names \subseteq listed'[h].names
  <2>1. Passed(h) /\ \A n \in entries : Rank(entries, n) < k
    BY <1>6, <1>8, <1>9, <1>11, Zenon
  <2>2. ASSUME NEW n \in steady[h].names PROVE n \in listed[h].names
    BY <1>9, <2>1 DEF Passed, k
  <2> QED BY <1>8, <1>9, <2>2
<1>12. \A g \in opened' \ {h} : Promised(g)'
  <2>1. \A g \in opened' \ {h} : g \in opened /\ g \in Reader \ {h}
    BY <1>1, <1>7
  <2> QED BY <1>1, <1>8, <2>1, OthersKept, Zenon
<1>13. Promised(h)'
  BY <1>9, <1>10, <1>11, Zenon DEF Promised
<1> QED BY <1>7, <1>12, <1>13, Zenon DEF DirInv

\* A new name moves the others up: none comes before an index that was not.
LEMMA AddEntryInv ==
    ASSUME DirInv, NEW a \in Entry, AddEntry(a)
    PROVE  DirInv'
<1>1. entries' = entries \cup {a} /\ UNCHANGED <<opened, dirent_index, listed, steady>>
  BY DEF AddEntry
<1>2. entries' \subseteq Entry /\ entries \subseteq entries'
  BY <1>1 DEF DirInv
<1>3. ASSUME NEW g \in opened, ~steady[g].removed, NEW n \in steady[g].names,
             Rank(entries', n) < dirent_index[g]
      PROVE  n \in listed[g].names
  <2> DEFINE E == entries'
             d == dirent_index[g]
  <2>1. entries \in SUBSET E /\ E \subseteq Entry /\ n \in entries
    BY <1>2 DEF DirInv, Promised
  <2>2. d \in Nat
    BY EntryCount DEF DirInv
  <2>3. Rank(E, n) < d
    BY <1>3
  <2> HIDE DEF E, d
  <2>4. Rank(entries, n) \in Nat /\ Rank(entries, n) <= Rank(E, n) /\ Rank(E, n) \in Nat
    BY <2>1, RankGrows
  <2>5. Rank(entries, n) < d
    BY <2>2, <2>3, <2>4
  <2> QED BY <1>3, <2>5 DEF DirInv, Promised, Passed, d
<1>4. \A g \in opened : ~steady[g].removed => Passed(g)'
  BY <1>1, <1>3, Zenon DEF Passed
<1> QED BY <1>1, <1>2, <1>4, Zenon DEF DirInv, Promised

\* A removal leaves the listings that are under way without their promise.
LEMMA RemoveEntryInv ==
    ASSUME DirInv, NEW a \in Entry, RemoveEntry(a)
    PROVE  DirInv'
<1>1. /\ entries' = entries \ {a} /\ UNCHANGED <<opened, dirent_index, listed>>
      /\ steady' = [h \in Reader |-> [names |-> steady[h].names \ {a}, removed |-> TRUE]]
  BY DEF RemoveEntry
<1>2. steady' \in [Reader -> [names : SUBSET Entry, removed : BOOLEAN]] /\ entries' \subseteq Entry
  BY <1>1 DEF DirInv
<1>3. ASSUME NEW g \in opened
      PROVE  steady'[g].removed /\ steady'[g].names \subseteq entries'
  BY <1>1 DEF DirInv, Promised
<1> QED BY <1>1, <1>2, <1>3, Zenon DEF DirInv, Promised

\* Every step keeps the invariant.
LEMMA DirStepInv == DirInv /\ [DirNext]_dirVars => DirInv'
<1> SUFFICES ASSUME DirInv, [DirNext]_dirVars PROVE DirInv'
  OBVIOUS
<1>1. ASSUME NEW h \in Reader, OpenDir(h) \/ CloseDir(h) PROVE DirInv'
  BY <1>1, OpenDirInv, CloseDirInv, Zenon
<1>2. ASSUME NEW h \in Reader, NEW count \in DirBuffers, Getdents64(h, count) PROVE DirInv'
  BY <1>2, GetdentsInv, Zenon
<1>3. ASSUME NEW n \in Entry, AddEntry(n) \/ RemoveEntry(n) PROVE DirInv'
  BY <1>3, AddEntryInv, RemoveEntryInv, Zenon
<1>4. ASSUME UNCHANGED dirVars PROVE DirInv'
  BY <1>4, Zenon DEF dirVars, DirInv, Promised, Passed
<1> QED BY <1>1, <1>2, <1>3, <1>4, Zenon DEF DirNext

\* The inductive invariant holds in every reachable state; in particular a
\* dirent_index never exceeds the number of names there can be (sys_getdents64).
THEOREM DirectoryInvariant == DirSpec => []DirInv
  BY DirInitInv, DirStepInv, PTL DEF DirSpec

\* A listing that ended has returned every name that was there all the time
\* (ListingComplete), for any directory and any buffers, when none was removed.
THEOREM ListingsComplete == DirSpec => []ListingComplete
<1>1. DirInv => ListingComplete
  BY DEF DirInv, Promised, ListingComplete
<1> QED BY <1>1, DirectoryInvariant, PTL

(************************** descriptor tables ********************************)
\* What a table in use looks like: its entries are well-typed and exactly the
\* descriptors that are not free have one.
Good(e, f) ==
    /\ f \subseteq Fds
    /\ DOMAIN e = Fds \ f
    /\ \A fd \in DOMAIN e : e[fd] \in FdInfos

\* The inductive invariant.
IInv == TypeOK /\ AllocatorInv /\ NoAssertFails

\* The bitmap has a lowest set bit unless it is empty.
LEMMA LowestFdFact ==
    ASSUME NEW S, S \subseteq Nat, S # {}
    PROVE  LowestFd(S) \in S
<1>1. PICK x \in S : \A y \in S : x <= y
  BY LeastOf, Zenon
<1> QED
  BY <1>1, Zenon DEF LowestFd

\* The table that a running task uses is good.
LEMMA UsedGood ==
    ASSUME IInv, NEW k \in Task, NEW t \in Table, Runs(k, t)
    PROVE  Good(entry[t], free[t]) /\ ~Unused(t)
<1>1. ~Unused(t)
  BY DEF Runs, Unused
<1> QED
  BY <1>1, Zenon DEF IInv, TypeOK, AllocatorInv, Good

\* Making an entry for a descriptor keeps a table good if its bit is cleared.
LEMMA InsertGood ==
    ASSUME NEW e, NEW f, Good(e, f), NEW fd \in Fds, NEW info \in FdInfos
    PROVE  Good(Insert(e, fd, info), f \ {fd})
BY DEF Good, Insert

\* Removing entries keeps a table good if their bits are set.
LEMMA RemoveGood ==
    ASSUME NEW e, NEW f, Good(e, f), NEW fds, fds \subseteq DOMAIN e
    PROVE  Good(Remove(e, fds), f \cup fds) /\ fds \cap f = {}
BY DEF Good, Remove

\* The table of a new process is good.
LEMMA InitGood == Good(InitEntries, InitFree)
<1>1. Fds \ InitFree = 0..2 /\ InitFree \subseteq Fds
  BY FdAssumption DEF Fds, InitFree
<1>2. \A fd \in 0..2 : InitEntries[fd] \in FdInfos
  BY DEF InitEntries, FdInfos, FdInfo, Files
<1>3. DOMAIN InitEntries = 0..2
  BY DEF InitEntries
<1> QED
  BY <1>1, <1>2, <1>3 DEF Good

\* A step that changes one table that is in use, and leaves it good.
LEMMA OneTable ==
    ASSUME IInv, NEW t \in Table, ~Unused(t), NEW e, NEW f, Good(e, f),
           entry' = [entry EXCEPT ![t] = e],
           free' = [free EXCEPT ![t] = f],
           UNCHANGED tableOf
    PROVE  /\ DOMAIN entry' = Table
           /\ \A u \in Table :
                 /\ DOMAIN entry'[u] \subseteq Fds
                 /\ \A fd \in DOMAIN entry'[u] : entry'[u][fd] \in FdInfos
           /\ free' \in [Table -> SUBSET Fds]
           /\ AllocatorInv'
<1>1. /\ DOMAIN entry' = Table
      /\ entry'[t] = e /\ free'[t] = f
      /\ \A u \in Table \ {t} : entry'[u] = entry[u] /\ free'[u] = free[u]
  BY Zenon DEF IInv, TypeOK
<1>2. free' \in [Table -> SUBSET Fds]
  BY Zenon DEF IInv, TypeOK, Good
<1>3. \A u \in Table :
         /\ DOMAIN entry'[u] \subseteq Fds
         /\ \A fd \in DOMAIN entry'[u] : entry'[u][fd] \in FdInfos
  <2> TAKE u \in Table
  <2>1. CASE u = t
    BY <1>1, <2>1 DEF Good
  <2>2. CASE u # t
    BY <1>1, <2>2, Zenon DEF IInv, TypeOK
  <2> QED
    BY <2>1, <2>2
<1>4. AllocatorInv'
  <2>1. \A u \in Table : Unused(u)' <=> Unused(u)
    BY DEF Unused
  <2> SUFFICES ASSUME NEW u \in Table
               PROVE  IF Unused(u) THEN DOMAIN entry'[u] = {} /\ free'[u] = {}
                      ELSE DOMAIN entry'[u] = Fds \ free'[u]
    BY <2>1 DEF AllocatorInv
  <2>2. CASE u = t
    BY <1>1, <2>2 DEF Good
  <2>3. CASE u # t
    BY <1>1, <2>3 DEF IInv, AllocatorInv
  <2> QED
    BY <2>2, <2>3
<1> QED
  BY <1>1, <1>2, <1>3, <1>4

\* A step that changes no table, and does not fail an assertion.
LEMMA NoTableStep ==
    ASSUME IInv, UNCHANGED <<tableOf, entry, free>>,
           opens' \in [Inode -> 0..(CountLimit - 1)],
           links' \in [Inode -> 0..1],
           removed' \subseteq Inode,
           halted' \in {"no", "todo", "range", "wrong end", "flags"}
    PROVE  IInv'
BY Zenon DEF IInv, TypeOK, AllocatorInv, Unused, NoAssertFails

\* The same for a step that changes one table.
LEMMA OneTableStep ==
    ASSUME IInv, NEW t \in Table, ~Unused(t), NEW e, NEW f, Good(e, f),
           entry' = [entry EXCEPT ![t] = e],
           free' = [free EXCEPT ![t] = f],
           UNCHANGED tableOf,
           opens' \in [Inode -> 0..(CountLimit - 1)],
           links' \in [Inode -> 0..1],
           removed' \subseteq Inode,
           halted' = halted
    PROVE  IInv'
<1>1. /\ DOMAIN entry' = Table
      /\ \A u \in Table :
            /\ DOMAIN entry'[u] \subseteq Fds
            /\ \A fd \in DOMAIN entry'[u] : entry'[u][fd] \in FdInfos
      /\ free' \in [Table -> SUBSET Fds]
      /\ AllocatorInv'
  BY OneTable, Zenon
<1>2. TypeOK' /\ NoAssertFails'
  BY <1>1, Zenon DEF IInv, TypeOK, NoAssertFails
<1> QED
  BY <1>1, <1>2 DEF IInv

\* The fields of the inodes, when they do not change.
LEMMA SameFiles ==
    ASSUME IInv, UNCHANGED files
    PROVE  /\ opens' \in [Inode -> 0..(CountLimit - 1)]
           /\ links' \in [Inode -> 0..1]
           /\ removed' \subseteq Inode
BY Zenon DEF IInv, TypeOK, files

\* A call that returns an error, and a panic that is not a failed assertion.
LEMMA QuietInv ==
    ASSUME IInv,
           \/ UNCHANGED vars
           \/ Panic("todo") \/ Panic("range") \/ Panic("wrong end")
           \/ Panic("flags")
    PROVE  IInv'
<1>1. UNCHANGED <<tableOf, entry, free>> /\ UNCHANGED files
  BY Zenon DEF vars, Panic
<1>2. halted' \in {"no", "todo", "range", "wrong end", "flags"}
  BY Zenon DEF vars, Panic, IInv, TypeOK, NoAssertFails
<1> QED
  BY <1>1, <1>2, SameFiles, NoTableStep, Zenon

\* Giving a lowest free descriptor to a file.
LEMMA InsertInv ==
    ASSUME IInv, NEW k \in Task, NEW t \in Table, Runs(k, t),
           NEW fd \in Fds, NEW info \in FdInfos, InsertFd(t, fd, info),
           UNCHANGED tableOf,
           opens' \in [Inode -> 0..(CountLimit - 1)],
           links' \in [Inode -> 0..1],
           removed' \subseteq Inode,
           halted' = halted
    PROVE  IInv'
<1>1. Good(entry[t], free[t]) /\ ~Unused(t)
  BY UsedGood
<1>2. Good(Insert(entry[t], fd, info), free[t] \ {fd})
  BY <1>1, InsertGood
<1>3. /\ entry' = [entry EXCEPT ![t] = Insert(entry[t], fd, info)]
      /\ free' = [free EXCEPT ![t] = free[t] \ {fd}]
  BY DEF InsertFd
<1> QED
  BY <1>1, <1>2, <1>3, OneTableStep, Zenon

\* The lowest free descriptor is a descriptor.
LEMMA LowestFree ==
    ASSUME IInv, NEW t \in Table, free[t] # {}
    PROVE  LowestFd(free[t]) \in free[t] /\ LowestFd(free[t]) \in Fds
<1>1. free[t] \subseteq Fds
  BY Zenon DEF IInv, TypeOK
<1>2. Fds \subseteq Nat
  BY FdAssumption DEF Fds
<1> QED
  BY <1>1, <1>2, LowestFdFact, Zenon

\* A count stays below its limit.
LEMMA CountWraps == \A x \in Int : x % CountLimit \in 0..(CountLimit - 1)
BY CountAssumption

\* The counts of an inode are integers.
LEMMA CountsTyped ==
    ASSUME IInv, NEW i \in Inode
    PROVE  opens[i] \in Int /\ links[i] \in 0..1
<1>1. opens \in [Inode -> 0..(CountLimit - 1)] /\ links \in [Inode -> 0..1]
  BY Zenon DEF IInv, TypeOK
<1>2. opens[i] \in 0..(CountLimit - 1) /\ links[i] \in 0..1
  BY <1>1
<1> QED
  BY <1>2, CountAssumption

\* openat.
LEMMA OpenatInv ==
    ASSUME IInv, NEW k \in Task, NEW t \in Table, NEW i \in Inode,
           NEW a \in OpenAccess, NEW c \in BOOLEAN, SysOpenat(k, t, i, a, c)
    PROVE  IInv'
<1>1. /\ opens' \in [Inode -> 0..(CountLimit - 1)]
      /\ links' \in [Inode -> 0..1] /\ removed' \subseteq Inode
      /\ halted' = halted
  <2>1. opens[i] + 1 \in Int
    BY CountsTyped
  <2>2. (opens[i] + 1) % CountLimit \in 0..(CountLimit - 1)
    BY <2>1, CountWraps
  <2>3. /\ opens' = [opens EXCEPT ![i] = (opens[i] + 1) % CountLimit]
        /\ UNCHANGED <<links, removed, halted>>
    BY DEF SysOpenat
  <2> QED
    BY <2>2, <2>3, Zenon DEF IInv, TypeOK
<1>2. CASE free[t] = {}
  <2>1. UNCHANGED <<tableOf, entry, free>>
    BY <1>2 DEF SysOpenat
  <2>2. halted' \in {"no", "todo", "range", "wrong end", "flags"}
    BY <1>1, Zenon DEF IInv, TypeOK, NoAssertFails
  <2> QED
    BY <1>1, <2>1, <2>2, NoTableStep, Zenon
<1>3. CASE free[t] # {}
  <2>1. /\ Runs(k, t) /\ UNCHANGED tableOf
        /\ InsertFd(t, LowestFd(free[t]), FdInfo(i, a, c))
    BY <1>3 DEF SysOpenat
  <2>2. FdInfo(i, a, c) \in FdInfos
    BY AccessAssumption DEF FdInfo, FdInfos, Files
  <2> QED
    BY <1>1, <1>3, <2>1, <2>2, LowestFree, InsertInv, ZenonT(30)
<1> QED
  BY <1>2, <1>3

\* An open descriptor has an FdInfo.
LEMMA OpenInfo ==
    ASSUME IInv, NEW t \in Table, NEW fd, Open(t, fd)
    PROVE  entry[t][fd] \in FdInfos
BY Zenon DEF IInv, TypeOK, Open

\* What dup and dup3 make of an FdInfo.
LEMMA InfoFacts ==
    ASSUME NEW e \in FdInfos, NEW c \in BOOLEAN
    PROVE  /\ [e EXCEPT !.cloexec = c] \in FdInfos
           /\ FdInfo(e.file, "r", c) \in FdInfos
BY DEF FdInfos, FdInfo

\* dup.
LEMMA DupInv ==
    ASSUME IInv, NEW k \in Task, NEW t \in Table, NEW old \in Fds,
           SysDup(k, t, old)
    PROVE  IInv'
<1>1. CASE UNCHANGED vars
  BY <1>1, QuietInv
<1>2. CASE ~UNCHANGED vars
  <2>1. /\ Runs(k, t) /\ Open(t, old) /\ free[t] # {}
        /\ InsertFd(t, LowestFd(free[t]),
                    [entry[t][old] EXCEPT !.cloexec = FALSE])
        /\ UNCHANGED <<tableOf, halted>> /\ UNCHANGED files
    BY <1>2 DEF SysDup, Fails
  <2>2. [entry[t][old] EXCEPT !.cloexec = FALSE] \in FdInfos
    BY <2>1, OpenInfo, InfoFacts, Zenon
  <2> QED
    BY <2>1, <2>2, SameFiles, LowestFree, InsertInv
<1> QED
  BY <1>1, <1>2

\* dup3, onto a free descriptor or one in use.
LEMMA Dup3Inv ==
    ASSUME IInv, NEW k \in Task, NEW t \in Table, NEW old \in Fds,
           NEW new \in NewFds, NEW c \in BOOLEAN, SysDup3(k, t, old, new, c)
    PROVE  IInv'
<1>1. CASE UNCHANGED vars \/ Panic("range")
  BY <1>1, QuietInv, Zenon
<1>2. CASE ~(UNCHANGED vars \/ Panic("range"))
  <2> DEFINE info == IF new \in free[t]
                     THEN [entry[t][old] EXCEPT !.cloexec = c]
                     ELSE FdInfo(entry[t][old].file, "r", c)
  <2>1. /\ Runs(k, t) /\ Open(t, old) /\ new # MaxFd /\ ~(new > MaxFd)
        /\ InsertFd(t, new, info)
        /\ UNCHANGED <<tableOf, halted>> /\ UNCHANGED files
    BY <1>2 DEF SysDup3, Fails
  <2>2. info \in FdInfos
    BY <2>1, OpenInfo, InfoFacts
  <2>3. new \in Fds
    BY <2>1, FdAssumption DEF Fds
  <2> HIDE DEF info
  <2> QED
    BY <2>1, <2>2, <2>3, SameFiles, InsertInv
<1> QED
  BY <1>1, <1>2

\* FdTable::close: the bits of entries are clear, so dealloc's assertion holds.
LEMMA CloseInv ==
    ASSUME IInv, NEW k \in Task, NEW t \in Table, Runs(k, t),
           NEW fds, fds \subseteq DOMAIN entry[t], CloseFds(t, fds),
           UNCHANGED tableOf,
           opens' \in [Inode -> 0..(CountLimit - 1)],
           links' \in [Inode -> 0..1],
           removed' \subseteq Inode
    PROVE  IInv'
<1>1. Good(entry[t], free[t]) /\ ~Unused(t)
  BY UsedGood
<1>2. Good(Remove(entry[t], fds), free[t] \cup fds) /\ fds \cap free[t] = {}
  BY <1>1, RemoveGood
<1>3. /\ entry' = [entry EXCEPT ![t] = Remove(entry[t], fds)]
      /\ free' = [free EXCEPT ![t] = free[t] \cup fds]
      /\ halted' = halted
  BY <1>2 DEF CloseFds
<1> QED
  BY <1>1, <1>2, <1>3, OneTableStep, ZenonT(30)

\* close.
LEMMA SysCloseInv ==
    ASSUME IInv, NEW k \in Task, NEW t \in Table, NEW fd \in Fds,
           SysClose(k, t, fd)
    PROVE  IInv'
<1>1. CASE UNCHANGED vars \/ Panic("todo")
  BY <1>1, QuietInv, Zenon
<1>2. CASE ~(UNCHANGED vars \/ Panic("todo"))
  <2>1. /\ Runs(k, t) /\ Open(t, fd) /\ CloseFds(t, {fd})
        /\ UNCHANGED tableOf
        /\ IF entry[t][fd].file \in Inode THEN CountClose(entry[t][fd].file)
           ELSE UNCHANGED files
    BY <1>2 DEF SysClose, Fails
  <2>2. /\ opens' \in [Inode -> 0..(CountLimit - 1)]
        /\ links' \in [Inode -> 0..1] /\ removed' \subseteq Inode
    <3>1. CASE entry[t][fd].file \notin Inode
      BY <2>1, <3>1, SameFiles
    <3>2. CASE entry[t][fd].file \in Inode
      <4> DEFINE i == entry[t][fd].file
      <4>1. opens[i] - 1 \in Int
        BY <3>2, CountsTyped
      <4>2. (opens[i] - 1) % CountLimit \in 0..(CountLimit - 1)
        BY <4>1, CountWraps, ZenonT(30)
      <4>3. /\ opens' = [opens EXCEPT ![i] = (opens[i] - 1) % CountLimit]
            /\ removed' = removed \/ removed' = removed \cup {i}
            /\ UNCHANGED links
        BY <2>1, <3>2 DEF CountClose
      <4> HIDE DEF i
      <4> QED
        BY <3>2, <4>2, <4>3, ZenonT(30) DEF IInv, TypeOK, i
    <3> QED
      BY <3>1, <3>2
  <2>3. {fd} \subseteq DOMAIN entry[t]
    BY <2>1 DEF Open
  <2> QED
    BY <2>1, <2>2, <2>3, CloseInv
<1> QED
  BY <1>1, <1>2

\* pipe2, with room for two descriptors, for one, or for none.
LEMMA Pipe2Inv ==
    ASSUME IInv, NEW k \in Task, NEW t \in Table, NEW c \in BOOLEAN,
           SysPipe2(k, t, c)
    PROVE  IInv'
<1> DEFINE r == LowestFd(free[t])
           w == LowestFd(free[t] \ {r})
           one == Insert(entry[t], r, FdInfo("pipe_read", "r", c))
           both == Insert(one, w, FdInfo("pipe_write", "w", c))
<1>1. Runs(k, t) /\ UNCHANGED <<tableOf, halted>> /\ UNCHANGED files
  BY DEF SysPipe2
<1>2. \/ free[t] = {} /\ UNCHANGED <<entry, free>>
      \/ /\ free[t] # {} /\ free[t] \ {r} = {}
         /\ entry' = [entry EXCEPT ![t] = one]
         /\ free' = [free EXCEPT ![t] = {}]
      \/ /\ free[t] # {} /\ free[t] \ {r} # {}
         /\ entry' = [entry EXCEPT ![t] = both]
         /\ free' = [free EXCEPT ![t] = free[t] \ {r, w}]
  BY Zenon DEF SysPipe2
<1>3. Good(entry[t], free[t]) /\ ~Unused(t)
  BY <1>1, UsedGood
<1>4. /\ FdInfo("pipe_read", "r", c) \in FdInfos
      /\ FdInfo("pipe_write", "w", c) \in FdInfos
  BY DEF FdInfo, FdInfos, Files
<1>5. ASSUME free[t] # {}
      PROVE  r \in free[t] /\ r \in Fds /\ Good(one, free[t] \ {r})
  BY <1>3, <1>4, <1>5, LowestFree, InsertGood
<1>6. ASSUME free[t] # {}, free[t] \ {r} # {}
      PROVE  Good(both, (free[t] \ {r}) \ {w})
  <2>1. free[t] \ {r} \subseteq Nat
    BY <1>3, FdAssumption DEF Good, Fds
  <2>2. w \in Fds
    BY <1>3, <1>6, <2>1, LowestFdFact DEF Good
  <2> QED
    BY <1>4, <1>5, <1>6, <2>2, InsertGood, ZenonT(30)
<1>7. (free[t] \ {r}) \ {w} = free[t] \ {r, w}
  OBVIOUS
<1> HIDE DEF r, w, one, both
<1>8. CASE free[t] = {} /\ UNCHANGED <<entry, free>>
  BY <1>1, <1>8, QuietInv DEF vars
<1>9. CASE /\ free[t] # {} /\ free[t] \ {r} = {}
           /\ entry' = [entry EXCEPT ![t] = one]
           /\ free' = [free EXCEPT ![t] = {}]
  BY <1>1, <1>3, <1>5, <1>9, SameFiles, OneTableStep, Zenon
<1>10. CASE /\ free[t] # {} /\ free[t] \ {r} # {}
            /\ entry' = [entry EXCEPT ![t] = both]
            /\ free' = [free EXCEPT ![t] = free[t] \ {r, w}]
  BY <1>1, <1>3, <1>6, <1>7, <1>10, SameFiles, OneTableStep, Zenon
<1> QED
  BY <1>2, <1>8, <1>9, <1>10

\* read and write change no table.
LEMMA ReadWriteInv ==
    ASSUME IInv, NEW k \in Task, NEW t \in Table, NEW fd \in Fds,
           SysRead(k, t, fd) \/ SysWrite(k, t, fd)
    PROVE  IInv'
<1>1. UNCHANGED vars \/ Panic("todo") \/ Panic("wrong end")
  BY Zenon DEF SysRead, SysWrite, Fails
<1> QED
  BY <1>1, QuietInv, Zenon

\* unlink changes the counts of an inode only.
LEMMA UnlinkInv ==
    ASSUME IInv, NEW k \in Task, NEW t \in Table, NEW i \in Inode,
           SysUnlinkat(k, t, i)
    PROVE  IInv'
<1>1. /\ links' \in [Inode -> 0..1] /\ removed' \subseteq Inode
      /\ opens' \in [Inode -> 0..(CountLimit - 1)]
  <2>1. links[i] - 1 \in 0..1
    BY CountsTyped DEF SysUnlinkat
  <2>2. /\ links' = [links EXCEPT ![i] = links[i] - 1]
        /\ removed' = removed \/ removed' = removed \cup {i}
        /\ UNCHANGED opens
    BY DEF SysUnlinkat
  <2> QED
    BY <2>1, <2>2, Zenon DEF IInv, TypeOK
<1>2. /\ UNCHANGED <<tableOf, entry, free>>
      /\ halted' \in {"no", "todo", "range", "wrong end", "flags"}
  BY Zenon DEF SysUnlinkat, IInv, TypeOK, NoAssertFails
<1> QED
  BY <1>1, <1>2, NoTableStep, Zenon

------------------------------------------------------------------------------
\* clone with CLONE_FILES: one more task for a table in use.
LEMMA CloneSharedInv ==
    ASSUME IInv, NEW k \in Task, NEW t \in Table, NEW new \in Task,
           CloneShared(k, t, new)
    PROVE  IInv'
<1>1. /\ tableOf[k] = t /\ tableOf[new] = NoTable
      /\ tableOf' = [tableOf EXCEPT ![new] = t]
      /\ UNCHANGED <<entry, free, halted>> /\ UNCHANGED files
  BY DEF CloneShared, Runs
<1>2. TypeOK'
  BY <1>1, SameFiles, Zenon DEF IInv, TypeOK
<1>3. \A u \in Table : Unused(u)' <=> Unused(u)
  BY <1>1, TaskAssumption, ZenonT(30) DEF IInv, TypeOK, Unused
<1>4. AllocatorInv' /\ NoAssertFails'
  BY <1>1, <1>3 DEF IInv, AllocatorInv, NoAssertFails
<1> QED
  BY <1>2, <1>4 DEF IInv

\* clone without CLONE_FILES: from_clone_copy's assertion holds, because a
\* descriptor from 3 on that has an entry has a bit in a new allocator.
LEMMA CloneCopyInv ==
    ASSUME IInv, NEW k \in Task, NEW t \in Table, NEW new \in Task,
           NEW copy \in Table, CloneCopy(k, t, new, copy)
    PROVE  IInv'
<1> DEFINE C == Copies(entry[t])
           e == [fd \in 0..2 \cup C |->
                    IF fd < 3 THEN InitEntries[fd] ELSE entry[t][fd]]
<1>1. Runs(k, t) /\ tableOf[new] = NoTable /\ Unused(copy)
  BY DEF CloneCopy
<1>2. Good(entry[t], free[t])
  BY <1>1, UsedGood
<1>3. C \subseteq InitFree /\ C \subseteq DOMAIN entry[t]
  BY <1>2, FdAssumption DEF Good, Copies, Fds, InitFree
<1>4. /\ tableOf' = [tableOf EXCEPT ![new] = copy]
      /\ entry' = [entry EXCEPT ![copy] = e]
      /\ free' = [free EXCEPT ![copy] = InitFree \ C]
      /\ UNCHANGED halted /\ UNCHANGED files
  BY <1>3, Zenon DEF CloneCopy
<1>5. Good(e, InitFree \ C)
  <2>1. DOMAIN e = Fds \ (InitFree \ C)
    BY <1>3, FdAssumption DEF Fds, InitFree
  <2>2. \A fd \in 0..2 : InitEntries[fd] \in FdInfos
    BY InitGood, Zenon DEF Good, InitEntries
  <2>3. \A fd \in C : entry[t][fd] \in FdInfos
    BY <1>2, <1>3 DEF Good
  <2>4. \A fd \in DOMAIN e : e[fd] \in FdInfos
    BY <1>3, <2>2, <2>3 DEF InitFree
  <2>5. InitFree \ C \subseteq Fds
    BY FdAssumption DEF Fds, InitFree
  <2> QED
    BY <2>1, <2>4, <2>5 DEF Good
<1> HIDE DEF C, e
<1>6. \A u \in Table \ {copy} :
         entry'[u] = entry[u] /\ free'[u] = free[u] /\ (Unused(u)' <=> Unused(u))
  BY <1>1, <1>4, TaskAssumption, Zenon DEF IInv, TypeOK, Unused
<1>7. entry'[copy] = e /\ free'[copy] = InitFree \ C /\ ~Unused(copy)'
  BY <1>4, Zenon DEF IInv, TypeOK, Unused
<1>8. DOMAIN entry' = Table /\ free' \in [Table -> SUBSET Fds]
  BY <1>4, <1>5, Zenon DEF IInv, TypeOK, Good
<1>9. \A u \in Table :
         /\ DOMAIN entry'[u] \subseteq Fds
         /\ \A fd \in DOMAIN entry'[u] : entry'[u][fd] \in FdInfos
  BY <1>5, <1>6, <1>7, Zenon DEF IInv, TypeOK, Good
<1>10. TypeOK'
  <2>1. tableOf' \in [Task -> Table \cup {NoTable}]
    BY <1>4, Zenon DEF IInv, TypeOK
  <2> QED
    BY <1>4, <1>8, <1>9, <2>1, SameFiles, Zenon DEF IInv, TypeOK
<1>11. AllocatorInv'
  BY <1>5, <1>6, <1>7 DEF IInv, AllocatorInv, Good
<1> QED
  BY <1>4, <1>10, <1>11 DEF IInv, NoAssertFails

\* execve.
LEMMA ExecveInv ==
    ASSUME IInv, NEW k \in Task, NEW t \in Table, SysExecve(k, t)
    PROVE  IInv'
<1>1. /\ Runs(k, t) /\ CloseFds(t, CloexecFds(t))
      /\ UNCHANGED tableOf /\ UNCHANGED files
  BY DEF SysExecve
<1>2. CloexecFds(t) \subseteq DOMAIN entry[t]
  BY DEF CloexecFds
<1> QED
  BY <1>1, <1>2, SameFiles, CloseInv

\* The end of a task: its table goes with the last task that has it.
LEMMA DropTaskInv ==
    ASSUME IInv, NEW k \in Task, NEW t \in Table, DropTask(k, t)
    PROVE  IInv'
<1>1. /\ tableOf[k] = t /\ tableOf' = [tableOf EXCEPT ![k] = NoTable]
      /\ UNCHANGED halted /\ UNCHANGED files
  BY DEF DropTask, Runs
<1>2. tableOf' \in [Task -> Table \cup {NoTable}]
  BY <1>1, Zenon DEF IInv, TypeOK
<1>3. \A u \in Table \ {t} : Unused(u)' <=> Unused(u)
  BY <1>1, TaskAssumption, Zenon DEF IInv, TypeOK, Unused
<1>4. Unused(t)' <=> ~ \E u \in Task \ {k} : tableOf[u] = t
  BY <1>1, TaskAssumption, Zenon DEF IInv, TypeOK, Unused
<1>5. CASE \E u \in Task \ {k} : tableOf[u] = t
  <2>1. UNCHANGED <<entry, free>>
    BY <1>5 DEF DropTask
  <2>2. \A u \in Table : Unused(u)' <=> Unused(u)
    BY <1>3, <1>4, <1>5 DEF Unused
  <2>3. TypeOK'
    BY <1>1, <1>2, <2>1, SameFiles, ZenonT(30) DEF IInv, TypeOK
  <2>4. AllocatorInv' /\ NoAssertFails'
    BY <1>1, <2>1, <2>2 DEF IInv, AllocatorInv, NoAssertFails
  <2> QED
    BY <2>3, <2>4 DEF IInv
<1>6. CASE ~ \E u \in Task \ {k} : tableOf[u] = t
  <2>1. /\ entry' = [entry EXCEPT ![t] = NoEntry]
        /\ free' = [free EXCEPT ![t] = {}]
    BY <1>6 DEF DropTask
  <2>2. DOMAIN NoEntry = {}
    BY DEF NoEntry
  <2> HIDE DEF NoEntry
  <2>3. /\ entry'[t] = NoEntry /\ free'[t] = {}
        /\ \A u \in Table \ {t} : entry'[u] = entry[u] /\ free'[u] = free[u]
        /\ DOMAIN entry' = Table /\ free' \in [Table -> SUBSET Fds]
    BY <2>1, Zenon DEF IInv, TypeOK
  <2>4. \A u \in Table :
           /\ DOMAIN entry'[u] \subseteq Fds
           /\ \A fd \in DOMAIN entry'[u] : entry'[u][fd] \in FdInfos
    BY <2>2, <2>3, Zenon DEF IInv, TypeOK
  <2>5. TypeOK'
    BY <1>1, <1>2, <2>3, <2>4, SameFiles, ZenonT(30) DEF IInv, TypeOK
  <2>6. AllocatorInv'
    BY <1>3, <1>4, <1>6, <2>2, <2>3 DEF IInv, AllocatorInv
  <2> QED
    BY <1>1, <2>5, <2>6 DEF IInv, NoAssertFails
<1> QED
  BY <1>5, <1>6

\* The first task has a new table, all others are unused.
LEMMA InitInv == Init => IInv
<1> SUFFICES ASSUME Init PROVE IInv
  OBVIOUS
<1>1. RootTable \in Table
  BY TaskAssumption DEF RootTable
<1>2. DOMAIN NoEntry = {}
  BY DEF NoEntry
<1>3. /\ entry = [t \in Table |->
                    IF t = RootTable THEN InitEntries ELSE NoEntry]
      /\ free = [t \in Table |-> IF t = RootTable THEN InitFree ELSE {}]
      /\ tableOf = [k \in Task |-> IF k = Root THEN RootTable ELSE NoTable]
  BY DEF Init
<1> HIDE DEF RootTable, NoEntry
<1>4. \A t \in Table : Unused(t) <=> t # RootTable
  BY <1>1, <1>3, TaskAssumption DEF Unused
<1>5. AllocatorInv
  BY <1>2, <1>3, <1>4, InitGood DEF AllocatorInv, Good
<1>6. TypeOK
  <2>1. tableOf \in [Task -> Table \cup {NoTable}]
    BY <1>1, <1>3
  <2>2. DOMAIN entry = Table /\ free \in [Table -> SUBSET Fds]
    BY <1>3, InitGood DEF Good
  <2>3. \A t \in Table :
           /\ DOMAIN entry[t] \subseteq Fds
           /\ \A fd \in DOMAIN entry[t] : entry[t][fd] \in FdInfos
    BY <1>2, <1>3, InitGood DEF Good
  <2>4. /\ opens \in [Inode -> 0..(CountLimit - 1)]
        /\ links \in [Inode -> 0..1]
        /\ removed \subseteq Inode /\ halted = "no"
    BY CountAssumption DEF Init
  <2> QED
    BY <2>1, <2>2, <2>3, <2>4 DEF TypeOK
<1>7. NoAssertFails
  BY DEF Init, NoAssertFails
<1> QED
  BY <1>5, <1>6, <1>7 DEF IInv

\* Every step preserves the inductive invariant.
LEMMA NextInv == IInv /\ [Next]_vars => IInv'
<1> SUFFICES ASSUME IInv, [Next]_vars PROVE IInv'
  OBVIOUS
<1>1. CASE UNCHANGED vars
  BY <1>1, QuietInv
<1>2. CASE Next
  <2>1. PICK k \in Task, t \in Table :
          \/ \E i \in Inode, a \in OpenAccess, c \in BOOLEAN :
                SysOpenat(k, t, i, a, c)
          \/ \E old \in Fds : SysDup(k, t, old)
          \/ \E old \in Fds, new \in NewFds, c \in BOOLEAN :
                SysDup3(k, t, old, new, c)
          \/ \E old \in Fds : Dup3UnknownFlags(k, t, old)
          \/ \E fd \in Fds :
                SysClose(k, t, fd) \/ SysRead(k, t, fd) \/ SysWrite(k, t, fd)
          \/ \E c \in BOOLEAN : SysPipe2(k, t, c)
          \/ \E i \in Inode : SysUnlinkat(k, t, i)
          \/ \E new \in Task : CloneShared(k, t, new)
          \/ \E new \in Task, copy \in Table : CloneCopy(k, t, new, copy)
          \/ SysExecve(k, t)
          \/ DropTask(k, t)
    BY <1>2 DEF Next
  <2>2. CASE \/ \E i \in Inode, a \in OpenAccess, c \in BOOLEAN :
                   SysOpenat(k, t, i, a, c)
             \/ \E old \in Fds : SysDup(k, t, old)
             \/ \E old \in Fds, new \in NewFds, c \in BOOLEAN :
                   SysDup3(k, t, old, new, c)
    BY <2>2, OpenatInv, DupInv, Dup3Inv
  <2>5. CASE \E old \in Fds : Dup3UnknownFlags(k, t, old)
    BY <2>5, QuietInv DEF Dup3UnknownFlags
  <2>3. CASE \/ \E fd \in Fds :
                   SysClose(k, t, fd) \/ SysRead(k, t, fd) \/ SysWrite(k, t, fd)
             \/ \E c \in BOOLEAN : SysPipe2(k, t, c)
             \/ \E i \in Inode : SysUnlinkat(k, t, i)
    BY <2>3, SysCloseInv, ReadWriteInv, Pipe2Inv, UnlinkInv
  <2>4. CASE \/ \E new \in Task : CloneShared(k, t, new)
             \/ \E new \in Task, copy \in Table : CloneCopy(k, t, new, copy)
             \/ SysExecve(k, t)
             \/ DropTask(k, t)
    BY <2>4, CloneSharedInv, CloneCopyInv, ExecveInv, DropTaskInv, ZenonT(30)
  <2> QED
    BY <2>1, <2>2, <2>3, <2>4, <2>5, ZenonT(30)
<1> QED
  BY <1>1, <1>2

\* The inductive invariant holds in every reachable state.
THEOREM Invariance == Spec => []IInv
BY InitInv, NextInv, PTL DEF Spec

\* Tables, bitmaps and counts stay in range.
THEOREM TypeCorrect == Spec => []TypeOK
<1>1. IInv => TypeOK
  BY DEF IInv
<1> QED
  BY <1>1, Invariance, PTL

\* In every table a descriptor is either in use or free, whatever the tasks
\* that share it do.
THEOREM AllocatorCorrect == Spec => []AllocatorInv
<1>1. IInv => AllocatorInv
  BY DEF IInv
<1> QED
  BY <1>1, Invariance, PTL

\* The assertions in dealloc and from_clone_copy never fail.
THEOREM AssertionsHold == Spec => []NoAssertFails
<1>1. IInv => NoAssertFails
  BY DEF IInv
<1> QED
  BY <1>1, Invariance, PTL

(******************************** time stamps ********************************)
\* A year is counted by leap_year_cnt exactly when its February has 29 days.
LEMMA LeapYearStep ==
    ASSUME NEW y \in Nat, y > 0
    PROVE  /\ LeapYearCnt(y) \in Int
           /\ LeapYearCnt(y) = LeapYearCnt(y - 1) + (IF Length(y, 2) = 29 THEN 1 ELSE 0)
<1>1. y \div 4 = (y - 1) \div 4 + (IF y % 4 = 0 THEN 1 ELSE 0)
  OBVIOUS
<1>2. y \div 100 = (y - 1) \div 100 + (IF y % 100 = 0 THEN 1 ELSE 0)
  OBVIOUS
<1>3. y \div 400 = (y - 1) \div 400 + (IF y % 400 = 0 THEN 1 ELSE 0)
  OBVIOUS
<1>4. (y % 400 = 0 => y % 100 = 0) /\ (y % 100 = 0 => y % 4 = 0)
  OBVIOUS
<1>5. /\ y \div 4 \in Int /\ y \div 100 \in Int /\ y \div 400 \in Int
      /\ (y - 1) \div 4 \in Int /\ (y - 1) \div 100 \in Int /\ (y - 1) \div 400 \in Int
  OBVIOUS
<1>6. Length(y, 2) = 29 <=> (y % 4 = 0 /\ y % 100 # 0) \/ y % 400 = 0
  BY DEF Length
<1> QED BY <1>1, <1>2, <1>3, <1>4, <1>5, <1>6 DEF LeapYearCnt

\* The leap years among the n years from 1970 on.
Leaps(n) == {k \in 1970 .. 1970 + n - 1 : Length(k, 2) = 29}

\* Counted one by one, they are as many as leap_year_cnt says.
LEMMA LeapYearsCounted ==
    ASSUME NEW n \in Nat
    PROVE  /\ IsFiniteSet(Leaps(n))
           /\ Cardinality(Leaps(n)) = LeapYearCnt(1970 + n - 1) - LeapYearCnt(1969)
<1> DEFINE T == {m \in Nat : /\ IsFiniteSet(Leaps(m))
                             /\ Cardinality(Leaps(m)) = LeapYearCnt(1970 + m - 1) - LeapYearCnt(1969)}
<1>1. 0 \in T
  <2>1. Leaps(0) = {}
    BY DEF Leaps
  <2>2. LeapYearCnt(1969) \in Int
    BY LeapYearStep
  <2>3. LeapYearCnt(1970 + 0 - 1) - LeapYearCnt(1969) = 0
    BY <2>2
  <2> QED BY <2>1, <2>3, FS_EmptySet
<1>2. ASSUME NEW m \in Nat, m \in T PROVE m + 1 \in T
  <2> DEFINE y == 1970 + m
  <2>0. y \in Nat /\ y > 0 /\ 1970 + m - 1 = y - 1 /\ 1970 + (m + 1) - 1 = y /\ m + 1 \in Nat
    OBVIOUS
  <2>1. y \notin Leaps(m)
    BY DEF Leaps
  <2>2. Leaps(m + 1) = IF Length(y, 2) = 29 THEN Leaps(m) \cup {y} ELSE Leaps(m)
    <3>1. \A k : k \in 1970 .. 1970 + (m + 1) - 1 <=> k \in 1970 .. 1970 + m - 1 \/ k = y
      OBVIOUS
    <3> HIDE DEF y
    <3>2. \A k : k \in Leaps(m + 1) <=> k \in Leaps(m) \/ (k = y /\ Length(y, 2) = 29)
      BY <3>1 DEF Leaps
    <3>3. CASE Length(y, 2) = 29
      <4>1. \A k : k \in Leaps(m + 1) <=> k \in Leaps(m) \cup {y}
        BY <3>2, <3>3
      <4> QED BY <4>1, <3>3
    <3>4. CASE Length(y, 2) # 29
      <4>1. \A k : k \in Leaps(m + 1) <=> k \in Leaps(m)
        BY <3>2, <3>4
      <4> QED BY <4>1, <3>4
    <3> QED BY <3>3, <3>4
  <2>3. IsFiniteSet(Leaps(m)) /\ Cardinality(Leaps(m)) = LeapYearCnt(y - 1) - LeapYearCnt(1969)
    BY <1>2, <2>0
  <2> HIDE DEF y
  <2>4. IsFiniteSet(Leaps(m) \cup {y}) /\ Cardinality(Leaps(m) \cup {y}) = Cardinality(Leaps(m)) + 1
    BY <2>1, <2>3, FS_AddElement
  <2>5. /\ LeapYearCnt(y) \in Int /\ LeapYearCnt(1969) \in Int /\ LeapYearCnt(y - 1) \in Int
        /\ LeapYearCnt(y) = LeapYearCnt(y - 1) + (IF Length(y, 2) = 29 THEN 1 ELSE 0)
    <3>1. y - 1 \in Nat /\ y - 1 > 0 /\ 1969 \in Nat
      BY DEF y
    <3> QED BY <2>0, <3>1, LeapYearStep
  <2>6. IsFiniteSet(Leaps(m + 1))
    BY <2>2, <2>3, <2>4
  <2>7. Cardinality(Leaps(m + 1)) = LeapYearCnt(y) - LeapYearCnt(1969)
    BY <2>2, <2>3, <2>4, <2>5
  <2> QED BY <2>0, <2>6, <2>7
<1> HIDE DEF T
<1>3. n \in T
  BY <1>1, <1>2, Upwards
<1> QED BY <1>3 DEF T

\* year_to_day_count, against the calendar.
LEMMA YearsRight ==
    ASSUME NEW y \in Nat, y >= 1970
    PROVE  YearToDayCount(y) = DaysBefore(y) /\ YearToDayCount(y) \in Int
<1> DEFINE n == y - 1970
<1>1. n \in Nat /\ 1970 + n - 1 = y - 1 /\ y - 1 \in Nat /\ y - 1 > 0
  OBVIOUS
<1>2. Leaps(n) = {k \in 1970 .. y - 1 : Length(k, 2) = 29}
  BY <1>1 DEF Leaps
<1>3. Cardinality(Leaps(n)) = LeapYearCnt(y - 1) - LeapYearCnt(1969)
  BY <1>1, LeapYearsCounted
<1>4. LeapYearCnt(y - 1) \in Int /\ LeapYearCnt(1969) \in Int
  BY <1>1, LeapYearStep
<1>5. DaysBefore(y) = 365 * (y - 1970) + Cardinality(Leaps(n))
  BY <1>2 DEF DaysBefore
<1>6. YearToDayCount(y) = LeapYearCnt(y - 1) - LeapYearCnt(1969) + (y - 1970) * 365
  BY DEF YearToDayCount, DAY_PER_YEAR
<1> HIDE DEF n
<1> QED BY <1>3, <1>4, <1>5, <1>6

\* The recursions of month_to_day_count and of the calendar.
Spans(f, leap) ==
    f = [i \in 0 .. 12 |->
           IF i = 0 THEN 0
           ELSE f[i - 1] + DAY_PER_MONTH[i] + (IF i = 2 /\ leap THEN 1 ELSE 0)]

MonthStarts(f, y) ==
    f = [k \in 1 .. 12 |-> IF k = 1 THEN 0 ELSE f[k - 1] + Length(y, k - 1)]

\* The days before each month, written out; both recursions have this solution.
MonthSums(b) == <<0, 31, 59 + b, 90 + b, 120 + b, 151 + b, 181 + b, 212 + b, 243 + b,
              273 + b, 304 + b, 334 + b, 365 + b>>

\* The table of the code and the rule of the calendar agree on every month.
LEMMA MonthLengths ==
    ASSUME NEW y \in Nat
    PROVE  /\ LeapYear(y) <=> Length(y, 2) = 29
           /\ \A i \in 1 .. 12 :
                /\ DAY_PER_MONTH[i] + (IF i = 2 /\ LeapYear(y) THEN 1 ELSE 0) = Length(y, i)
                /\ DAY_PER_MONTH[i] \in Nat /\ Length(y, i) \in Nat
<1>1. (y % 400 = 0 => y % 100 = 0) /\ (y % 100 = 0 => y % 4 = 0)
  OBVIOUS
<1>2. LeapYear(y) <=> Length(y, 2) = 29
  BY <1>1 DEF LeapYear, Length
<1>3. Length(y, 2) \in {28, 29}
  BY DEF Length
<1>4. ASSUME NEW i \in 1 .. 12
      PROVE  /\ DAY_PER_MONTH[i] + (IF i = 2 /\ LeapYear(y) THEN 1 ELSE 0) = Length(y, i)
             /\ DAY_PER_MONTH[i] \in Nat /\ Length(y, i) \in Nat
  <2>1. CASE i = 2
    <3>1. DAY_PER_MONTH[2] = 28
      BY DEF DAY_PER_MONTH
    <3> QED BY <1>2, <1>3, <2>1, <3>1
  <2>2. CASE i # 2
    <3>1. DAY_PER_MONTH[i] = IF i \in {4, 6, 9, 11} THEN 30 ELSE 31
      BY <2>2 DEF DAY_PER_MONTH
    <3>2. Length(y, i) = IF i \in {4, 6, 9, 11} THEN 30 ELSE 31
      BY <2>2 DEF Length
    <3> QED BY <2>2, <3>1, <3>2
  <2> QED BY <2>1, <2>2
<1> QED BY <1>2, <1>4

\* The days that fat_to_unix_time counts for the months before a month.
Before(y, month) == MonthToDayCount(month - 1, LeapYear(y))

\* month_to_day_count, against the calendar.
LEMMA MonthsRight ==
    ASSUME NEW y \in Nat, NEW m \in 1 .. 12
    PROVE  Before(y, m) = DaysOfMonths(y, m) /\ Before(y, m) \in Nat
<1> DEFINE b == IF LeapYear(y) THEN 1 ELSE 0
           t == MonthSums(b)
           D(i) == DAY_PER_MONTH[i] + (IF i = 2 /\ LeapYear(y) THEN 1 ELSE 0)
           days == CHOOSE f : Spans(f, LeapYear(y))
           n == CHOOSE f : MonthStarts(f, y)
<1>1. \A i \in 1 .. 12 : D(i) = Length(y, i) /\ Length(y, i) \in Nat /\ D(i) \in Nat
  BY MonthLengths, ZenonT(30)
<1>2. b \in {0, 1}
  OBVIOUS
<1>3. \A i \in 1 .. 12 : t[i + 1] = t[i] + D(i) /\ t[i] \in Nat
  <2>1. \A i \in 1 .. 12 : D(i) = <<31, 28 + b, 31, 30, 31, 30, 31, 31, 30, 31, 30, 31>>[i]
    BY DEF DAY_PER_MONTH
  <2> HIDE DEF b, D
  <2> QED BY <1>2, <2>1 DEF MonthSums
<1>4. t[1] = 0
  BY DEF MonthSums
<1>5. \A i \in 1 .. 12 : DAY_PER_MONTH[i] \in Nat
  BY MonthLengths, ZenonT(30)
<1>6. \A i \in 1 .. 12 : D(i) = DAY_PER_MONTH[i] + (IF i = 2 /\ LeapYear(y) THEN 1 ELSE 0)
  OBVIOUS
<1>7. Spans(days, LeapYear(y))
  <2> DEFINE g == [i \in 0 .. 12 |-> t[i + 1]]
             h == [i \in 0 .. 12 |-> IF i = 0 THEN 0
                     ELSE g[i - 1] + DAY_PER_MONTH[i] + (IF i = 2 /\ LeapYear(y) THEN 1 ELSE 0)]
  <2>1. ASSUME NEW i \in 0 .. 12 PROVE g[i] = h[i]
    <3>1. CASE i = 0
      BY <1>4, <3>1
    <3>2. CASE i # 0
      <4>1. i \in 1 .. 12 /\ i - 1 \in 0 .. 12 /\ i - 1 + 1 = i
        BY <3>2
      <4>2. g[i] = t[i + 1] /\ g[i - 1] = t[i]
        BY <4>1
      <4>3. h[i] = g[i - 1] + DAY_PER_MONTH[i] + (IF i = 2 /\ LeapYear(y) THEN 1 ELSE 0)
        BY <3>2
      <4>4. t[i + 1] = t[i] + D(i) /\ t[i] \in Nat /\ DAY_PER_MONTH[i] \in Nat
        BY <1>3, <1>5, <4>1
      <4> HIDE DEF g, h, t
      <4> QED BY <4>2, <4>3, <4>4
    <3> QED BY <3>1, <3>2
  <2>2. g = h
    <3> HIDE DEF t
    <3>1. DOMAIN g = 0 .. 12 /\ DOMAIN h = 0 .. 12
      OBVIOUS
    <3>2. g = [i \in 0 .. 12 |-> g[i]] /\ h = [i \in 0 .. 12 |-> h[i]]
      OBVIOUS
    <3> HIDE DEF g, h
    <3> QED BY <2>1, <3>1, <3>2
  <2>3. Spans(g, LeapYear(y))
    BY <2>2, Zenon DEF Spans
  <2> HIDE DEF g
  <2> QED BY <2>3, Zenon
<1>8. MonthStarts(n, y)
  <2> DEFINE g == [k \in 1 .. 12 |-> t[k]]
             h == [k \in 1 .. 12 |-> IF k = 1 THEN 0 ELSE g[k - 1] + Length(y, k - 1)]
  <2>1. ASSUME NEW k \in 1 .. 12 PROVE g[k] = h[k]
    <3>1. CASE k = 1
      BY <1>4, <3>1
    <3>2. CASE k # 1
      <4>1. k - 1 \in 1 .. 12 /\ k - 1 + 1 = k
        BY <3>2
      <4>2. g[k] = t[k] /\ g[k - 1] = t[k - 1]
        BY <4>1
      <4>3. h[k] = g[k - 1] + Length(y, k - 1)
        BY <3>2
      <4>4. t[k - 1 + 1] = t[k - 1] + D(k - 1) /\ D(k - 1) = Length(y, k - 1)
        BY <1>1, <1>3, <4>1
      <4> HIDE DEF g, h, t, D
      <4> QED BY <4>1, <4>2, <4>3, <4>4
    <3> QED BY <3>1, <3>2
  <2>2. g = h
    <3> HIDE DEF t
    <3>2. g = [i \in 1 .. 12 |-> g[i]] /\ h = [i \in 1 .. 12 |-> h[i]]
      OBVIOUS
    <3> HIDE DEF g, h
    <3> QED BY <2>1, <3>2
  <2>3. MonthStarts(g, y)
    BY <2>2, Zenon DEF MonthStarts
  <2> HIDE DEF g
  <2> QED BY <2>3, Zenon
<1>9. \A q : MonthToDayCount(q, LeapYear(y)) = IF q > 12 THEN Panicked ELSE days[q]
  BY Zenon DEF MonthToDayCount, Spans
<1>10. DaysOfMonths(y, m) = n[m]
  BY Zenon DEF DaysOfMonths, MonthStarts
<1> HIDE DEF days, n, t, b
<1>11. days[0] = 0 /\ n[1] = 0
  BY <1>7, <1>8 DEF Spans, MonthStarts
<1>12. ASSUME NEW i \in 1 .. 11, days[i - 1] = n[i], n[i] \in Nat
       PROVE  days[i] = n[i + 1] /\ n[i + 1] \in Nat
  <2>1. i \in 0 .. 12 /\ i # 0 /\ i \in 1 .. 12 /\ i + 1 \in 1 .. 12 /\ i + 1 # 1 /\ i + 1 - 1 = i
    OBVIOUS
  <2>2. days[i] = days[i - 1] + DAY_PER_MONTH[i] + (IF i = 2 /\ LeapYear(y) THEN 1 ELSE 0)
    BY <1>7, <2>1, Zenon DEF Spans
  <2>3. n[i + 1] = n[i] + Length(y, i)
    <3>1. \A k \in 1 .. 12 : k # 1 => n[k] = n[k - 1] + Length(y, k - 1)
      BY <1>8, Zenon DEF MonthStarts
    <3> QED BY <2>1, <3>1
  <2>4. /\ D(i) = Length(y, i) /\ Length(y, i) \in Nat /\ DAY_PER_MONTH[i] \in Nat
        /\ D(i) = DAY_PER_MONTH[i] + (IF i = 2 /\ LeapYear(y) THEN 1 ELSE 0)
    BY <1>1, <1>5, <1>6, <2>1
  <2> QED BY <1>12, <2>1, <2>2, <2>3, <2>4
<1>13. \A i \in 1 .. 12 : days[i - 1] = n[i] /\ n[i] \in Nat
  <2> DEFINE T == {j \in Nat : j <= 11 => days[j] = n[j + 1] /\ n[j + 1] \in Nat}
  <2>1. 0 \in T
    BY <1>11
  <2>2. ASSUME NEW j \in Nat, j \in T PROVE j + 1 \in T
    <3> SUFFICES ASSUME j + 1 <= 11 PROVE days[j + 1] = n[j + 1 + 1] /\ n[j + 1 + 1] \in Nat
      OBVIOUS
    <3>1. j + 1 \in 1 .. 11 /\ j + 1 - 1 = j /\ j <= 11
      OBVIOUS
    <3>2. days[j + 1 - 1] = n[j + 1] /\ n[j + 1] \in Nat
      BY <2>2, <3>1
    <3> QED BY <1>12, <3>1, <3>2
  <2> HIDE DEF T
  <2>3. \A j \in Nat : j \in T
    BY <2>1, <2>2, Upwards
  <2>4. ASSUME NEW i \in 1 .. 12 PROVE days[i - 1] = n[i] /\ n[i] \in Nat
    <3>1. i - 1 \in Nat /\ i - 1 <= 11 /\ i - 1 + 1 = i
      OBVIOUS
    <3> QED BY <2>3, <3>1 DEF T
  <2> QED BY <2>4
<1>14. ~(m - 1 > 12)
  OBVIOUS
<1>15. MonthToDayCount(m - 1, LeapYear(y)) = days[m - 1]
  BY <1>9, <1>14, Zenon
<1> QED BY <1>10, <1>13, <1>15 DEF Before

\* The milliseconds of unix_time_to_timespec give back the seconds.
LEMMA SecondsOf ==
    ASSUME NEW s \in Nat, NEW q \in Nat
    PROVE  (s * 1000 + q * 10) \div 1000 = s + q \div 100
OBVIOUS

\* Every stamp FAT can hold, and more: no field has a width.
StampSet == [year : Nat, month : Nat, day : Nat, hr : Nat, min : Nat, sec : Nat, tenth : Nat]

\* Every valid stamp, of any year from 1980 on, is converted by fat_to_unix_time
\* and unix_time_to_timespec to the day the calendar counts and the second of
\* that day, and the month table is not indexed past its end.
THEOREM FatTimesRight == stamp \in StampSet => FatTimeRight
<1> SUFFICES ASSUME stamp \in StampSet, ValidStamp(stamp)
             PROVE  LET t == FatToUnixTime(stamp)
                        y == 1980 + stamp.year
                    IN  /\ ~t.panics
                        /\ t.days = DaysBefore(y) + DaysOfMonths(y, stamp.month) + stamp.day - 1
                        /\ BitToTimespec(stamp).sec = stamp.hr * 3600 + stamp.min * 60 + stamp.sec * 2
                                                       + stamp.tenth \div 100
  BY DEF FatTimeRight
<1> DEFINE t == FatToUnixTime(stamp)
           y == 1980 + stamp.year
           before == Before(y, stamp.month)
           ms == ((stamp.hr * 60 + stamp.min) * 60 + stamp.sec * 2) * 1000 + stamp.tenth * 10
<1>1. /\ stamp.year \in Nat /\ stamp.month \in Nat /\ stamp.day \in Nat
      /\ stamp.hr \in Nat /\ stamp.min \in Nat /\ stamp.sec \in Nat /\ stamp.tenth \in Nat
  BY DEF StampSet
<1>2. y \in Nat /\ y >= 1970
  BY <1>1
<1>3. stamp.month \in 1 .. 12 /\ stamp.day \in 1 .. 31
  <2>1. stamp.month \in 1 .. 12 /\ stamp.day \in 1 .. Length(y, stamp.month)
    BY DEF ValidStamp
  <2>2. Length(y, stamp.month) \in {28, 29, 30, 31}
    BY DEF Length
  <2> QED BY <1>1, <2>1, <2>2
<1>4. (stamp.month - 1) % Unsigned16 = stamp.month - 1 /\ (stamp.day - 1) % Unsigned16 = stamp.day - 1
  BY <1>3 DEF Unsigned16
<1>5. before = DaysOfMonths(y, stamp.month) /\ before \in Nat
  <2>1. \A yr \in Nat, m \in 1 .. 12 : Before(yr, m) = DaysOfMonths(yr, m) /\ Before(yr, m) \in Nat
    BY MonthsRight, Zenon
  <2>2. y \in Nat /\ stamp.month \in 1 .. 12
    BY <1>2, <1>3
  <2> HIDE DEF y
  <2>3. Before(y, stamp.month) = DaysOfMonths(y, stamp.month) /\ Before(y, stamp.month) \in Nat
    BY <2>1, <2>2, ZenonT(30)
  <2> QED BY <2>3
<1>6. YearToDayCount(y) = DaysBefore(y) /\ YearToDayCount(y) \in Int
  BY <1>2, YearsRight
<1>7. t = [panics |-> before = Panicked,
           days |-> YearToDayCount(y) + before + (stamp.day - 1), ms |-> ms]
  <2> DEFINE month == (stamp.month - 1) % Unsigned16
             day == (stamp.day - 1) % Unsigned16
  <2>1. t = [panics |-> MonthToDayCount(month, LeapYear(y)) = Panicked,
             days |-> YearToDayCount(y) + MonthToDayCount(month, LeapYear(y)) + day, ms |-> ms]
    BY Zenon DEF FatToUnixTime
  <2>2. month = stamp.month - 1 /\ day = stamp.day - 1
    BY <1>4
  <2> HIDE DEF month, day, t, ms, y
  <2> QED BY <2>1, <2>2, ZenonT(30) DEF Before
<1>8. BitToTimespec(stamp).sec = ms \div 1000
  <2> HIDE DEF ms, before, y
  <2>1. t.ms = ms
    BY <1>7
  <2> QED BY <2>1 DEF BitToTimespec, UnixTimeToTimespec
<1>9. ms \div 1000 = stamp.hr * 3600 + stamp.min * 60 + stamp.sec * 2 + stamp.tenth \div 100
  <2> DEFINE s == (stamp.hr * 60 + stamp.min) * 60 + stamp.sec * 2
  <2>1. s \in Nat /\ s = stamp.hr * 3600 + stamp.min * 60 + stamp.sec * 2
    BY <1>1
  <2>2. ms = s * 1000 + stamp.tenth * 10
    OBVIOUS
  <2> HIDE DEF s, ms
  <2>3. ms \div 1000 = s + stamp.tenth \div 100
    <3>1. \A u, q \in Nat : (u * 1000 + q * 10) \div 1000 = u + q \div 100
      BY SecondsOf, ZenonT(30)
    <3>2. s \in Nat /\ stamp.tenth \in Nat
      BY <1>1, <2>1, Zenon
    <3>3. (s * 1000 + stamp.tenth * 10) \div 1000 = s + stamp.tenth \div 100
      BY <3>1, <3>2
    <3> QED BY <2>2, <3>3
  <2> QED BY <2>1, <2>3
<1> HIDE DEF ms, before, y, t
<1>10. (t.panics <=> before = Panicked) /\ t.days = YearToDayCount(y) + before + (stamp.day - 1)
  BY <1>7, ZenonT(30)
<1>11. ~t.panics
  BY <1>5, <1>10 DEF Panicked
<1>12. t.days = DaysBefore(y) + DaysOfMonths(y, stamp.month) + stamp.day - 1
  BY <1>3, <1>5, <1>6, <1>10
<1> QED BY <1>8, <1>9, <1>11, <1>12 DEF t, y

==============================================================================
