--------------------------- MODULE OpenFilesProofs ---------------------------
(****************************************************************************)
(* Proofs about OpenFiles for any openings, files, page and sector sizes.   *)
(****************************************************************************)
EXTENDS OpenFiles, TLAPS, WellFoundedInduction

\* A set of numbers has a least member.
LEMMA LeastOf ==
    ASSUME NEW S, S \subseteq Nat, S # {}
    PROVE  \E x \in S : \A y \in S : x <= y
<1>1. IsWellFoundedOn(OpToRel(<, Nat), Nat)
  BY NatLessThanWellFounded
<1>2. PICK x \in S : \A y \in S : ~(<<y, x>> \in OpToRel(<, Nat))
  BY <1>1, WFMin
<1>3. ASSUME NEW y \in S PROVE x <= y
  <2>1. ~(<<y, x>> \in {ss \in Nat \X Nat : ss[1] < ss[2]})
    BY <1>2 DEF OpToRel
  <2>2. x \in Nat /\ y \in Nat /\ ~(y < x)
    BY <2>1
  <2> QED BY <2>2
<1> QED BY <1>3

\* Induction, stated of a set.
LEMMA Upwards ==
    ASSUME NEW S, 0 \in S, \A n \in Nat : n \in S => n + 1 \in S
    PROVE  \A n \in Nat : n \in S
<1> SUFFICES ASSUME Nat \ S # {} PROVE FALSE
  OBVIOUS
<1>1. PICK m \in Nat \ S : \A q \in Nat \ S : m <= q
  BY LeastOf, Zenon
<1>2. m # 0 /\ m - 1 \in Nat /\ m - 1 + 1 = m
  BY <1>1
<1>3. m - 1 \notin S
  BY <1>1, <1>2
<1> QED BY <1>1, <1>2, <1>3

\* A shift to the right gives a number (SectorOffset).
LEMMA ShiftType ==
    ASSUME NEW v \in Nat, NEW n \in Nat
    PROVE  ShiftRight(v, n) \in Nat
<1> DEFINE Fits(f, k) == f = [i \in 0..k |-> IF i = 0 THEN v ELSE f[i - 1] \div 2]
           S == {k \in Nat : \E f : Fits(f, k)}
<1>1. 0 \in S
  <2>1. Fits([i \in 0..0 |-> v], 0)
    OBVIOUS
  <2> QED BY <2>1, Zenon
<1>2. ASSUME NEW k \in Nat, k \in S PROVE k + 1 \in S
  <2>1. PICK f : Fits(f, k)
    BY <1>2
  <2> DEFINE g == [i \in 0..(k + 1) |-> IF i = 0 THEN v ELSE f[i - 1] \div 2]
  <2>2. \A i \in 0..k : g[i] = f[i]
    BY <2>1
  <2>3. \A i \in 0..(k + 1) : i # 0 => i - 1 \in 0..k
    OBVIOUS
  <2>4. Fits(g, k + 1)
    BY <2>2, <2>3, Zenon
  <2> HIDE DEF g
  <2> QED BY <2>4
<1> HIDE DEF S
<1>3. n \in S
  BY <1>1, <1>2, Upwards
<1>4. PICK f : Fits(f, n)
  BY <1>3 DEF S
<1> DEFINE half == CHOOSE h : Fits(h, n)
<1>5. Fits(half, n)
  BY <1>4, Zenon
<1>6. ShiftRight(v, n) = half[n]
  BY Zenon DEF ShiftRight
<1> HIDE DEF half
<1> DEFINE T == {i \in Nat : i <= n => half[i] \in Nat}
<1>7. 0 \in T
  BY <1>5
<1>8. ASSUME NEW i \in Nat, i \in T PROVE i + 1 \in T
  <2> SUFFICES ASSUME i + 1 <= n PROVE half[i + 1] \in Nat
    OBVIOUS
  <2>1. half[i] \in Nat /\ i + 1 \in 0..n /\ i + 1 # 0 /\ i + 1 - 1 = i
    BY <1>8
  <2>2. half[i + 1] = half[i] \div 2
    BY <1>5, <2>1
  <2> QED BY <2>1, <2>2
<1> HIDE DEF T
<1>9. n \in T
  BY <1>7, <1>8, Upwards
<1> QED BY <1>6, <1>9 DEF T

\* The sector of an offset in a page is one of the page's.
LEMMA SectorOf ==
    ASSUME NEW o \in 0..(PageSize - 1)
    PROVE  o \div SectorSize \in Sectors
<1>0. PageSize \in Nat \ {0} /\ SectorSize \in Nat \ {0} /\ PageSize % SectorSize = 0
  BY SizeAssumption
<1> DEFINE k == PageSize \div SectorSize
           q == o \div SectorSize
<1>1. k \in Nat /\ PageSize = k * SectorSize
  BY <1>0
<1>2. q \in Nat /\ q * SectorSize <= o
  BY <1>0
<1> HIDE DEF k, q
<1>3. q < k
  <2> SUFFICES ASSUME q >= k PROVE FALSE
    BY <1>1, <1>2
  <2>1. PICK d \in Nat : q = k + d
    <3>1. q - k \in Nat /\ q = k + (q - k)
      BY <1>1, <1>2
    <3> QED BY <3>1
  <2>2. q * SectorSize = k * SectorSize + d * SectorSize /\ d * SectorSize \in Nat
    BY <1>0, <1>1, <2>1
  <2> QED BY <1>0, <1>1, <1>2, <2>2
<1> QED BY <1>1, <1>2, <1>3 DEF Sectors, k, q

\* Where an offset of the file lies: in its page, at its place.
LEMMA Place ==
    ASSUME NEW o \in Nat
    PROVE  /\ o \div PageSize \in Nat /\ o % PageSize \in 0..(PageSize - 1)
           /\ (o \div PageSize) * PageSize + (o % PageSize) = o
           /\ (o % PageSize) \div SectorSize \in Sectors
<1>1. PageSize \in Nat \ {0}
  BY SizeAssumption
<1>2. /\ o \div PageSize \in Nat /\ o % PageSize \in 0..(PageSize - 1)
      /\ (o \div PageSize) * PageSize + (o % PageSize) = o
  BY <1>1
<1> QED BY <1>2, SectorOf

(*********************************** pages ***********************************)
States == {"Empty", "Sync", "Dirty"}
PageType == [data : [0..(PageSize - 1) -> Byte], state : [Sectors -> States]]

\* A page cache, its pages below the bound of the programs.
IsCache(P) ==
    /\ P = [p \in DOMAIN P |-> P[p]]
    /\ \A p \in DOMAIN P : p \in 0..(MaxPos \div PageSize) /\ P[p] \in PageType

\* The bytes from..(to - 1) are in pages below that bound.
InBound(from, to) ==
    /\ from \in Nat /\ to \in Int
    /\ \A o \in from..(to - 1) : o \div PageSize \in 0..(MaxPos \div PageSize)

\* The sector of offset o has been written to in the cache P.
IsDirty(P, o) ==
    o \div PageSize \in DOMAIN P
      /\ P[o \div PageSize].state[(o % PageSize) \div SectorSize] = "Dirty"

\* What is dirty stays so, with its bytes.
KeepsDirty(P, W) ==
    \A o \in Nat : IsDirty(P, o) => IsDirty(W, o) /\ At(W, o) = At(P, o)

\* A page that find_page_and_create makes.
LEMMA NewPageType == NewPage \in PageType
  BY ByteAssumption DEF NewPage, PageType, States

Loading(pg, f, page, S, state) ==
    /\ pg \in PageType /\ f \in DOMAIN DiskFiles /\ page \in Nat
    /\ S \subseteq Sectors /\ state \in {"Sync", "Dirty"}
Loaded(pg, new, S, state) ==
    /\ new \in PageType
    /\ \A o \in 0..(PageSize - 1) :
         pg.state[o \div SectorSize] = "Dirty" => new.data[o] = pg.data[o]
    /\ \A s \in Sectors : pg.state[s] = "Dirty" => new.state[s] = "Dirty"
    /\ \A s \in S : state = "Dirty" => new.state[s] = "Dirty"

\* Filling the empty sectors covers no dirty one (Page::read, Page::write).
LEMMA LoadFact ==
    ASSUME NEW pg, NEW f, NEW page, NEW S, NEW state, Loading(pg, f, page, S, state)
    PROVE  Loaded(pg, Load(pg, f, page, S, state), S, state)
<1> /\ pg \in PageType /\ f \in DOMAIN DiskFiles /\ page \in Nat
    /\ S \subseteq Sectors /\ state \in {"Sync", "Dirty"}
  BY DEF Loading
<1> DEFINE E == {s \in S : pg.state[s] = "Empty"}
           new == Load(pg, f, page, S, state)
           data == FromDisk(pg.data, f, page, E)
           st == [s \in Sectors |->
                   IF s \in S /\ pg.state[s] # "Dirty" THEN state ELSE pg.state[s]]
<1>1. new = [data |-> data, state |-> st]
  BY DEF Load
<1>2. pg.data \in [0..(PageSize - 1) -> Byte] /\ pg.state \in [Sectors -> States]
  BY DEF PageType
<1>3. st \in [Sectors -> States]
  BY <1>2 DEF States
<1>4. ASSUME NEW o \in 0..(PageSize - 1)
      PROVE  /\ data[o] \in Byte
             /\ pg.state[o \div SectorSize] = "Dirty" => data[o] = pg.data[o]
  <2> DEFINE s == o \div SectorSize
             at == SectorOffset(page, s) + (o % SectorSize)
  <2>1. data[o] = IF s \in E /\ at < Len(DiskFiles[f]) THEN DiskFiles[f][at + 1] ELSE pg.data[o]
    BY <1>2, Zenon DEF FromDisk
  <2>2. at \in Nat
    <3>1. s \in Nat /\ PageSizeBits \in Nat /\ SectorSize \in Nat \ {0} /\ o \in Nat
      BY SectorOf, SizeAssumption DEF Sectors
    <3> HIDE DEF s
    <3>2. s * SectorSize \in Nat
      BY <3>1
    <3>3. PageSizeBits + s * SectorSize \in Nat
      BY <3>1, <3>2
    <3>4. (PageSizeBits + s * SectorSize) % 64 \in Nat
      BY <3>3
    <3>5. SectorOffset(page, s) \in Nat
      BY <3>4, ShiftType DEF SectorOffset
    <3>6. o % SectorSize \in Nat
      BY <3>1
    <3> QED BY <3>5, <3>6
  <2> HIDE DEF at, s
  <2>3. at < Len(DiskFiles[f]) => DiskFiles[f][at + 1] \in Byte
    <3>1. DiskFiles[f] \in Seq(Byte)
      BY FileAssumption
    <3> QED BY <2>2, <3>1
  <2>4. pg.data[o] \in Byte
    BY <1>2, Zenon
  <2>5. pg.state[s] = "Dirty" => s \notin E
    OBVIOUS
  <2> QED BY <2>1, <2>3, <2>4, <2>5 DEF s
<1>5. data \in [0..(PageSize - 1) -> Byte]
  <2>1. data = [o \in 0..(PageSize - 1) |-> data[o]]
    BY <1>2 DEF FromDisk
  <2> HIDE DEF data
  <2> QED BY <1>4, <2>1
<1>6. \A s \in Sectors : /\ pg.state[s] = "Dirty" => st[s] = "Dirty"
                         /\ s \in S /\ state = "Dirty" => st[s] = "Dirty"
  OBVIOUS
<1> HIDE DEF data, st
<1>7. new \in PageType /\ new.data = data /\ new.state = st
  BY <1>1, <1>3, <1>5 DEF PageType
<1> HIDE DEF new
<1> QED BY <1>4, <1>6, <1>7 DEF Loaded, new

Filling(P, f, from, to, state) ==
    /\ IsCache(P) /\ f \in DOMAIN DiskFiles /\ InBound(from, to) /\ state \in {"Sync", "Dirty"}
Filled(P, W, from, to, state) ==
    /\ IsCache(W) /\ KeepsDirty(P, W)
    /\ \A o \in from..(to - 1) : o \div PageSize \in DOMAIN W
    /\ state = "Dirty" => \A o \in from..(to - 1) : IsDirty(W, o)

\* The loop of read and write over the pages makes the missing ones, fills
\* what is empty in the range, and keeps what is dirty.
LEMMA FillFact ==
    ASSUME NEW P, NEW f, NEW from, NEW to, NEW state, Filling(P, f, from, to, state)
    PROVE  Filled(P, WithPages(P, f, from, to, state), from, to, state)
<1> /\ IsCache(P) /\ f \in DOMAIN DiskFiles /\ InBound(from, to) /\ state \in {"Sync", "Dirty"}
  BY DEF Filling
<1> DEFINE touched == {o \div PageSize : o \in from..(to - 1)}
           pg(p) == IF p \in DOMAIN P THEN P[p] ELSE NewPage
           T(p) == Touched(p, from, to)
           W == WithPages(P, f, from, to, state)
<1>1. /\ W = [p \in DOMAIN P \cup touched |->
                IF p \in touched THEN Load(pg(p), f, p, T(p), state) ELSE pg(p)]
      /\ DOMAIN W = DOMAIN P \cup touched
  BY DEF WithPages
<1>2. touched \subseteq 0..(MaxPos \div PageSize)
  BY DEF InBound
<1>b. 0..(MaxPos \div PageSize) \subseteq Nat
  OBVIOUS
<1> HIDE DEF W
<1>3. ASSUME NEW p \in DOMAIN P \cup touched
      PROVE  /\ p \in 0..(MaxPos \div PageSize) /\ W[p] \in PageType
             /\ p \in touched => Loaded(pg(p), W[p], T(p), state)
             /\ p \notin touched => W[p] = P[p]
  <2>1. p \in 0..(MaxPos \div PageSize) /\ pg(p) \in PageType
    BY <1>2, NewPageType DEF IsCache
  <2>2. CASE p \in touched
    <3>1. W[p] = Load(pg(p), f, p, T(p), state)
      BY <1>1, <2>2
    <3>2. Loading(pg(p), f, p, T(p), state)
      BY <1>b, <2>1 DEF Loading, Touched
    <3> HIDE DEF pg, T
    <3>3. Loaded(pg(p), W[p], T(p), state)
      BY <3>1, <3>2, LoadFact
    <3> QED BY <2>1, <2>2, <3>3 DEF Loaded
  <2>3. CASE p \notin touched
    <3>1. W[p] = P[p]
      BY <1>1, <2>3
    <3> QED BY <2>1, <2>3, <3>1
  <2> QED BY <2>2, <2>3
<1>4. IsCache(W)
  <2>1. W = [p \in DOMAIN W |-> W[p]]
    BY <1>1
  <2> QED BY <1>1, <1>3, <2>1, Zenon DEF IsCache
<1>5. KeepsDirty(P, W)
  <2> SUFFICES ASSUME NEW o \in Nat, IsDirty(P, o)
               PROVE  IsDirty(W, o) /\ At(W, o) = At(P, o)
    BY DEF KeepsDirty
  <2> DEFINE p == o \div PageSize
             i == o % PageSize
  <2>1. /\ p \in DOMAIN P /\ P[p].state[i \div SectorSize] = "Dirty"
        /\ i \in 0..(PageSize - 1) /\ i \div SectorSize \in Sectors
    BY Place DEF IsDirty
  <2>2. p \in DOMAIN W
    BY <1>1, <2>1
  <2>3. W[p].state[i \div SectorSize] = "Dirty" /\ W[p].data[i] = P[p].data[i]
    <3>1. CASE p \in touched
      <4>1. Loaded(P[p], W[p], T(p), state)
        BY <1>3, <2>1, <3>1
      <4> HIDE DEF p, i
      <4> QED BY <2>1, <4>1 DEF Loaded
    <3>2. CASE p \notin touched
      BY <1>3, <2>1, <3>2
    <3> QED BY <3>1, <3>2
  <2> QED BY <2>2, <2>3 DEF IsDirty, At
<1>6. ASSUME NEW o \in from..(to - 1)
      PROVE  o \div PageSize \in DOMAIN W /\ (state = "Dirty" => IsDirty(W, o))
  <2> DEFINE p == o \div PageSize
             s == (o % PageSize) \div SectorSize
  <2>0. o \in Nat
    BY DEF InBound
  <2>1. p \in touched /\ p \in DOMAIN W
    BY <1>1
  <2>2. s \in T(p)
    BY <2>0, Place DEF Touched
  <2>3. Loaded(pg(p), W[p], T(p), state)
    BY <1>3, <2>1
  <2> HIDE DEF s, p, T, pg
  <2>4. state = "Dirty" => W[p].state[s] = "Dirty"
    BY <2>2, <2>3 DEF Loaded
  <2> QED BY <2>1, <2>4 DEF IsDirty, p, s
<1> QED BY <1>4, <1>5, <1>6 DEF Filled, W

Storing(W, from, bytes, n) ==
    /\ IsCache(W) /\ from \in Nat /\ n \in Nat /\ bytes \in [1..n -> Byte]
HasStored(W, R, from, bytes, n) ==
    /\ IsCache(R)
    /\ \A o \in Nat : IsDirty(W, o) => IsDirty(R, o)
    /\ \A o \in Nat : o \div PageSize \in DOMAIN W =>
         At(R, o) = IF o \in from..(from + n - 1) THEN bytes[o - from + 1] ELSE At(W, o)

\* write stores its bytes at their offsets and no others.
LEMMA StoreFact ==
    ASSUME NEW W, NEW from, NEW bytes, NEW n, Storing(W, from, bytes, n)
    PROVE  HasStored(W, Stored(W, from, bytes), from, bytes, n)
<1> /\ IsCache(W) /\ from \in Nat /\ n \in Nat /\ bytes \in [1..n -> Byte]
  BY DEF Storing
<1> DEFINE R == Stored(W, from, bytes)
           new(p) == [o \in DOMAIN W[p].data |->
                        IF p * PageSize + o - from + 1 \in DOMAIN bytes
                        THEN bytes[p * PageSize + o - from + 1] ELSE W[p].data[o]]
<1>0. PageSize \in Nat \ {0}
  BY SizeAssumption
<1>1. R = [p \in DOMAIN W |-> [W[p] EXCEPT !.data = new(p)]] /\ DOMAIN R = DOMAIN W
  BY DEF Stored
<1> HIDE DEF R
<1>2. ASSUME NEW p \in DOMAIN W
      PROVE  /\ R[p] \in PageType /\ R[p].state = W[p].state
             /\ \A o \in 0..(PageSize - 1) :
                  R[p].data[o] = IF p * PageSize + o - from + 1 \in 1..n
                                 THEN bytes[p * PageSize + o - from + 1] ELSE W[p].data[o]
  <2>1. W[p] \in PageType
    BY DEF IsCache
  <2>2. W[p].data \in [0..(PageSize - 1) -> Byte] /\ W[p].state \in [Sectors -> States]
        /\ W[p] = [data |-> W[p].data, state |-> W[p].state]
    BY <2>1 DEF PageType
  <2>3. new(p) \in [0..(PageSize - 1) -> Byte]
    BY <2>2, Zenon
  <2>4. \A o \in 0..(PageSize - 1) :
                  new(p)[o] = IF p * PageSize + o - from + 1 \in 1..n
                              THEN bytes[p * PageSize + o - from + 1] ELSE W[p].data[o]
    BY <2>2, Zenon
  <2> HIDE DEF new
  <2>5. R[p] = [data |-> new(p), state |-> W[p].state]
    BY <1>1, <2>2
  <2>6. R[p] \in PageType /\ R[p].state = W[p].state /\ R[p].data = new(p)
    BY <2>2, <2>3, <2>5 DEF PageType
  <2> QED BY <2>4, <2>6
<1>3. IsCache(R)
  <2>1. R = [p \in DOMAIN R |-> R[p]]
    BY <1>1
  <2> QED BY <1>1, <1>2, <2>1 DEF IsCache
<1>4. \A o \in Nat : IsDirty(W, o) => IsDirty(R, o)
  BY <1>1, <1>2, Zenon DEF IsDirty
<1>5. ASSUME NEW o \in Nat, o \div PageSize \in DOMAIN W
      PROVE  At(R, o) = IF o \in from..(from + n - 1) THEN bytes[o - from + 1] ELSE At(W, o)
  <2> DEFINE p == o \div PageSize
             i == o % PageSize
  <2>1. p \in DOMAIN W /\ i \in 0..(PageSize - 1) /\ p * PageSize + i = o
    BY <1>5, Place
  <2>0. p \in Nat
    BY Place, Zenon
  <2>2. At(R, o) = R[p].data[i] /\ At(W, o) = W[p].data[i]
    BY DEF At
  <2> HIDE DEF p, i
  <2> DEFINE B(k, d) == IF k \in 1..n THEN bytes[k] ELSE d
  <2>3. \A j \in 0..(PageSize - 1) :
          R[p].data[j] = B(p * PageSize + j - from + 1, W[p].data[j])
    BY <1>2, <2>1
  <2>6. p * PageSize + i - from + 1 = o - from + 1
    <3>1. p * PageSize \in Int /\ i \in Int
      BY <1>0, <2>0, <2>1
    <3> DEFINE t == p * PageSize
    <3>2. t \in Int /\ i \in Int /\ t + i = o
      BY <2>1, <3>1
    <3> HIDE DEF t
    <3>3. t + i - from + 1 = o - from + 1
      BY <3>2
    <3> QED BY <3>3 DEF t
  <2> HIDE DEF B
  <2>7. R[p].data[i] = B(p * PageSize + i - from + 1, W[p].data[i])
    BY <2>1, <2>3, Zenon
  <2>8. R[p].data[i] = B(o - from + 1, W[p].data[i])
    BY <2>6, <2>7, Zenon
  <2>4. R[p].data[i] = IF o - from + 1 \in 1..n THEN bytes[o - from + 1] ELSE W[p].data[i]
    BY <2>8 DEF B
  <2>5. o - from + 1 \in 1..n <=> o \in from..(from + n - 1)
    OBVIOUS
  <2> QED BY <2>2, <2>4, <2>5
<1> QED BY <1>3, <1>4, <1>5 DEF HasStored, R

(********************************* the files *********************************)
Caches == UNION {[D -> PageType] : D \in SUBSET (0..(MaxPos \div PageSize))}
OpenRec ==
    [file : Files, writes : BOOLEAN, append : BOOLEAN, pos : 0..MaxPos, pages : Caches]
Why == {"no", "slice", "inode", "deadlock", "capacity"}

\* Pages are only of files of the disk; what was written is in a dirty sector.
PagesGood(x, m) ==
    /\ x.file \notin DOMAIN DiskFiles => DOMAIN x.pages = {}
    /\ \A o \in DOMAIN m : o \in Nat /\ IsDirty(x.pages, o) /\ At(x.pages, o) = m[o]

\* The inductive invariant of the contents: a byte written through an opening
\* is in its page cache, in a sector that is marked dirty.
FileInv ==
    /\ size \in [Files -> 0..MaxPos]
    /\ open \in [Handle -> OpenRec \cup {Closed}]
    /\ halted \in Why
    /\ mine = [h \in Handle |-> mine[h]]
    /\ \A h \in Handle : IsOpen(h) => PagesGood(open[h], mine[h])
    /\ \A h \in Handle : ~IsOpen(h) => DOMAIN mine[h] = {}
    /\ OwnWritesReadBack

\* The two ways to say what a page cache is.
LEMMA CacheSet == \A P : P \in Caches <=> IsCache(P)
<1>1. ASSUME NEW P, P \in Caches PROVE IsCache(P)
  <2>1. PICK D \in SUBSET (0..(MaxPos \div PageSize)) : P \in [D -> PageType]
    BY <1>1 DEF Caches
  <2> QED BY <2>1 DEF IsCache
<1>2. ASSUME NEW P, IsCache(P) PROVE P \in Caches
  <2>1. DOMAIN P \in SUBSET (0..(MaxPos \div PageSize)) /\ P \in [DOMAIN P -> PageType]
    BY <1>2 DEF IsCache
  <2> QED BY <2>1 DEF Caches
<1> QED BY <1>1, <1>2

\* A file of the disk is one of Ext4, and no other file is.
LEMMA KindFact ==
    ASSUME NEW f \in Files
    PROVE  KindOf(f) \in Kinds /\ (KindOf(f) = "ext4" <=> f \in DOMAIN DiskFiles)
  BY FileAssumption DEF Files, KindOf, Kinds

\* Handles that are open have the record of an opening.
LEMMA OpenIs ==
    ASSUME open \in [Handle -> OpenRec \cup {Closed}], NEW h \in Handle
    PROVE  IsOpen(h) <=> open[h] \in OpenRec
<1>1. Closed.file = "none"
  BY DEF Closed
<1>2. ASSUME NEW x \in OpenRec PROVE x.file # "none"
  BY FileAssumption DEF OpenRec
<1> QED BY <1>1, <1>2 DEF IsOpen

\* A multiple of the page size below m is so many pages below it.
LEMMA PagesBelow ==
    ASSUME NEW q \in Nat, NEW m \in Nat, q * PageSize <= m
    PROVE  q <= m \div PageSize
<1>0. PageSize \in Nat \ {0}
  BY SizeAssumption
<1> DEFINE k == m \div PageSize
           r == m % PageSize
<1>1. k \in Nat /\ r \in 0..(PageSize - 1) /\ k * PageSize + r = m
  BY <1>0
<1> HIDE DEF k, r
<1>2. ~(q > k)
  <2> SUFFICES ASSUME q > k PROVE FALSE
    OBVIOUS
  <2>1. PICK d \in Nat : q = (k + 1) + d
    <3>1. q - (k + 1) \in Nat /\ q = (k + 1) + (q - (k + 1))
      BY <1>1
    <3> QED BY <3>1
  <2>2. q * PageSize = k * PageSize + PageSize + d * PageSize /\ d * PageSize \in Nat
        /\ k * PageSize \in Nat /\ q * PageSize \in Nat
    BY <1>0, <1>1, <2>1
  <2> DEFINE a == q * PageSize
             b == k * PageSize
             c == d * PageSize
  <2>3. a = b + PageSize + c /\ a \in Nat /\ b \in Nat /\ c \in Nat /\ b + r = m /\ a <= m
    BY <1>1, <2>2
  <2> HIDE DEF a, b, c
  <2> QED BY <1>0, <1>1, <2>3
<1> QED BY <1>1, <1>2 DEF k

\* read and write stay within the bound of the programs.
LEMMA BelowBound ==
    ASSUME NEW from \in Nat, NEW to \in Int, to <= MaxPos
    PROVE  InBound(from, to)
<1>0. MaxPos \in Nat /\ PageSize \in Nat \ {0}
  BY SizeAssumption
<1>1. ASSUME NEW o \in from..(to - 1) PROVE o \div PageSize \in 0..(MaxPos \div PageSize)
  <2>1. o \in Nat /\ o <= MaxPos
    BY <1>0
  <2> DEFINE q == o \div PageSize
  <2>2. q \in Nat /\ q * PageSize <= o /\ q * PageSize \in Nat
    BY <1>0, <2>1
  <2> HIDE DEF q
  <2>3. q * PageSize <= MaxPos
    BY <1>0, <2>1, <2>2
  <2>4. q <= MaxPos \div PageSize /\ MaxPos \div PageSize \in Nat
    BY <1>0, <2>2, <2>3, PagesBelow
  <2> QED BY <2>2, <2>4 DEF q
<1> QED BY <1>1 DEF InBound

\* read_all reads whole pages, the last with the end of the file.
LEMMA WholePages ==
    ASSUME NEW z \in 0..MaxPos, NEW n, n = (z + PageSize - 1) \div PageSize
    PROVE  n \in Nat /\ InBound(0, n * PageSize)
<1>0. MaxPos \in Nat /\ PageSize \in Nat \ {0} /\ z \in Nat /\ z <= MaxPos
  BY SizeAssumption
<1>1. n \in Nat /\ n * PageSize <= z + PageSize - 1 /\ n * PageSize \in Nat
  BY <1>0
<1>2. ASSUME NEW o \in 0..(n * PageSize - 1) PROVE o \div PageSize \in 0..(MaxPos \div PageSize)
  <2> DEFINE q == o \div PageSize
  <2>1. q \in Nat /\ q * PageSize <= o /\ q * PageSize \in Nat /\ o < n * PageSize
    BY <1>0, <1>1
  <2> HIDE DEF q
  <2>2. q < n
    <3> SUFFICES ASSUME q >= n PROVE FALSE
      BY <1>1, <2>1
    <3>1. PICK d \in Nat : q = n + d
      <4>1. q - n \in Nat /\ q = n + (q - n)
        BY <1>1, <2>1
      <4> QED BY <4>1
    <3>2. q * PageSize = n * PageSize + d * PageSize /\ d * PageSize \in Nat
      BY <1>0, <1>1, <3>1
    <3> QED BY <1>1, <2>1, <3>2
  <2>3. PICK e \in Nat : n = (q + 1) + e
    <3>1. n - (q + 1) \in Nat /\ n = (q + 1) + (n - (q + 1))
      BY <1>1, <2>1, <2>2
    <3> QED BY <3>1
  <2>4. n * PageSize = q * PageSize + PageSize + e * PageSize /\ e * PageSize \in Nat
    BY <1>0, <2>1, <2>3
  <2>5. q * PageSize <= MaxPos
    <3> DEFINE a == q * PageSize
               b == n * PageSize
               c == e * PageSize
    <3>1. b = a + PageSize + c /\ c \in Nat /\ a \in Nat /\ b <= z + PageSize - 1
      BY <1>1, <2>1, <2>4
    <3> HIDE DEF a, b, c
    <3>2. a <= MaxPos
      BY <1>0, <3>1
    <3> QED BY <3>2 DEF a
  <2>6. q <= MaxPos \div PageSize /\ MaxPos \div PageSize \in Nat
    BY <1>0, <2>1, <2>5, PagesBelow
  <2> QED BY <2>1, <2>6 DEF q
<1> QED BY <1>0, <1>1, <1>2 DEF InBound

\* The record of an opening with another f_pos and page cache.
With(x, pos, pages) ==
    [file |-> x.file, writes |-> x.writes, append |-> x.append,
     pos |-> pos, pages |-> pages]

\* Assigning to a field of an opening gives it a record of the same type.
LEMMA Update ==
    ASSUME NEW x \in OpenRec
    PROVE  /\ \A P, e : [[x EXCEPT !.pages = P] EXCEPT !.pos = e] = With(x, e, P)
           /\ \A e : [x EXCEPT !.pos = e] = With(x, e, x.pages)
           /\ \A P : [x EXCEPT !.pages = P] = With(x, x.pos, P)
<1>1. x = With(x, x.pos, x.pages)
  BY DEF OpenRec, With
<1>2. ASSUME NEW P, NEW e
      PROVE  [[x EXCEPT !.pages = P] EXCEPT !.pos = e] = With(x, e, P)
  <2>1. [x EXCEPT !.pages = P] = With(x, x.pos, P)
    BY <1>1 DEF With
  <2>2. [With(x, x.pos, P) EXCEPT !.pos = e] = With(x, e, P)
    BY DEF With
  <2> QED BY <2>1, <2>2, Zenon
<1>3. ASSUME NEW e PROVE [x EXCEPT !.pos = e] = With(x, e, x.pages)
  BY <1>1 DEF With
<1>4. ASSUME NEW P PROVE [x EXCEPT !.pages = P] = With(x, x.pos, P)
  BY <1>1 DEF With
<1> QED BY <1>2, <1>3, <1>4, Zenon

Became(x, y, P) == y \in OpenRec /\ y.file = x.file /\ y.pages = P

\* Such a record is one of an opening of the same file.
LEMMA WithType ==
    ASSUME NEW x \in OpenRec, NEW e \in 0..MaxPos, NEW P \in Caches
    PROVE  Became(x, With(x, e, P), P)
  BY DEF With, OpenRec, Became

\* The fields of an opening.
LEMMA Fields ==
    ASSUME FileInv, NEW h \in Handle, IsOpen(h)
    PROVE  /\ open[h] \in OpenRec /\ open[h].file \in Files
           /\ open[h].pos \in 0..MaxPos
           /\ open[h].pages \in Caches /\ IsCache(open[h].pages)
           /\ size[open[h].file] \in 0..MaxPos /\ PagesGood(open[h], mine[h])
<1>1. open[h] \in OpenRec
  BY OpenIs DEF FileInv
<1>2. /\ open[h].file \in Files
      /\ open[h].pos \in 0..MaxPos
      /\ open[h].pages \in Caches
  BY <1>1 DEF OpenRec
<1> QED BY <1>1, <1>2, CacheSet DEF FileInv

SetOpen(h, x) == open' = [open EXCEPT ![h] = x]

\* A call that changes one opening keeps the invariant when it leaves that
\* opening good.
LEMMA OneOpening ==
    ASSUME FileInv, NEW h \in Handle, NEW x \in OpenRec, SetOpen(h, x),
           mine' = [mine EXCEPT ![h] = mine'[h]], PagesGood(x, mine'[h]),
           size' \in [Files -> 0..MaxPos], halted' \in Why, OwnWritesReadBack'
    PROVE  FileInv'
<1> USE DEF SetOpen
<1>1. open' \in [Handle -> OpenRec \cup {Closed}]
  BY DEF FileInv
<1>2. mine' = [g \in Handle |-> mine'[g]]
  BY Zenon DEF FileInv
<1>3. ASSUME NEW g \in Handle
      PROVE  /\ IsOpen(g)' => PagesGood(open'[g], mine'[g])
             /\ ~IsOpen(g)' => DOMAIN mine'[g] = {}
  <2>1. CASE g = h
    <3>1. open'[g] = x /\ x.file # "none"
      BY <2>1, FileAssumption DEF FileInv, OpenRec
    <3> QED BY <2>1, <3>1 DEF IsOpen
  <2>2. CASE g # h
    <3>1. open'[g] = open[g] /\ mine'[g] = mine[g]
      BY <2>2, Zenon DEF FileInv
    <3> QED BY <3>1 DEF FileInv, IsOpen
  <2> QED BY <2>1, <2>2
<1> QED BY <1>1, <1>2, <1>3 DEF FileInv

\* A call that reads nothing says nothing about bytes.
LEMMA NothingRead ==
    ASSUME result'.call # "read"
    PROVE  OwnWritesReadBack'
  BY DEF OwnWritesReadBack

\* A read shows what it returns.
LEMMA ReadShows ==
    ASSUME NEW h, NEW a, NEW b, Returns("read", h, a, b), mine' = mine,
           \A i \in DOMAIN b : a + i - 1 \in DOMAIN mine[h] => b[i] = mine[h][a + i - 1]
    PROVE  OwnWritesReadBack'
<1>1. result'.h = h /\ result'.at = a /\ result'.bytes = b
  BY DEF Returns
<1> QED BY <1>1 DEF OwnWritesReadBack

\* More pages, with what is dirty kept, are good for the same writes.
LEMMA KeptGood ==
    ASSUME NEW x, NEW y, NEW m, PagesGood(x, m), y.file = x.file, x.file \in DOMAIN DiskFiles,
           KeepsDirty(x.pages, y.pages)
    PROVE  PagesGood(y, m)
  BY DEF PagesGood, KeepsDirty

\* A reading of Ext4MemFile keeps the invariant: it fills pages and gives the
\* written bytes back.
LEMMA ReadExt4Inv ==
    ASSUME FileInv, NEW h \in Handle, NEW n \in Counts, IsOpen(h),
           KindOf(open[h].file) = "ext4", ReadExt4(h, n), UNCHANGED <<size, mine>>
    PROVE  FileInv'
<1> DEFINE x == open[h]
           end == Smaller(x.pos + n, Larger(size[x.file], x.pos))
           W == WithPages(x.pages, x.file, x.pos, end, "Sync")
           bytes == [i \in 1..(end - x.pos) |-> At(W, x.pos + i - 1)]
<1>1. /\ x \in OpenRec /\ x.file \in Files
      /\ x.pos \in 0..MaxPos /\ IsCache(x.pages) /\ size[x.file] \in 0..MaxPos
      /\ PagesGood(x, mine[h])
  BY Fields
<1>2. x.file \in DOMAIN DiskFiles
  BY <1>1, KindFact
<1>3. /\ open' = [open EXCEPT ![h].pages = W, ![h].pos = end]
      /\ Returns("read", h, x.pos, bytes) /\ halted' = halted
  BY DEF ReadExt4
<1>4. n \in Nat /\ MaxPos \in Nat /\ x.pos \in Nat
  BY <1>1, SizeAssumption
<1>5. end \in x.pos..MaxPos
  <2> DEFINE z == size[x.file]
  <2>1. z \in 0..MaxPos /\ x.pos \in 0..MaxPos
    BY <1>1
  <2> HIDE DEF x, z
  <2>2. Larger(z, x.pos) = IF z <= x.pos THEN x.pos ELSE z
    BY <1>4, <2>1 DEF Larger
  <2> DEFINE t == Larger(z, x.pos)
  <2>3. t \in x.pos..MaxPos
    BY <1>4, <2>1, <2>2
  <2> HIDE DEF t
  <2>4. Smaller(x.pos + n, t) = IF x.pos + n <= t THEN x.pos + n ELSE t
    BY <1>4, <2>3 DEF Smaller
  <2>5. Smaller(x.pos + n, t) \in x.pos..MaxPos
    BY <1>4, <2>3, <2>4
  <2> QED BY <2>5 DEF t, z
<1> HIDE DEF end
<1>6. Filling(x.pages, x.file, x.pos, end, "Sync")
  BY <1>1, <1>2, <1>4, <1>5, BelowBound DEF Filling
<1>7. IsCache(W) /\ KeepsDirty(x.pages, W)
  BY <1>6, FillFact DEF Filled
<1> HIDE DEF W
<1> DEFINE y == With(x, end, W)
<1>8. /\ y \in OpenRec /\ y.file = x.file /\ y.pages = W
  <2>1. end \in 0..MaxPos /\ W \in Caches
    BY <1>4, <1>5, <1>7, CacheSet
  <2>2. Became(x, y, W)
    BY <1>1, <2>1, WithType
  <2> QED BY <2>2 DEF Became
<1>9. SetOpen(h, y)
  <2>1. open' = [open EXCEPT ![h] = [[x EXCEPT !.pages = W] EXCEPT !.pos = end]]
    BY <1>3, Zenon DEF FileInv
  <2>2. [[x EXCEPT !.pages = W] EXCEPT !.pos = end] = y
    BY <1>1, Update, Zenon
  <2> QED BY <2>1, <2>2, Zenon DEF SetOpen
<1>10. PagesGood(y, mine[h])
  BY <1>1, <1>2, <1>7, <1>8, KeptGood
<1>11. ASSUME NEW i \in DOMAIN bytes, x.pos + i - 1 \in DOMAIN mine[h]
       PROVE  bytes[i] = mine[h][x.pos + i - 1]
  <2>1. bytes[i] = At(W, x.pos + i - 1)
    OBVIOUS
  <2>2. x.pos + i - 1 \in Nat /\ IsDirty(x.pages, x.pos + i - 1)
        /\ At(x.pages, x.pos + i - 1) = mine[h][x.pos + i - 1]
    BY <1>1, <1>11 DEF PagesGood
  <2> QED BY <1>7, <2>1, <2>2 DEF KeepsDirty
<1> HIDE DEF bytes
<1>12. OwnWritesReadBack'
  BY <1>3, <1>11, ReadShows
<1> HIDE DEF y
<1>13. mine' = [mine EXCEPT ![h] = mine'[h]] /\ mine'[h] = mine[h]
  BY DEF FileInv
<1>14. size' \in [Files -> 0..MaxPos] /\ halted' \in Why
  BY <1>3 DEF FileInv
<1> QED BY <1>8, <1>9, <1>10, <1>12, <1>13, <1>14, OneOpening

\* What a program writes is a sequence of n bytes.
LEMMA Written ==
    ASSUME NEW n \in Nat, NEW bytes \in [1..n -> Byte \ {0}]
    PROVE  Len(bytes) = n /\ bytes \in [1..n -> Byte]
<1>1. bytes \in [1..n -> Byte]
  OBVIOUS
<1>2. bytes \in Seq(Byte)
  BY <1>1
<1>3. DOMAIN bytes = 1..Len(bytes) /\ Len(bytes) \in Nat
  BY <1>2
<1>4. DOMAIN bytes = 1..n
  BY <1>1
<1> QED BY <1>1, <1>3, <1>4

\* A writing of Ext4MemFile keeps the invariant: what it stores is there and
\* dirty, and what was written elsewhere stays.
LEMMA WriteExt4Inv ==
    ASSUME FileInv, NEW h \in Handle, NEW n \in Nat, NEW bytes \in [1..n -> Byte \ {0}],
           IsOpen(h), KindOf(open[h].file) = "ext4", open[h].pos + Len(bytes) <= MaxPos,
           WriteExt4(h, bytes), halted' = halted, result'.call # "read"
    PROVE  FileInv'
<1> DEFINE x == open[h]
           from == x.pos
           end == from + n
           W == WithPages(x.pages, x.file, from, end, "Dirty")
           R == Stored(W, from, bytes)
           m == mine'[h]
<1>1. /\ x \in OpenRec /\ x.file \in Files
      /\ from \in 0..MaxPos /\ IsCache(x.pages) /\ size[x.file] \in 0..MaxPos
      /\ PagesGood(x, mine[h])
  BY Fields
<1>2. x.file \in DOMAIN DiskFiles
  BY <1>1, KindFact
<1>3. Len(bytes) = n /\ bytes \in [1..n -> Byte]
  BY Written
<1>4. /\ open' = [open EXCEPT ![h].pages = R, ![h].pos = end]
      /\ size' = [size EXCEPT ![x.file] = Larger(size[x.file], end)]
      /\ mine' = [mine EXCEPT ![h] =
                [o \in DOMAIN mine[h] \cup from..(end - 1) |->
                    IF o < from \/ o >= end THEN mine[h][o] ELSE bytes[o - from + 1]]]
  BY <1>3 DEF WriteExt4
<1>5. MaxPos \in Nat /\ from \in Nat /\ end \in Nat /\ end <= MaxPos /\ from <= end
  BY <1>1, <1>3, SizeAssumption
<1>6. size' \in [Files -> 0..MaxPos]
  <2>1. Larger(size[x.file], end) \in 0..MaxPos
    <3> DEFINE z == size[x.file]
    <3>1. z \in 0..MaxPos
      BY <1>1
    <3> HIDE DEF z, end
    <3>2. Larger(z, end) = IF z <= end THEN end ELSE z
      BY <1>5, <3>1 DEF Larger
    <3>3. Larger(z, end) \in 0..MaxPos
      BY <1>5, <3>1, <3>2
    <3> QED BY <3>3 DEF z
  <2> HIDE DEF end
  <2> QED BY <1>4, <2>1, Zenon DEF FileInv
<1>7. Filling(x.pages, x.file, from, end, "Dirty")
  BY <1>1, <1>2, <1>5, BelowBound DEF Filling
<1>8. /\ IsCache(W) /\ KeepsDirty(x.pages, W)
      /\ \A o \in from..(end - 1) : o \div PageSize \in DOMAIN W
      /\ \A o \in from..(end - 1) : IsDirty(W, o)
  BY <1>7, FillFact DEF Filled
<1> HIDE DEF W
<1>9. HasStored(W, R, from, bytes, n)
  BY <1>3, <1>5, <1>8, StoreFact DEF Storing
<1> HIDE DEF R
<1> DEFINE y == With(x, end, R)
<1>10. y \in OpenRec /\ y.file = x.file /\ y.pages = R
  <2>1. end \in 0..MaxPos /\ R \in Caches
    BY <1>5, <1>9, CacheSet DEF HasStored
  <2>2. Became(x, y, R)
    BY <1>1, <2>1, WithType
  <2> QED BY <2>2 DEF Became
<1>11. SetOpen(h, y)
  <2>1. open' = [open EXCEPT ![h] = [[x EXCEPT !.pages = R] EXCEPT !.pos = end]]
    BY <1>4, Zenon DEF FileInv
  <2>2. [[x EXCEPT !.pages = R] EXCEPT !.pos = end] = y
    BY <1>1, Update, Zenon
  <2> QED BY <2>1, <2>2, Zenon DEF SetOpen
<1>12. m = [o \in DOMAIN mine[h] \cup from..(end - 1) |->
              IF o < from \/ o >= end THEN mine[h][o] ELSE bytes[o - from + 1]]
       /\ mine' = [mine EXCEPT ![h] = m]
  BY <1>4 DEF FileInv
<1> HIDE DEF m, y, x, from, end
<1>13. ASSUME NEW o \in DOMAIN m
       PROVE  o \in Nat /\ IsDirty(R, o) /\ At(R, o) = m[o]
  <2>1. CASE o \in from..(end - 1)
    <3>1. o \in Nat /\ o \div PageSize \in DOMAIN W /\ IsDirty(W, o)
      BY <1>5, <1>8, <2>1
    <3>2. m[o] = bytes[o - from + 1]
      BY <1>5, <1>12, <2>1
    <3>3. o \in from..(from + n - 1)
      BY <1>5, <2>1 DEF end
    <3> QED BY <1>9, <3>1, <3>2, <3>3 DEF HasStored
  <2>2. CASE o \notin from..(end - 1)
    <3>1. o \in DOMAIN mine[h]
      BY <1>12, <2>2
    <3>2. o \in Nat /\ IsDirty(x.pages, o) /\ At(x.pages, o) = mine[h][o]
      BY <1>1, <3>1 DEF PagesGood
    <3>3. IsDirty(W, o) /\ At(W, o) = mine[h][o]
      BY <1>8, <3>2 DEF KeepsDirty
    <3>4. m[o] = mine[h][o]
      BY <1>5, <1>12, <2>2, <3>2
    <3>5. o \notin from..(from + n - 1) /\ o \div PageSize \in DOMAIN W
      <4>1. o \notin from..(from + n - 1)
        BY <1>5, <2>2, <3>2 DEF end
      <4> QED BY <3>3, <4>1 DEF IsDirty
    <3> QED BY <1>9, <3>2, <3>3, <3>4, <3>5 DEF HasStored
  <2> QED BY <2>1, <2>2
<1>14. PagesGood(y, m)
  BY <1>2, <1>10, <1>13 DEF PagesGood
<1>15. halted' \in Why /\ OwnWritesReadBack'
  BY NothingRead DEF FileInv
<1> QED BY <1>6, <1>10, <1>11, <1>12, <1>14, <1>15, OneOpening DEF m

\* read_all fills every page and keeps what is dirty.
LEMMA ReadAllInv ==
    ASSUME FileInv, NEW h \in Handle, ReadAll(h)
    PROVE  FileInv'
<1> DEFINE x == open[h]
           n == (size[x.file] + PageSize - 1) \div PageSize
           W == WithPages(x.pages, x.file, 0, n * PageSize, "Sync")
<1>0. IsOpen(h) /\ KindOf(x.file) = "ext4" /\ UNCHANGED <<size, halted, mine>>
  BY DEF ReadAll, Runs
<1>1. /\ x \in OpenRec /\ x.file \in Files
      /\ x.pos \in 0..MaxPos /\ IsCache(x.pages) /\ size[x.file] \in 0..MaxPos
      /\ PagesGood(x, mine[h])
  BY <1>0, Fields
<1>2. x.file \in DOMAIN DiskFiles
  BY <1>0, <1>1, KindFact
<1>3. open' = [open EXCEPT ![h].pages = W] /\ result'.call = "read_all"
  BY DEF ReadAll, Returns
<1>4. n \in Nat /\ InBound(0, n * PageSize)
  BY <1>1, WholePages
<1> HIDE DEF n
<1>5. Filling(x.pages, x.file, 0, n * PageSize, "Sync")
  BY <1>1, <1>2, <1>4 DEF Filling
<1>6. IsCache(W) /\ KeepsDirty(x.pages, W)
  BY <1>5, FillFact DEF Filled
<1> HIDE DEF W
<1> DEFINE y == With(x, x.pos, W)
<1>7. y \in OpenRec /\ y.file = x.file /\ y.pages = W
  <2>1. W \in Caches
    BY <1>6, CacheSet
  <2>2. Became(x, y, W)
    BY <1>1, <2>1, WithType
  <2> QED BY <2>2 DEF Became
<1>8. SetOpen(h, y)
  <2>1. open' = [open EXCEPT ![h] = [x EXCEPT !.pages = W]]
    BY <1>3
  <2>2. [x EXCEPT !.pages = W] = y
    BY <1>1, Update, Zenon
  <2> QED BY <2>1, <2>2, Zenon DEF SetOpen
<1>9. PagesGood(y, mine[h])
  BY <1>1, <1>2, <1>6, <1>7, KeptGood
<1> HIDE DEF y, x
<1>10. mine' = [mine EXCEPT ![h] = mine'[h]] /\ mine'[h] = mine[h]
  BY <1>0 DEF FileInv
<1>11. size' \in [Files -> 0..MaxPos] /\ halted' \in Why /\ OwnWritesReadBack'
  BY <1>0, <1>3, NothingRead DEF FileInv
<1> QED BY <1>7, <1>8, <1>9, <1>10, <1>11, OneOpening

\* A step that leaves the openings, the sizes and the writes alone.
LEMMA FilesSame ==
    ASSUME FileInv, UNCHANGED <<size, open, mine>>, halted' \in Why, OwnWritesReadBack'
    PROVE  FileInv'
  BY DEF FileInv, IsOpen

\* A step of one opening that leaves its pages alone.
LEMMA PagesSame ==
    ASSUME FileInv, NEW h \in Handle, IsOpen(h),
           NEW e \in 0..MaxPos, SetOpen(h, With(open[h], e, open[h].pages)),
           UNCHANGED <<size, mine>>, halted' \in Why, OwnWritesReadBack'
    PROVE  FileInv'
<1> DEFINE x == open[h]
           y == With(x, e, x.pages)
<1>1. x \in OpenRec /\ x.pages \in Caches /\ PagesGood(x, mine[h])
  BY Fields
<1>2. Became(x, y, x.pages)
  BY <1>1, WithType
<1> HIDE DEF y, x
<1>3. y \in OpenRec /\ PagesGood(y, mine[h])
  BY <1>1, <1>2 DEF Became, PagesGood
<1>4. SetOpen(h, y)
  BY DEF y, x
<1>5. mine' = [mine EXCEPT ![h] = mine'[h]] /\ mine'[h] = mine[h] /\ size' \in [Files -> 0..MaxPos]
  BY DEF FileInv
<1> QED BY <1>3, <1>4, <1>5, OneOpening

\* sys_read keeps the invariant, whatever is read.
LEMMA ReadInv ==
    ASSUME FileInv, NEW h \in Handle, NEW n \in Counts, Read(h, n)
    PROVE  FileInv'
<1> DEFINE x == open[h]
           k == KindOf(x.file)
<1>0. IsOpen(h) /\ UNCHANGED <<size, mine>>
  BY DEF Read, Runs
<1>1. /\ x \in OpenRec /\ x.file \in Files
      /\ x.pos \in 0..MaxPos /\ PagesGood(x, mine[h])
  BY <1>0, Fields
<1>2. k \in Kinds /\ (k = "ext4" <=> x.file \in DOMAIN DiskFiles)
  BY <1>1, KindFact
<1>3. k # "ext4" => DOMAIN mine[h] = {}
  BY <1>1, <1>2 DEF PagesGood, IsDirty
<1>n. n \in Nat /\ Message \in Nat /\ MaxPos \in Nat /\ Message <= MaxPos
  BY SizeAssumption
<1>4. CASE k = "ext4"
  <2>1. ReadExt4(h, n)
    BY <1>4 DEF Read
  <2> QED BY <1>0, <1>4, <2>1, ReadExt4Inv
<1>5. ASSUME k # "ext4", NEW a, NEW b, Returns("read", h, a, b) PROVE OwnWritesReadBack'
  BY <1>0, <1>3, <1>5, ReadShows
<1>6. halted \in Why /\ (result' = result => OwnWritesReadBack')
  <2>1. ASSUME result' = result PROVE OwnWritesReadBack'
    BY <1>0, <2>1 DEF FileInv, OwnWritesReadBack
  <2> QED BY <2>1 DEF FileInv
<1>7. CASE k = "meminfo"
  <2>1. ReadMeminfo(h, n)
    BY <1>7 DEF Read
  <2>2. CASE x.pos > Message
    <3>1. halted' = "slice" /\ UNCHANGED <<open, result>>
      BY <2>1, <2>2 DEF ReadMeminfo
    <3> QED BY <1>0, <1>6, <3>1, FilesSame DEF Why
  <2>3. CASE ~(x.pos > Message)
    <3> DEFINE len == Smaller(Message - x.pos, n)
    <3>1. /\ open' = [open EXCEPT ![h].pos = x.pos + len]
          /\ Returns("read", h, x.pos, [i \in 1..len |-> 0]) /\ halted' = halted
      BY <2>1, <2>3 DEF ReadMeminfo
    <3>2. x.pos \in Nat /\ x.pos <= Message
      BY <1>1, <1>n, <2>3
    <3>3. x.pos + len \in 0..MaxPos
      <4> HIDE DEF x
      <4>1. Message - x.pos \in Int /\ n \in Int
        BY <1>n, <3>2
      <4>2. len = IF Message - x.pos <= n THEN Message - x.pos ELSE n
        BY <4>1 DEF Smaller
      <4> QED BY <1>n, <3>2, <4>2
    <3> HIDE DEF len
    <3>4. SetOpen(h, With(x, x.pos + len, x.pages))
      <4>1. open' = [open EXCEPT ![h] = [x EXCEPT !.pos = x.pos + len]]
        BY <3>1
      <4>2. [x EXCEPT !.pos = x.pos + len] = With(x, x.pos + len, x.pages)
        BY <1>1, Update, Zenon
      <4> QED BY <4>1, <4>2, Zenon DEF SetOpen
    <3>5. OwnWritesReadBack'
      BY <1>5, <1>7, <3>1
    <3> QED BY <1>0, <1>1, <1>6, <3>1, <3>3, <3>4, <3>5, PagesSame
  <2> QED BY <2>2, <2>3
<1>8. CASE k # "ext4" /\ k # "meminfo"
  <2>1. open' = open /\ halted' \in Why /\ OwnWritesReadBack'
    <3>1. CASE k = "mounts"
      <4>1. ReadMounts(h, n)
        BY <3>1 DEF Read
      <4>2. CASE open[h].pos < Message /\ n < Message
        <5>1. halted' = "slice" /\ UNCHANGED <<open, result>>
          BY <4>1, <4>2 DEF ReadMounts
        <5> QED BY <1>6, <5>1 DEF Why
      <4>3. CASE ~(open[h].pos < Message /\ n < Message)
        <5>1. /\ Returns("read", h, 0, IF open[h].pos < Message THEN [i \in 1..Message |-> 0] ELSE <<>>)
              /\ UNCHANGED <<open, halted>>
          BY <4>1, <4>3 DEF ReadMounts
        <5> QED BY <1>5, <1>6, <1>8, <5>1
      <4> QED BY <4>2, <4>3
    <3>2. CASE k = "directory"
      <4>1. Returns("read", h, 0, <<>>) /\ UNCHANGED <<open, halted>>
        BY <3>2 DEF Read
      <4> QED BY <1>5, <1>6, <1>8, <4>1
    <3>3. CASE k \notin {"ext4", "meminfo", "mounts", "directory"}
      <4>1. /\ \E bytes \in ReadDevice(x.file, n) : Returns("read", h, 0, bytes)
            /\ UNCHANGED <<open, halted>>
        BY <3>3 DEF Read
      <4> QED BY <1>5, <1>6, <1>8, <4>1
    <3> QED BY <1>8, <3>1, <3>2, <3>3
  <2> QED BY <1>0, <2>1, FilesSame
<1> QED BY <1>4, <1>7, <1>8

(****************************** the invariant ********************************)
\* The start.
LEMMA InitInv == Init => FileInv
<1> SUFFICES ASSUME Init PROVE FileInv
  OBVIOUS
<1>1. \A h \in Handle : ~IsOpen(h)
  BY DEF Init, IsOpen, Closed
<1>2. size \in [Files -> 0..MaxPos]
  <2>1. ASSUME NEW f \in Files
        PROVE  (IF f \in DOMAIN DiskFiles THEN Len(DiskFiles[f]) ELSE 0) \in 0..MaxPos
    <3>1. f \in DOMAIN DiskFiles => Len(DiskFiles[f]) \in Nat /\ Len(DiskFiles[f]) <= MaxPos
      BY FileAssumption
    <3>2. MaxPos \in Nat
      BY SizeAssumption
    <3> QED BY <3>1, <3>2
  <2> QED BY <2>1 DEF Init
<1>3. open \in [Handle -> OpenRec \cup {Closed}] /\ halted \in Why
  BY DEF Init, Why
<1>4. mine = [h \in Handle |-> mine[h]] /\ \A h \in Handle : DOMAIN mine[h] = {}
  BY DEF Init, NoBytes
<1>5. OwnWritesReadBack
  BY DEF Init, NoResult, OwnWritesReadBack
<1> QED BY <1>1, <1>2, <1>3, <1>4, <1>5 DEF FileInv

\* sys_write keeps the invariant, whatever is written to.
LEMMA WriteInv ==
    ASSUME FileInv, NEW h \in Handle, NEW n \in Counts, NEW bytes \in [1..n -> Byte \ {0}],
           Write(h, bytes)
    PROVE  FileInv'
<1> DEFINE k == KindOf(open[h].file)
<1>0. /\ IsOpen(h) /\ result'.call # "read" /\ n \in Nat
      /\ open[h].pos + Len(bytes) <= MaxPos
  BY SizeAssumption DEF Write, Runs, NoResult
<1>1. OwnWritesReadBack'
  BY <1>0, NothingRead
<1>2. CASE k = "ext4"
  <2>1. WriteExt4(h, bytes) /\ halted' = halted
    BY <1>2 DEF Write
  <2> QED BY <1>0, <1>2, <2>1, WriteExt4Inv
<1>3. CASE k # "ext4"
  <2>1. UNCHANGED <<size, open, mine>> /\ halted' \in Why
    BY <1>3 DEF Write, files, Why, FileInv
  <2> QED BY <1>1, <2>1, FilesSame
<1> QED BY <1>2, <1>3

\* sys_lseek keeps the invariant.
LEMMA LseekInv ==
    ASSUME FileInv, NEW to \in Seeks, Lseek(to.h, to)
    PROVE  FileInv'
<1> DEFINE h == to.h
           x == open[h]
           e == SeekTo(h, to)
<1>0. /\ h \in Handle /\ IsOpen(h) /\ e \in 0..MaxPos /\ open' = [open EXCEPT ![h].pos = e]
      /\ UNCHANGED <<size, halted, mine>> /\ result' = NoResult
  BY CallAssumption DEF Lseek, Runs
<1> HIDE DEF e, h
<1>1. x \in OpenRec
  BY <1>0, Fields
<1>2. SetOpen(h, With(x, e, x.pages))
  <2>1. open' = [open EXCEPT ![h] = [x EXCEPT !.pos = e]]
    BY <1>0
  <2>2. [x EXCEPT !.pos = e] = With(x, e, x.pages)
    BY <1>1, Update, Zenon
  <2> QED BY <2>1, <2>2, Zenon DEF SetOpen
<1>3. OwnWritesReadBack' /\ halted' \in Why
  BY <1>0, NothingRead DEF NoResult, FileInv
<1> QED BY <1>0, <1>2, <1>3, PagesSame

\* A new opening has no pages.
LEMMA OpenInv ==
    ASSUME FileInv, NEW c \in Opens, Open(c.h, c.file, c.writes, c.append)
    PROVE  FileInv'
<1> DEFINE h == c.h
           f == c.file
           x == [file |-> f, writes |-> c.writes, append |-> c.append,
                 pos |-> IF c.append THEN size[f] ELSE 0, pages |-> [p \in {} |-> NewPage]]
<1>1. h \in Handle /\ f \in Files /\ c.writes \in BOOLEAN /\ c.append \in BOOLEAN
  BY CallAssumption
<1>2. /\ ~IsOpen(h) /\ open' = [open EXCEPT ![h] = x]
      /\ result' = NoResult /\ UNCHANGED <<size, halted, mine>>
  BY DEF Open
<1>3. [p \in {} |-> NewPage] \in Caches
  <2>1. IsCache([p \in {} |-> NewPage])
    BY DEF IsCache
  <2> QED BY <2>1, CacheSet
<1>4. x \in OpenRec /\ DOMAIN x.pages = {}
  <2>1. (IF c.append THEN size[f] ELSE 0) \in 0..MaxPos
    BY <1>1, SizeAssumption DEF FileInv
  <2> QED BY <1>1, <1>3, <2>1, Zenon DEF OpenRec
<1> HIDE DEF x, h, f
<1>5. DOMAIN mine[h] = {} /\ mine'[h] = mine[h] /\ mine' = [mine EXCEPT ![h] = mine'[h]]
  BY <1>1, <1>2 DEF FileInv
<1>6. PagesGood(x, mine'[h])
  BY <1>4, <1>5 DEF PagesGood
<1>7. OwnWritesReadBack'
  BY <1>2, NothingRead DEF NoResult
<1>8. size' \in [Files -> 0..MaxPos] /\ halted' \in Why /\ SetOpen(h, x)
  BY <1>2 DEF FileInv, SetOpen
<1> QED BY <1>1, <1>4, <1>5, <1>6, <1>7, <1>8, OneOpening

\* close forgets the opening and its pages.
LEMMA CloseInv ==
    ASSUME FileInv, NEW h \in Handle, Close(h)
    PROVE  FileInv'
<1>1. /\ open' = [open EXCEPT ![h] = Closed] /\ mine' = [mine EXCEPT ![h] = NoBytes]
      /\ result' = NoResult /\ UNCHANGED <<size, halted>>
  BY DEF Close
<1>2. open' \in [Handle -> OpenRec \cup {Closed}] /\ mine' = [g \in Handle |-> mine'[g]]
  BY <1>1 DEF FileInv
<1>3. OwnWritesReadBack'
  BY <1>1, NothingRead DEF NoResult
<1>4. ASSUME NEW g \in Handle
      PROVE  /\ IsOpen(g)' => PagesGood(open'[g], mine'[g])
             /\ ~IsOpen(g)' => DOMAIN mine'[g] = {}
  <2>1. CASE g = h
    BY <1>1, <2>1 DEF FileInv, IsOpen, Closed, NoBytes
  <2>2. CASE g # h
    <3>1. open'[g] = open[g] /\ mine'[g] = mine[g]
      BY <1>1, <2>2, Zenon DEF FileInv
    <3> QED BY <3>1 DEF FileInv, IsOpen
  <2> QED BY <2>1, <2>2
<1> QED BY <1>1, <1>2, <1>3, <1>4 DEF FileInv

\* A step that leaves everything but halted alone.
LEMMA OnlyHalts ==
    ASSUME FileInv, UNCHANGED <<size, open, mine, result>>, halted' \in Why
    PROVE  FileInv'
<1>1. OwnWritesReadBack'
  BY DEF FileInv, OwnWritesReadBack
<1> QED BY <1>1, FilesSame

\* Every call keeps the invariant.
LEMMA StepInv == FileInv /\ [Next]_vars => FileInv'
<1> SUFFICES ASSUME FileInv, [Next]_vars PROVE FileInv'
  OBVIOUS
<1>1. ASSUME NEW x \in Opens, Open(x.h, x.file, x.writes, x.append) PROVE FileInv'
  BY <1>1, OpenInv, Zenon
<1>2. ASSUME NEW h \in Handle, Close(h) \/ ReadAll(h) PROVE FileInv'
  BY <1>2, CloseInv, ReadAllInv, Zenon
<1>3. ASSUME NEW h \in Handle, NEW n \in Counts, Read(h, n) PROVE FileInv'
  BY <1>3, ReadInv, Zenon
<1>4. ASSUME NEW h \in Handle, NEW n \in Counts, NEW bytes \in [1..n -> Byte \ {0}], Write(h, bytes)
      PROVE  FileInv'
  BY <1>4, WriteInv, Zenon
<1>5. ASSUME NEW to \in Seeks, Lseek(to.h, to) PROVE FileInv'
  BY <1>5, LseekInv, Zenon
<1>6. ASSUME NEW h \in Handle, NEW n \in Counts, Ftruncate(h, n) PROVE FileInv'
  <2>1. halted' \in Why /\ UNCHANGED <<size, open, mine, result>>
    BY <1>6 DEF Ftruncate, Halt, files, Why
  <2> QED BY <2>1, OnlyHalts
<1>7. ASSUME UNCHANGED vars PROVE FileInv'
  <2>1. halted' \in Why /\ UNCHANGED <<size, open, mine, result>>
    BY <1>7 DEF vars, FileInv
  <2> QED BY <2>1, OnlyHalts
<1> QED BY <1>1, <1>2, <1>3, <1>4, <1>5, <1>6, <1>7, Zenon DEF Next, Halted

\* The inductive invariant holds in every reachable state.
LEMMA InvHolds == Spec => []FileInv
  BY InitInv, StepInv, PTL DEF Spec

\* Types: sizes and positions are within their bounds, and only the files of
\* the disk have pages, all of them whole (TypeOK).
THEOREM OpenFilesTyped == Spec => []TypeOK
<1>1. FileInv => TypeOK
  <2> SUFFICES ASSUME FileInv PROVE TypeOK
    OBVIOUS
  <2>1. ASSUME NEW q \in PageType
        PROVE  q.data \in [0..(PageSize - 1) -> Byte]
               /\ q.state \in [Sectors -> {"Empty", "Sync", "Dirty"}]
    BY DEF PageType, States
  <2>2. ASSUME NEW h \in Handle, IsOpen(h)
        PROVE  /\ open[h].file \in Files /\ open[h].pos \in 0..MaxPos
               /\ \A p \in DOMAIN open[h].pages :
                    /\ KindOf(open[h].file) = "ext4" /\ p \in 0..(MaxPos \div PageSize)
                    /\ open[h].pages[p].data \in [0..(PageSize - 1) -> Byte]
                    /\ open[h].pages[p].state \in [Sectors -> {"Empty", "Sync", "Dirty"}]
    <3>1. /\ open[h].file \in Files /\ open[h].pos \in 0..MaxPos
          /\ IsCache(open[h].pages) /\ PagesGood(open[h], mine[h])
      BY <2>2, Fields
    <3>2. ASSUME NEW p \in DOMAIN open[h].pages
          PROVE  /\ KindOf(open[h].file) = "ext4" /\ p \in 0..(MaxPos \div PageSize)
                 /\ open[h].pages[p] \in PageType
      BY <3>1, KindFact, Zenon DEF PagesGood, IsCache
    <3> QED BY <2>1, <3>1, <3>2, Zenon
  <2> QED BY <2>2 DEF TypeOK, FileInv, Why
<1> QED BY <1>1, InvHolds, PTL

\* A read gives back what was last written through the same opening
\* (OwnWritesReadBack), for any page and sector sizes: Page::read and
\* Page::write fill only sectors that are empty.
THEOREM WritesReadBack == Spec => []OwnWritesReadBack
<1>1. FileInv => OwnWritesReadBack
  BY DEF FileInv
<1> QED BY <1>1, InvHolds, PTL
=============================================================================
