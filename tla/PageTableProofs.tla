-------------------------- MODULE PageTableProofs ---------------------------
(****************************************************************************)
(* Proofs about PageTable for any number of levels, any fan-out, any frames *)
(* and any spaces, from the facts about single trees in PageTableTrees.     *)
(****************************************************************************)
EXTENDS PageTableTrees

(*********************************** boot ************************************)
\* The kernel's table when its pages below n are mapped.
Stage(b, n, r) ==
    /\ TabOK(b.tab) /\ Tree(b.tab, r, KernelPages, b.own) /\ b.used = b.own
    /\ DOMAIN b.tab[r] \subseteq Shared
    /\ \A w \in KernelPages : w < n => FindPte(b.tab, r, w) = {Direct(w)}

\* A panic of alloc_frame in new_kernel is not undone by the pages after it.
LEMMA PushBuild ==
    ASSUME NEW b, NEW r, NEW v, IsBuild(b)
    PROVE  /\ IsBuild(PushDirect(b, r, v))
           /\ PushDirect(b, r, v).ok => b.ok /\ FindPteCreate(b, r, v).ok
           /\ PushDirect(b, r, v).ok =>
                LET c == FindPteCreate(b, r, v)
                IN  PushDirect(b, r, v) =
                      [ok |-> c.ok, tab |-> SetLeaf(c.tab, r, v, Direct(v)),
                       own |-> c.own, used |-> c.used]
<1> DEFINE c == FindPteCreate(b, r, v)
           y == PushDirect(b, r, v)
           s == SetLeaf(c.tab, r, v, Direct(v))
<1>1. IsBuild(c) /\ (c.ok => b.ok)
  BY CreateGrows
<1>2. y = IF c.ok THEN [c EXCEPT !.tab = s] ELSE c
  BY DEF PushDirect
<1> HIDE DEF c, y, s
<1>3. CASE ~c.ok
  BY <1>1, <1>2, <1>3 DEF y
<1>4. CASE c.ok
  <2>1. y = [ok |-> c.ok, tab |-> s, own |-> c.own, used |-> c.used]
    BY <1>1, <1>2, <1>4, Zenon DEF IsBuild
  <2>2. IsBuild(y)
    BY <1>1, <2>1 DEF IsBuild
  <2> QED BY <1>1, <1>4, <2>1, <2>2 DEF y, c, s
<1> QED BY <1>3, <1>4

\* Pushing one more page of new_kernel keeps the pages pushed before.
LEMMA PushStep ==
    ASSUME NEW b, NEW r, NEW v \in KernelPages, IsBuild(b), Stage(b, v, r),
           PushDirect(b, r, v).ok
    PROVE  Stage(PushDirect(b, r, v), v + 1, r)
<1> DEFINE c == FindPteCreate(b, r, v)
           y == PushDirect(b, r, v)
<1>1. /\ c.ok /\ y.tab = SetLeaf(c.tab, r, v, Direct(v)) /\ y.own = c.own /\ y.used = c.used
  BY PushBuild, SMTT(30)
<1>2. Start(b, r, KernelPages, {}, v)
  <2>1. {} \cup b.own = b.own
    BY SMTT(30)
  <2> QED BY <2>1, PageFacts DEF Start, Stage
<1>3. Created(b, c, r, KernelPages, {}, v)
  BY <1>1, <1>2, CreateGrows, SMTT(30)
<1> HIDE DEF c, y
<1>4. /\ TabOK(c.tab) /\ Tree(c.tab, r, KernelPages, c.own)
      /\ b.own \subseteq c.own /\ c.used = c.own
      /\ RootKept(b.tab, c.tab, r, v) /\ Kept(b.tab, c.tab, r, KernelPages)
      /\ TableAt(c.tab, r, v, Levels - 1) # None
  <2>1. {} \cup c.own = c.own /\ (b.own \subseteq c.own => b.own \cup c.own = c.own)
    OBVIOUS
  <2> QED BY <1>3, <2>1 DEF Created, Grown, AllKept, Stage
<1>5. LeafSet(c.tab, y.tab, r, KernelPages, c.own, v, {Direct(v)})
  <2>1. LeafReady(c.tab, r, KernelPages, c.own, v)
    BY <1>4, PageFacts, Zenon DEF LeafReady
  <2>2. LeafSet(c.tab, SetLeaf(c.tab, r, v, Direct(v)), r, KernelPages, c.own, v, {Direct(v)})
    BY <2>1, SetLeafFact, Zenon
  <2> QED BY <1>1, <2>2, Zenon
<1>6. DOMAIN y.tab[r] \subseteq Shared
  <2>1. y.tab[r] = c.tab[r]
    BY <1>5, Zenon DEF LeafSet
  <2>2. ASSUME NEW i \in DOMAIN c.tab[r] PROVE i \in Shared
    <3> SUFFICES ASSUME i \notin Shared PROVE FALSE
      OBVIOUS
    <3>1. i # Index(v, 0)
      BY PageFacts
    <3>2. SameEntry(b.tab, c.tab, r, i)
      BY <1>4, <3>1, Zenon DEF RootKept
    <3>3. i \in DOMAIN b.tab[r]
      BY <3>2, Zenon DEF SameEntry
    <3> QED BY <3>3 DEF Stage
  <2> QED BY <2>1, <2>2
<1>7. ASSUME NEW w \in KernelPages, w < v + 1 PROVE FindPte(y.tab, r, w) = {Direct(w)}
  <2>1. CASE w = v
    BY <1>5, <2>1, Zenon DEF LeafSet
  <2>2. CASE w # v
    <3>1. w < v
      BY <1>7, <2>2, LayoutAssumption
    <3>2. FindPte(b.tab, r, w) = {Direct(w)}
      BY <3>1 DEF Stage
    <3>3. FindPte(c.tab, r, w) = {Direct(w)}
      BY <1>4, <3>2, ZenonT(60) DEF Kept
    <3>4. FindPte(y.tab, r, w) = FindPte(c.tab, r, w)
      BY <1>5, <2>2, SMTT(30) DEF LeafSet, Kept
    <3> QED BY <3>3, <3>4
  <2> QED BY <2>1, <2>2
<1>8. TabOK(y.tab) /\ Tree(y.tab, r, KernelPages, y.own) /\ y.used = y.own
  BY <1>1, <1>4, <1>5, Zenon DEF LeafSet
<1>9. Stage(y, v + 1, r)
  BY <1>6, <1>7, <1>8, Zenon DEF Stage
<1> QED BY <1>9 DEF y

\* A root without entries for P reaches no other table for them.
LEMMA BareTree ==
    ASSUME NEW tab, NEW r \in Frame, NEW P, \A v \in P : Index(v, 0) \notin DOMAIN tab[r]
    PROVE  Tree(tab, r, P, {r}) /\ \A v \in P : FindPte(tab, r, v) = {}
<1>1. ASSUME NEW v \in P
      PROVE  /\ \A d \in Depths : TableAt(tab, r, v, d) = IF d = 0 THEN r ELSE None
             /\ FindPte(tab, r, v) = {}
  <2>0. 1 \in Depths /\ 1 = 0 + 1
    BY LevelFacts DEF Depths
  <2>1. TableAt(tab, r, v, 0) = r
    BY TableRec, Zenon
  <2>2. TableAt(tab, r, v, 1) = Below(tab, v, r, 0)
    BY <2>0, <2>1, OneDown
  <2>3. TableAt(tab, r, v, 1) = None
    BY <2>2 DEF Below
  <2>4. NoneFrom(tab, r, v, 1) /\ FindPte(tab, r, v) = {}
    BY <2>0, <2>3, NoneBelow, Zenon
  <2>5. \A d \in Depths : d = 0 \/ d >= 1
    BY LevelFacts DEF Depths
  <2> QED BY <2>1, <2>4, <2>5 DEF NoneFrom
<1>2. r # None
  BY LayoutAssumption
<1>3. Reaches(tab, r, P, {r})
  <2>1. \A v \in P, d \in Depths : TableAt(tab, r, v, d) \in {r} \cup {None}
    BY <1>1
  <2>2. ASSUME NEW v \in P, NEW d \in 1..(Levels - 1), TableAt(tab, r, v, d - 1) # None
        PROVE  Index(v, d - 1) \notin DOMAIN tab[TableAt(tab, r, v, d - 1)]
    <3>1. d - 1 \in Depths
      BY LevelFacts DEF Depths
    <3>2. TableAt(tab, r, v, d - 1) = r /\ d - 1 = 0
      BY <1>1, <2>2, <3>1
    <3> QED BY <3>2
  <2> QED BY <2>1, <2>2, Zenon DEF Reaches
<1>4. Apart(tab, r, P)
  <2>1. \A v, w : Agree(v, w, 0)
    BY DEF Agree
  <2>2. ASSUME NEW v \in P, NEW w \in P, NEW d \in Depths, NEW e \in Depths,
               TableAt(tab, r, v, d) # None, TableAt(tab, r, v, d) = TableAt(tab, r, w, e)
        PROVE  d = e /\ Agree(v, w, d)
    <3>1. d = 0 /\ e = 0
      BY <1>1, <2>2
    <3> QED BY <2>1, <3>1, Zenon
  <2> QED BY <2>2, Zenon DEF Apart
<1> QED BY <1>1, <1>3, <1>4, Zenon DEF Tree

\* new_kernel starts from one empty table.
LEMMA FirstStage ==
    /\ Lowest(Frame) \in Frame
    /\ IsBuild(NewTable(Lowest(Frame))) /\ Stage(NewTable(Lowest(Frame)), 0, Lowest(Frame))
<1> DEFINE r == Lowest(Frame)
           b == NewTable(r)
<1>1. r \in Frame
  BY LowestFact, LayoutAssumption, Zenon
<1> HIDE DEF r
<1>2. /\ b.tab = [g \in Frame |-> Empty] /\ b.own = {r} /\ b.used = {r} /\ b.ok = TRUE /\ IsBuild(b)
  BY DEF NewTable, IsBuild
<1>3. DOMAIN b.tab = Frame /\ \A f \in Frame : DOMAIN b.tab[f] = {}
  BY <1>2 DEF Empty
<1> HIDE DEF b
<1>4. Tree(b.tab, r, KernelPages, {r})
  BY <1>1, <1>3, BareTree
<1>5. \A w \in KernelPages : ~(w < 0)
  BY LayoutAssumption
<1>6. TabOK(b.tab) /\ DOMAIN b.tab[r] \subseteq Shared
  BY <1>1, <1>3 DEF TabOK
<1>7. Stage(b, 0, r)
  BY <1>2, <1>4, <1>5, <1>6, Zenon DEF Stage
<1> QED BY <1>1, <1>2, <1>7 DEF b, r

\* The kernel's tree: its pages, and nothing else below the root.
KernelTree(tab, r, K) ==
    /\ TabOK(tab) /\ Tree(tab, r, KernelPages, K)
    /\ DOMAIN tab[r] \subseteq Shared
    /\ \A v \in KernelPages : Index(v, 0) \in DOMAIN tab[r]
    /\ \A v \in KernelPages : FindPte(tab, r, v) = {Direct(v)}

\* After boot the kernel's table is a tree that maps the kernel's pages directly.
LEMMA BootTree ==
    ASSUME KernelTable.ok
    PROVE  KernelTree(KernelTable.tab, Lowest(Frame), KernelTable.own)
<1> DEFINE r == Lowest(Frame)
<1>0. LastKernelPage \in Nat /\ LastKernelPage \in KernelPages
      /\ \A w \in KernelPages : w <= LastKernelPage /\ w \in Nat
  BY LastFact, LayoutAssumption
<1>1. PICK below :
        /\ below[0] = NewTable(r)
        /\ \A v \in 1..(LastKernelPage + 1) :
             below[v] = IF v - 1 \in KernelPages THEN PushDirect(below[v - 1], r, v - 1)
                        ELSE below[v - 1]
        /\ KernelTable = below[LastKernelPage + 1]
  BY BootRec
<1>f. r \in Frame /\ IsBuild(NewTable(r)) /\ Stage(NewTable(r), 0, r)
  BY FirstStage
<1> HIDE DEF r
<1> DEFINE Good(v) == IsBuild(below[v]) /\ (below[v].ok => Stage(below[v], v, r))
           S == {v \in Nat : v \in 0..(LastKernelPage + 1) => Good(v)}
<1>2. 0 \in S
  BY <1>1, <1>f
<1>3. ASSUME NEW v \in Nat, v \in S PROVE v + 1 \in S
  <2> SUFFICES ASSUME v + 1 \in 0..(LastKernelPage + 1) PROVE Good(v + 1)
    OBVIOUS
  <2>1. v \in 0..(LastKernelPage + 1) /\ v + 1 \in 1..(LastKernelPage + 1) /\ v + 1 - 1 = v
    BY <1>0
  <2>2. IsBuild(below[v]) /\ (below[v].ok => Stage(below[v], v, r))
    BY <1>3, <2>1
  <2>3. CASE v \in KernelPages
    <3>1. below[v + 1] = PushDirect(below[v], r, v)
      BY <1>1, <2>1, <2>3, SMTT(30)
    <3>2. IsBuild(below[v + 1]) /\ (below[v + 1].ok => below[v].ok)
      BY <2>2, <3>1, PushBuild
    <3>3. below[v + 1].ok => Stage(below[v + 1], v + 1, r)
      BY <2>2, <2>3, <3>1, <3>2, PushStep
    <3> QED BY <3>2, <3>3
  <2>4. CASE v \notin KernelPages
    <3>1. below[v + 1] = below[v]
      BY <1>1, <2>1, <2>4
    <3>2. \A w \in KernelPages : w < v + 1 => w < v
      BY <1>0, <2>4
    <3>3. Stage(below[v], v, r) => Stage(below[v], v + 1, r)
      BY <3>2, Zenon DEF Stage
    <3> QED BY <2>2, <3>1, <3>3
  <2> QED BY <2>3, <2>4
<1> HIDE DEF S
<1>4. \A v \in Nat : v \in S
  BY <1>2, <1>3, Upwards, Zenon
<1>5. Stage(KernelTable, LastKernelPage + 1, r)
  <2>1. LastKernelPage + 1 \in Nat /\ LastKernelPage + 1 \in 0..(LastKernelPage + 1)
    BY <1>0
  <2>2. Good(LastKernelPage + 1)
    BY <1>4, <2>1 DEF S
  <2> QED BY <1>1, <2>2
<1> DEFINE tab == KernelTable.tab
<1>6. \A v \in KernelPages : FindPte(tab, r, v) = {Direct(v)}
  <2>1. \A w \in KernelPages : w < LastKernelPage + 1
    BY <1>0
  <2> QED BY <1>5, <2>1, Zenon DEF Stage
<1>7. ASSUME NEW v \in KernelPages PROVE Index(v, 0) \in DOMAIN tab[r]
  <2> HIDE DEF tab
  <2> SUFFICES ASSUME Index(v, 0) \notin DOMAIN tab[r] PROVE FALSE
    OBVIOUS
  <2>1. \A w \in {v} : Index(w, 0) \notin DOMAIN tab[r]
    OBVIOUS
  <2>2. \A w \in {v} : FindPte(tab, r, w) = {}
    BY <1>f, <2>1, BareTree, Zenon
  <2> QED BY <1>6, <2>2
<1>8. KernelTree(tab, r, KernelTable.own)
  BY <1>5, <1>6, <1>7 DEF Stage, KernelTree
<1> QED BY <1>8 DEF r

(************************************ spaces *********************************)
\* The root r has the entries of the kernel's root.
Copies(tab, kr, r) ==
    \A i \in DOMAIN tab[kr] : i \in DOMAIN tab[r] /\ tab[r][i] = tab[kr][i]

\* A user table: its own tree for user pages, the kernel's for the others.
UserTree(tab, kr, r, F) == Tree(tab, r, UserPages, F) /\ Copies(tab, kr, r)

Forest(tab, kr, kf, rt, fr) ==
    /\ KernelTree(tab, kr, kf)
    /\ rt \in [Space -> Frame \cup {None}] /\ fr \in [Space -> SUBSET Frame]
    /\ \A s \in Space : rt[s] = None => fr[s] = {}
    /\ \A s \in Space : rt[s] # None => UserTree(tab, kr, rt[s], fr[s])
    /\ \A s \in Space : fr[s] \cap kf = {}
    /\ \A s, t \in Space : s # t => fr[s] \cap fr[t] = {}

\* A step that writes no frame of the kernel's leaves its tree alone.
LEMMA KernelSame ==
    ASSUME NEW tab, NEW new, NEW kr, NEW kf, KernelTree(tab, kr, kf),
           TabOK(new), Untouched(tab, new, kf)
    PROVE  KernelTree(new, kr, kf) /\ new[kr] = tab[kr]
<1>1. Tree(tab, kr, KernelPages, kf)
  BY Zenon DEF KernelTree
<1>2. Tree(new, kr, KernelPages, kf) /\ Kept(tab, new, kr, KernelPages)
  BY <1>1, Unmoved, Zenon
<1>3. new[kr] = tab[kr]
  BY <1>1, Zenon DEF Tree, Reaches, Untouched
<1> QED BY <1>2, <1>3 DEF KernelTree, Kept

\* A step that writes no frame of a user table leaves its tree alone.
LEMMA UserSame ==
    ASSUME NEW tab, NEW new, NEW kr, NEW r, NEW F, UserTree(tab, kr, r, F),
           Untouched(tab, new, F), new[kr] = tab[kr]
    PROVE  UserTree(new, kr, r, F) /\ Kept(tab, new, r, UserPages)
<1>1. Tree(tab, r, UserPages, F)
  BY Zenon DEF UserTree
<1>2. Tree(new, r, UserPages, F) /\ Kept(tab, new, r, UserPages)
  BY <1>1, Unmoved, Zenon
<1>3. new[r] = tab[r]
  BY <1>1, Zenon DEF Tree, Reaches, Untouched
<1> QED BY <1>2, <1>3 DEF UserTree, Copies

\* The spaces but s keep their translations.
OthersKept(tab, new, rt, s) ==
    \A t \in Space \ {s} : rt[t] # None => Kept(tab, new, rt[t], UserPages)

\* A step on the table of s: what it does with the frames of s.
SpaceStep(tab, new, kr, kf, rt, fr, s, r, F) ==
    /\ Forest(tab, kr, kf, rt, fr) /\ s \in Space
    /\ TabOK(new) /\ Outside(tab, new, F \cup fr[s])
    /\ r \in Frame \cup {None} /\ F \subseteq Frame
    /\ F \subseteq fr[s] \cup (Frame \ (kf \cup UNION {fr[t] : t \in Space}))
    /\ r = None => F = {}
    /\ r # None => UserTree(new, kr, r, F)

\* Whatever it does there, the other spaces and the kernel do not notice.
LEMMA SpaceStepKeeps ==
    ASSUME NEW tab, NEW new, NEW kr, NEW kf, NEW rt, NEW fr, NEW s, NEW r, NEW F,
           SpaceStep(tab, new, kr, kf, rt, fr, s, r, F)
    PROVE  /\ Forest(new, kr, kf, [rt EXCEPT ![s] = r], [fr EXCEPT ![s] = F])
           /\ OthersKept(tab, new, rt, s)
<1> /\ Forest(tab, kr, kf, rt, fr) /\ s \in Space
    /\ TabOK(new) /\ Outside(tab, new, F \cup fr[s])
    /\ r \in Frame \cup {None} /\ F \subseteq Frame
    /\ F \subseteq fr[s] \cup (Frame \ (kf \cup UNION {fr[t] : t \in Space}))
    /\ r = None => F = {}
    /\ r # None => UserTree(new, kr, r, F)
  BY DEF SpaceStep
<1> DEFINE rt2 == [rt EXCEPT ![s] = r]
           fr2 == [fr EXCEPT ![s] = F]
<1>1. /\ rt2 \in [Space -> Frame \cup {None}] /\ fr2 \in [Space -> SUBSET Frame]
      /\ rt2[s] = r /\ fr2[s] = F
      /\ \A t \in Space \ {s} : rt2[t] = rt[t] /\ fr2[t] = fr[t]
  BY DEF Forest
<1>2. /\ KernelTree(tab, kr, kf)
      /\ \A t \in Space : fr[t] \cap kf = {} /\ fr[t] \subseteq Frame
      /\ \A t, u \in Space : t # u => fr[t] \cap fr[u] = {}
      /\ \A t \in Space : rt[t] = None => fr[t] = {}
      /\ \A t \in Space : rt[t] # None => UserTree(tab, kr, rt[t], fr[t])
  BY SMTT(30) DEF Forest
<1> HIDE DEF rt2, fr2
<1>3. kf \subseteq Frame
  BY <1>2, ZenonT(60) DEF KernelTree, Tree, Reaches
<1>4. F \cap kf = {} /\ \A t \in Space \ {s} : F \cap fr[t] = {}
  BY <1>2, SMTT(30)
<1>5. Untouched(tab, new, kf)
  BY <1>2, <1>3, <1>4 DEF Untouched, Outside
<1>6. KernelTree(new, kr, kf) /\ new[kr] = tab[kr]
  BY <1>2, <1>5, KernelSame, ZenonT(60)
<1>7. ASSUME NEW t \in Space \ {s} PROVE Untouched(tab, new, fr[t])
  BY <1>2, <1>4 DEF Untouched, Outside
<1>8. ASSUME NEW t \in Space \ {s}, rt[t] # None
      PROVE  UserTree(new, kr, rt[t], fr[t]) /\ Kept(tab, new, rt[t], UserPages)
  <2>1. UserTree(tab, kr, rt[t], fr[t]) /\ Untouched(tab, new, fr[t])
    BY <1>2, <1>7, <1>8, Zenon
  <2> QED BY <1>6, <2>1, UserSame, ZenonT(60)
<1>9. OthersKept(tab, new, rt, s)
  BY <1>8, ZenonT(60) DEF OthersKept
<1>10. \A t \in Space : rt2[t] = None => fr2[t] = {}
  BY <1>1, <1>2, SMTT(30)
<1>11. \A t \in Space : rt2[t] # None => UserTree(new, kr, rt2[t], fr2[t])
  BY <1>1, <1>8, ZenonT(60)
<1>12. \A t \in Space : fr2[t] \cap kf = {}
  BY <1>1, <1>2, <1>4, ZenonT(60)
<1>13. \A t, u \in Space : t # u => fr2[t] \cap fr2[u] = {}
  <2> SUFFICES ASSUME NEW t \in Space, NEW u \in Space, t # u PROVE fr2[t] \cap fr2[u] = {}
    BY SMTT(30)
  <2>1. CASE t = s
    BY <1>1, <1>4, <2>1, SMTT(30)
  <2>2. CASE u = s
    BY <1>1, <1>4, <2>2, SMTT(30)
  <2>3. CASE t # s /\ u # s
    BY <1>1, <1>2, <2>3, Zenon
  <2> QED BY <2>1, <2>2, <2>3, SMTT(30)
<1>14. Forest(new, kr, kf, rt2, fr2)
  BY <1>1, <1>6, <1>10, <1>11, <1>12, <1>13, Zenon DEF Forest
<1> QED BY <1>9, <1>14, SMTT(30) DEF rt2, fr2

\* A user table translates the kernel's pages as the kernel does, through
\* the kernel's own tables.
KernelHalf(tab, r, kf) ==
    \A v \in KernelPages :
        /\ \A d \in Depths : d > 0 => TableAt(tab, r, v, d) \in kf
        /\ FindPte(tab, r, v) = {Direct(v)}

\* A root with the kernel's entries (new_user) walks the kernel's tables.
LEMMA KernelWalk ==
    ASSUME NEW tab, NEW kr, NEW kf, NEW r \in Frame, KernelTree(tab, kr, kf),
           Copies(tab, kr, r)
    PROVE  KernelHalf(tab, r, kf)
<1> SUFFICES ASSUME NEW v \in KernelPages
             PROVE  /\ \A d \in Depths : d > 0 => TableAt(tab, r, v, d) \in kf
                    /\ FindPte(tab, r, v) = {Direct(v)}
  BY Zenon DEF KernelHalf
<1>0. 1 \in Depths /\ 1 = 0 + 1 /\ r # None /\ kr # None
  <2>1. kr \in Frame
    BY DEF KernelTree, Tree, Reaches
  <2> QED BY <2>1, PageFacts, LevelFacts, LayoutAssumption DEF Depths
<1> DEFINE S == {n \in Nat : n + 1 \in Depths => TableAt(tab, r, v, n + 1) = TableAt(tab, kr, v, n + 1)}
<1>1. 0 \in S
  <2>1. TableAt(tab, r, v, 0) = r /\ TableAt(tab, kr, v, 0) = kr
    BY TableRec, Zenon
  <2>2. TableAt(tab, r, v, 1) = Below(tab, v, r, 0) /\ TableAt(tab, kr, v, 1) = Below(tab, v, kr, 0)
    BY <1>0, <2>1, OneDown
  <2>3. /\ Index(v, 0) \in DOMAIN tab[kr] /\ Index(v, 0) \in DOMAIN tab[r]
        /\ tab[r][Index(v, 0)] = tab[kr][Index(v, 0)]
    BY DEF KernelTree, Copies
  <2>4. Below(tab, v, r, 0) = Below(tab, v, kr, 0)
    BY <1>0, <2>3 DEF Below
  <2> QED BY <2>2, <2>4
<1>2. ASSUME NEW n \in Nat, n \in S PROVE n + 1 \in S
  <2> SUFFICES ASSUME n + 1 + 1 \in Depths
               PROVE  TableAt(tab, r, v, n + 1 + 1) = TableAt(tab, kr, v, n + 1 + 1)
    OBVIOUS
  <2>1. n + 1 \in Depths /\ n + 1 \in Nat
    BY LevelFacts DEF Depths
  <2>2. TableAt(tab, r, v, n + 1) = TableAt(tab, kr, v, n + 1)
    BY <1>2, <2>1
  <2>3. /\ TableAt(tab, r, v, n + 1 + 1) = Below(tab, v, TableAt(tab, r, v, n + 1), n + 1)
        /\ TableAt(tab, kr, v, n + 1 + 1) = Below(tab, v, TableAt(tab, kr, v, n + 1), n + 1)
    BY <2>1, OneDown
  <2> QED BY <2>2, <2>3
<1> HIDE DEF S
<1>3. \A n \in Nat : n \in S
  BY <1>1, <1>2, Upwards, Zenon
<1>4. ASSUME NEW d \in Depths, d > 0 PROVE TableAt(tab, r, v, d) = TableAt(tab, kr, v, d)
  <2>1. d - 1 \in Nat /\ d - 1 + 1 = d
    BY <1>4, LevelFacts DEF Depths
  <2> QED BY <1>3, <2>1 DEF S
<1>5. Levels - 1 \in Depths /\ Levels - 1 > 0
  BY LevelFacts
<1>6. FindPte(tab, r, v) = {Direct(v)}
  <2>1. TableAt(tab, r, v, Levels - 1) = TableAt(tab, kr, v, Levels - 1)
    BY <1>4, <1>5
  <2>2. FindPte(tab, r, v) = FindPte(tab, kr, v)
    BY <2>1, Zenon DEF FindPte
  <2> QED BY <2>2 DEF KernelTree
<1>7. ASSUME NEW d \in Depths, d > 0 PROVE TableAt(tab, r, v, d) \in kf
  <2>1. TableAt(tab, r, v, d) # None
    BY <1>6, NoneBelow
  <2>2. TableAt(tab, kr, v, d) \in kf \cup {None}
    BY DEF KernelTree, Tree, Reaches
  <2> QED BY <1>4, <1>7, <2>1, <2>2
<1> QED BY <1>6, <1>7

(*********************************** the steps *******************************)
\* The kernel's root is one of its frames.
LEMMA ForestFacts ==
    ASSUME NEW tab, NEW kr, NEW kf, NEW rt, NEW fr, Forest(tab, kr, kf, rt, fr)
    PROVE  TabOK(tab) /\ kr \in kf /\ kf \subseteq Frame
  BY DEF Forest, KernelTree, Tree, Reaches

\* The kernel's own table maps no user page.
LEMMA KernelBlind ==
    ASSUME NEW tab, NEW kr, NEW kf, NEW rt, NEW fr, Forest(tab, kr, kf, rt, fr),
           NEW v \in UserPages
    PROVE  FindPte(tab, kr, v) = {}
<1>1. \A w \in UserPages : Index(w, 0) \notin DOMAIN tab[kr]
  BY PageFacts DEF Forest, KernelTree
<1>2. kr \in Frame
  BY ForestFacts
<1> QED BY <1>1, <1>2, BareTree, Zenon

\* A user table has its root, its frames apart from the kernel's root, and the
\* kernel's half.
LEMMA LiveFacts ==
    ASSUME NEW tab, NEW kr, NEW kf, NEW rt, NEW fr, Forest(tab, kr, kf, rt, fr),
           NEW s \in Space, rt[s] # None
    PROVE  /\ rt[s] \in fr[s] /\ rt[s] \in Frame /\ fr[s] \subseteq Frame
           /\ KernelHalf(tab, rt[s], kf)
           /\ kr \notin fr[s]
<1>1. UserTree(tab, kr, rt[s], fr[s])
  BY DEF Forest
<1>2. rt[s] \in fr[s] /\ fr[s] \subseteq Frame
  BY <1>1, Zenon DEF UserTree, Tree, Reaches
<1>3. KernelHalf(tab, rt[s], kf)
  <2>1. Copies(tab, kr, rt[s])
    BY <1>1, Zenon DEF UserTree
  <2>2. rt[s] \in Frame /\ KernelTree(tab, kr, kf)
    BY <1>2 DEF Forest
  <2> QED BY <2>1, <2>2, KernelWalk
<1>4. kr \notin fr[s]
  BY ForestFacts, SMTT(30) DEF Forest
<1> QED BY <1>2, <1>3, <1>4

InUse(kf, fr) == kf \cup UNION {fr[s] : s \in Space}

\* What a step on page v does to the space s with root r.
PageStep(tab, new, kr, kf, rt, fr, s, v, F, S) ==
    /\ SpaceStep(tab, new, kr, kf, rt, fr, s, rt[s], F)
    /\ Kept(tab, new, rt[s], UserPages \ {v})
    /\ FindPte(new, rt[s], v) = S

\* c is what find_pte_create makes of the table of s, in a step of map_one.
Mapping(tab, kr, kf, rt, fr, s, v, c) ==
    /\ Forest(tab, kr, kf, rt, fr) /\ s \in Space /\ v \in UserPages /\ rt[s] # None
    /\ c = FindPteCreate([ok |-> TRUE, tab |-> tab, own |-> {}, used |-> InUse(kf, fr)], rt[s], v)
    /\ c.ok
Mapped(tab, kr, kf, rt, fr, s, v, c, e) ==
    /\ FindPte(c.tab, rt[s], v) = FindPte(tab, rt[s], v)
    /\ PageStep(tab, SetLeaf(c.tab, rt[s], v, e), kr, kf, rt, fr, s, v, fr[s] \cup c.own, {e})

\* map_one on s: its tree gets the missing tables and the entry of v.
LEMMA MapStep ==
    ASSUME NEW tab, NEW kr, NEW kf, NEW rt, NEW fr, NEW s, NEW v, NEW c, NEW e,
           Mapping(tab, kr, kf, rt, fr, s, v, c)
    PROVE  Mapped(tab, kr, kf, rt, fr, s, v, c, e)
<1> /\ Forest(tab, kr, kf, rt, fr) /\ s \in Space /\ v \in UserPages /\ rt[s] # None
    /\ c = FindPteCreate([ok |-> TRUE, tab |-> tab, own |-> {}, used |-> InUse(kf, fr)], rt[s], v)
    /\ c.ok
  BY ZenonT(60) DEF Mapping
<1> DEFINE b == [ok |-> TRUE, tab |-> tab, own |-> {}, used |-> InUse(kf, fr)]
           r == rt[s]
           F == fr[s] \cup c.own
           new == SetLeaf(c.tab, r, v, e)
<1>0. /\ TabOK(tab) /\ kr \in kf /\ kf \subseteq Frame
      /\ r \in fr[s] /\ r \in Frame /\ fr[s] \subseteq Frame /\ kr \notin fr[s]
  <2>1. TabOK(tab) /\ kr \in kf /\ kf \subseteq Frame
    BY ForestFacts, ZenonT(60)
  <2>2. rt[s] \in fr[s] /\ rt[s] \in Frame /\ fr[s] \subseteq Frame /\ kr \notin fr[s]
    BY LiveFacts
  <2> QED BY <2>1, <2>2
<1>u. UserTree(tab, kr, r, fr[s])
  BY SMTT(30) DEF Forest
<1>b. IsBuild(b) /\ b.tab = tab /\ b.own = {} /\ b.used = InUse(kf, fr) /\ c = FindPteCreate(b, r, v)
  BY Zenon DEF IsBuild
<1> HIDE DEF b, r
<1>1. Start(b, r, UserPages, fr[s], v)
  <2>1. Tree(tab, r, UserPages, fr[s]) /\ fr[s] \cup b.own = fr[s]
    BY <1>u, <1>b, SMTT(30) DEF UserTree
  <2>2. fr[s] \subseteq b.used
    BY <1>b, Zenon DEF InUse
  <2> QED BY <1>0, <1>b, <2>1, <2>2, PageFacts DEF Start
<1>2. Created(b, c, r, UserPages, fr[s], v)
  BY <1>b, <1>1, CreateGrows, SMTT(30)
<1>3. /\ TabOK(c.tab) /\ Tree(c.tab, r, UserPages, F)
      /\ c.own \subseteq Frame \ InUse(kf, fr)
      /\ Outside(tab, c.tab, F) /\ RootKept(tab, c.tab, r, v) /\ Kept(tab, c.tab, r, UserPages)
      /\ TableAt(c.tab, r, v, Levels - 1) # None
  BY <1>2, <1>b, Zenon DEF Created, Grown, AllKept
<1>4. LeafSet(c.tab, new, r, UserPages, F, v, {e})
  <2>1. LeafReady(c.tab, r, UserPages, F, v)
    BY <1>3, PageFacts, ZenonT(60) DEF LeafReady
  <2> QED BY <2>1, SetLeafFact, Zenon
<1> HIDE DEF new, F
<1>5. F \subseteq Frame /\ kr \notin F /\ kr \in Frame
  <2>1. kr \notin c.own
    BY <1>0, <1>3, ZenonT(60) DEF InUse
  <2> QED BY <1>0, <1>3, <2>1, ZenonT(60) DEF F
<1>6. Outside(tab, new, F)
  BY <1>3, <1>4, ZenonT(60) DEF LeafSet, Outside
<1>7. new[kr] = tab[kr]
  BY <1>5, <1>6 DEF Outside
<1>k. DOMAIN tab[kr] \subseteq Shared
  BY Zenon DEF Forest, KernelTree
<1>8. ASSUME NEW i \in DOMAIN tab[kr] PROVE i \in DOMAIN new[r] /\ new[r][i] = tab[kr][i]
  <2>1. i # Index(v, 0)
    BY <1>k, PageFacts
  <2>2. SameEntry(tab, c.tab, r, i)
    BY <1>3, <2>1, Zenon DEF RootKept
  <2>3. i \in DOMAIN tab[r] /\ tab[r][i] = tab[kr][i]
    BY <1>u, Zenon DEF UserTree, Copies
  <2>4. new[r] = c.tab[r]
    BY <1>4, ZenonT(60) DEF LeafSet
  <2> QED BY <2>2, <2>3, <2>4, Zenon DEF SameEntry
<1>9. UserTree(new, kr, r, F)
  <2>1. Tree(new, r, UserPages, F)
    BY <1>4, ZenonT(60) DEF LeafSet
  <2>2. Copies(new, kr, r)
    BY <1>7, <1>8 DEF Copies
  <2> QED BY <2>1, <2>2 DEF UserTree
<1>10. SpaceStep(tab, new, kr, kf, rt, fr, s, r, F)
  <2>1. TabOK(new) /\ Outside(tab, new, F \cup fr[s])
    BY <1>4, <1>6, ZenonT(60) DEF LeafSet, Outside
  <2>2. F \subseteq fr[s] \cup (Frame \ (kf \cup UNION {fr[t] : t \in Space}))
    BY <1>3, ZenonT(60) DEF F, InUse
  <2>3. r # None /\ r \in Frame \cup {None}
    BY <1>0, SMTT(30) DEF r
  <2> QED BY <1>5, <1>9, <2>1, <2>2, <2>3, ZenonT(60) DEF SpaceStep
<1>11. Kept(tab, new, r, UserPages \ {v}) /\ FindPte(new, r, v) = {e}
  BY <1>3, <1>4, ZenonT(60) DEF LeafSet, Kept
<1>12. FindPte(c.tab, r, v) = FindPte(tab, r, v)
  BY <1>3, ZenonT(60) DEF Kept
<1> QED BY <1>10, <1>11, <1>12, ZenonT(60) DEF Mapped, PageStep, new, r, F

\* unmap on s: its tree loses the entry of v and nothing else.
LEMMA UnmapStep ==
    ASSUME NEW tab, NEW kr, NEW kf, NEW rt, NEW fr, Forest(tab, kr, kf, rt, fr),
           NEW s \in Space, NEW v \in UserPages, rt[s] # None, FindPte(tab, rt[s], v) # {}
    PROVE  PageStep(tab, ClearLeaf(tab, rt[s], v), kr, kf, rt, fr, s, v, fr[s], {})
<1> DEFINE r == rt[s]
           F == fr[s]
           new == ClearLeaf(tab, r, v)
<1>0. /\ TabOK(tab) /\ kr \in kf /\ kf \subseteq Frame
      /\ r \in F /\ r \in Frame /\ F \subseteq Frame /\ kr \notin F
  <2>1. TabOK(tab) /\ kr \in kf /\ kf \subseteq Frame
    BY ForestFacts, ZenonT(60)
  <2>2. rt[s] \in fr[s] /\ rt[s] \in Frame /\ fr[s] \subseteq Frame /\ kr \notin fr[s]
    BY LiveFacts
  <2> QED BY <2>1, <2>2
<1>u. UserTree(tab, kr, r, F) /\ r # None
  BY SMTT(30) DEF Forest
<1>1. LeafReady(tab, r, UserPages, F, v)
  <2>1. TableAt(tab, r, v, Levels - 1) # None
    BY LevelFacts, NoneBelow
  <2> QED BY <1>0, <1>u, <2>1, PageFacts DEF LeafReady, UserTree
<1> HIDE DEF r, F
<1>2. LeafSet(tab, new, r, UserPages, F, v, {})
  BY <1>1, ClearLeafFact, ZenonT(60)
<1> HIDE DEF new
<1>3. new[kr] = tab[kr] /\ new[r] = tab[r]
  BY <1>0, <1>2, SMTT(30) DEF LeafSet, Outside
<1>4. UserTree(new, kr, r, F)
  <2>1. Copies(new, kr, r)
    BY <1>u, <1>3, SMTT(30) DEF UserTree, Copies
  <2> QED BY <1>2, <2>1, ZenonT(60) DEF UserTree, LeafSet
<1>5. SpaceStep(tab, new, kr, kf, rt, fr, s, r, F)
  <2>1. TabOK(new) /\ Outside(tab, new, F \cup fr[s])
    BY <1>2 DEF LeafSet, Outside
  <2>2. F \subseteq fr[s] \cup (Frame \ (kf \cup UNION {fr[t] : t \in Space}))
    BY SMTT(30) DEF F
  <2> QED BY <1>0, <1>u, <1>4, <2>1, <2>2, SMTT(30) DEF SpaceStep
<1>6. Kept(tab, new, r, UserPages \ {v}) /\ FindPte(new, r, v) = {}
  BY <1>2, Zenon DEF LeafSet, Kept
<1> QED BY <1>5, <1>6, ZenonT(60) DEF PageStep, new, r, F

\* new_user: a root with the kernel's entries and no user page.
LEMMA NewStep ==
    ASSUME NEW tab, NEW kr, NEW kf, NEW rt, NEW fr, Forest(tab, kr, kf, rt, fr),
           NEW s \in Space, rt[s] = None, NEW n \in Frame \ InUse(kf, fr), NEW new,
           new = [tab EXCEPT ![n] = [i \in Shared \cap DOMAIN tab[kr] |-> tab[kr][i]]]
    PROVE  /\ SpaceStep(tab, new, kr, kf, rt, fr, s, n, {n})
           /\ \A v \in UserPages : FindPte(new, n, v) = {}
<1>0. TabOK(tab) /\ kr \in kf /\ kf \subseteq Frame /\ n \in Frame /\ n # None /\ n \notin kf
  BY ForestFacts, LayoutAssumption DEF InUse
<1>k. DOMAIN tab[kr] \subseteq Shared
  BY Zenon DEF Forest, KernelTree
<1>1. /\ DOMAIN new = Frame /\ DOMAIN new[n] = DOMAIN tab[kr]
      /\ \A i \in DOMAIN tab[kr] : new[n][i] = tab[kr][i]
      /\ \A f \in Frame \ {n} : new[f] = tab[f]
  BY <1>0, <1>k DEF TabOK
<1>2. TabOK(new)
  BY <1>0, <1>1, LayoutAssumption DEF TabOK
<1>3. Tree(new, n, UserPages, {n}) /\ \A v \in UserPages : FindPte(new, n, v) = {}
  <2>1. \A v \in UserPages : Index(v, 0) \notin DOMAIN new[n]
    BY <1>1, <1>k, PageFacts
  <2> QED BY <1>0, <2>1, BareTree, Zenon
<1>4. UserTree(new, kr, n, {n})
  <2>1. Copies(new, kr, n)
    BY <1>0, <1>1 DEF Copies
  <2> QED BY <1>3, <2>1 DEF UserTree
<1>5. Outside(tab, new, {n} \cup fr[s])
  BY <1>1 DEF Outside
<1>6. {n} \subseteq fr[s] \cup (Frame \ (kf \cup UNION {fr[t] : t \in Space})) /\ {n} \subseteq Frame
  BY SMTT(30) DEF InUse
<1> QED BY <1>0, <1>2, <1>3, <1>4, <1>5, <1>6, Zenon DEF SpaceStep

\* A drop empties the frames of s and no others.
LEMMA DropStep ==
    ASSUME NEW tab, NEW kr, NEW kf, NEW rt, NEW fr, Forest(tab, kr, kf, rt, fr),
           NEW s \in Space, NEW new,
           new = [f \in Frame |-> IF f \in fr[s] THEN Empty ELSE tab[f]]
    PROVE  SpaceStep(tab, new, kr, kf, rt, fr, s, None, {})
<1>1. TabOK(new)
  <2>1. TabOK(tab)
    BY ForestFacts
  <2> QED BY <2>1 DEF TabOK, Empty
<1>2. Outside(tab, new, {} \cup fr[s])
  BY DEF Outside
<1> QED BY <1>1, <1>2 DEF SpaceStep

(********************************** invariant ********************************)
\* The inductive invariant: the tables are trees apart from each other, the
\* table in force exists, and the cached translations are in it.
PTInv ==
    /\ Forest(table, kroot, kframes, root, frames)
    /\ satp = kroot \/ \E s \in Space : root[s] # None /\ satp = root[s]
    /\ DOMAIN tlb \subseteq UserPages /\ TlbCoherent

\* The invariant holds after boot (init_kernel_space, kernel_space_activate).
LEMMA InitInv == Init => PTInv
<1> SUFFICES ASSUME Init PROVE PTInv
  OBVIOUS
<1>1. KernelTree(table, kroot, kframes)
  BY BootTree DEF Init
<1>2. root = [s \in Space |-> None] /\ frames = [s \in Space |-> {}]
  BY DEF Init
<1>3. root \in [Space -> Frame \cup {None}] /\ frames \in [Space -> SUBSET Frame]
  BY <1>2
<1>4. Forest(table, kroot, kframes, root, frames)
  BY <1>1, <1>2, <1>3 DEF Forest
<1>5. satp = kroot /\ DOMAIN tlb = {}
  BY DEF Init, Empty
<1> QED BY <1>4, <1>5 DEF PTInv, TlbCoherent

\* A step on a space leaves the translations in force alone unless it is
\* the space in force.
LEMMA InForce ==
    ASSUME NEW tab, NEW new, NEW kr, NEW kf, NEW rt, NEW fr, NEW s \in Space, NEW sp,
           Forest(tab, kr, kf, rt, fr), NEW rt2, NEW fr2, Forest(new, kr, kf, rt2, fr2),
           OthersKept(tab, new, rt, s),
           sp = kr \/ \E t \in Space \ {s} : rt[t] # None /\ sp = rt[t]
    PROVE  \A v \in UserPages : FindPte(new, sp, v) = FindPte(tab, sp, v)
<1>1. CASE sp = kr
  <2>1. \A v \in UserPages : FindPte(tab, kr, v) = {}
    BY KernelBlind, Zenon
  <2>2. \A v \in UserPages : FindPte(new, kr, v) = {}
    BY KernelBlind, Zenon
  <2> QED BY <1>1, <2>1, <2>2
<1>2. CASE \E t \in Space \ {s} : rt[t] # None /\ sp = rt[t]
  BY <1>2, Zenon DEF OthersKept, Kept
<1> QED BY <1>1, <1>2

\* new_user keeps the invariant and the other spaces.
LEMMA NewUserInv ==
    ASSUME PTInv, NEW s \in Space, NewUser(s), Free # {}
    PROVE  PTInv' /\ OthersKept(table, table', root, s)
           /\ root' = [root EXCEPT ![s] = Lowest(Free)] /\ Lowest(Free) # None
           /\ \A v \in UserPages : FindPte(table', Lowest(Free), v) = {}
<1> DEFINE n == Lowest(Free)
<1>1. /\ root[s] = None /\ root' = [root EXCEPT ![s] = n]
      /\ table' = [table EXCEPT ![n] = [i \in Shared \cap DOMAIN table[kroot] |-> table[kroot][i]]]
      /\ frames' = [frames EXCEPT ![s] = {n}]
      /\ UNCHANGED <<kroot, kframes, satp, tlb>>
  BY DEF NewUser, NewUserRoot
<1>2. n \in Frame \ InUse(kframes, frames)
  <2>1. Free \subseteq Nat
    BY LayoutAssumption, Zenon DEF Free
  <2>2. n \in Free
    BY <2>1, LowestFact, Zenon
  <2> QED BY <2>2, Zenon DEF Free, Used, InUse
<1> HIDE DEF n
<1>n. n # None
  BY <1>2, LayoutAssumption
<1>3. Forest(table, kroot, kframes, root, frames)
  BY DEF PTInv
<1>4. /\ SpaceStep(table, table', kroot, kframes, root, frames, s, n, {n})
      /\ \A v \in UserPages : FindPte(table', n, v) = {}
  BY <1>1, <1>2, <1>3, NewStep, Zenon
<1>5. /\ Forest(table', kroot, kframes, [root EXCEPT ![s] = n], [frames EXCEPT ![s] = {n}])
      /\ OthersKept(table, table', root, s)
  BY <1>4, SpaceStepKeeps, Zenon
<1>6. Forest(table', kroot, kframes, root', frames')
  BY <1>1, <1>5
<1>7. satp = kroot \/ \E t \in Space \ {s} : root[t] # None /\ satp = root[t]
  BY <1>1 DEF PTInv
<1>8. \A v \in UserPages : FindPte(table', satp, v) = FindPte(table, satp, v)
  BY <1>3, <1>5, <1>6, <1>7, InForce
<1>9. DOMAIN tlb \subseteq UserPages /\ \A v \in DOMAIN tlb : FindPte(table', satp, v) = {tlb[v]}
  BY <1>8 DEF PTInv, TlbCoherent
<1>10. satp' = kroot' \/ \E t \in Space : root'[t] # None /\ satp' = root'[t]
  <2>1. \A t \in Space \ {s} : root'[t] = root[t]
    BY <1>1, <1>3, SMTT(30) DEF Forest
  <2> QED BY <1>1, <1>7, <2>1
<1>11. PTInv'
  <2>1. kroot' = kroot /\ kframes' = kframes /\ tlb' = tlb /\ satp' = satp
    BY <1>1
  <2>2. Forest(table', kroot', kframes', root', frames')
    BY <1>6, <2>1
  <2>3. DOMAIN tlb' \subseteq UserPages /\ \A v \in DOMAIN tlb' : FindPte(table', satp', v) = {tlb'[v]}
    BY <1>9, <2>1
  <2> QED BY <1>10, <2>2, <2>3, Zenon DEF PTInv, TlbCoherent
<1> QED BY <1>1, <1>4, <1>5, <1>11, <1>n, Zenon DEF n

\* What MapOne and SysMunmap have in common.
PageChange(s, v) ==
    /\ PageStep(table, table', kroot, kframes, root, frames, s, v, frames'[s], FindPte(table', root[s], v))
    /\ root[s] # None /\ frames' = [frames EXCEPT ![s] = frames'[s]]
    /\ UNCHANGED <<kroot, kframes, root, satp>>

\* An operation on page v of s keeps the invariant when it flushes the TLB, or
\* when v had no entry that the TLB could hold.
LEMMA PageChangeInv ==
    ASSUME PTInv, NEW s \in Space, NEW v \in UserPages, PageChange(s, v),
           \/ tlb' = Empty
           \/ tlb' = tlb /\ FindPte(table, root[s], v) = {}
    PROVE  PTInv' /\ OthersKept(table, table', root, s)
<1>1. /\ PageStep(table, table', kroot, kframes, root, frames, s, v, frames'[s], FindPte(table', root[s], v))
      /\ root[s] # None /\ frames' = [frames EXCEPT ![s] = frames'[s]]
      /\ kroot' = kroot /\ kframes' = kframes /\ root' = root /\ satp' = satp
  BY DEF PageChange
<1>2. /\ SpaceStep(table, table', kroot, kframes, root, frames, s, root[s], frames'[s])
      /\ Kept(table, table', root[s], UserPages \ {v})
  BY <1>1, Zenon DEF PageStep
<1>3. /\ Forest(table', kroot, kframes, [root EXCEPT ![s] = root[s]], [frames EXCEPT ![s] = frames'[s]])
      /\ OthersKept(table, table', root, s)
  BY <1>2, SpaceStepKeeps, Zenon
<1>f. Forest(table, kroot, kframes, root, frames)
  BY DEF PTInv
<1>4. Forest(table', kroot, kframes, root, frames')
  <2>1. [root EXCEPT ![s] = root[s]] = root
    BY <1>f DEF Forest
  <2> QED BY <1>1, <1>3, <2>1, Zenon
<1>5. satp = kroot \/ \E t \in Space : root[t] # None /\ satp = root[t]
  BY DEF PTInv
<1>6. DOMAIN tlb' \subseteq UserPages /\ \A w \in DOMAIN tlb' : FindPte(table', satp, w) = {tlb'[w]}
  <2>1. CASE tlb' = Empty
    BY <2>1 DEF Empty
  <2>2. CASE tlb' = tlb /\ FindPte(table, root[s], v) = {}
    <3>0. DOMAIN tlb \subseteq UserPages /\ \A w \in DOMAIN tlb : FindPte(table, satp, w) = {tlb[w]}
      BY DEF PTInv, TlbCoherent
    <3>1. CASE satp = root[s]
      <4>1. v \notin DOMAIN tlb
        BY <2>2, <3>0, <3>1, ZenonT(30)
      <4>2. \A w \in DOMAIN tlb : FindPte(table', satp, w) = FindPte(table, satp, w)
        BY <1>2, <3>0, <3>1, <4>1 DEF Kept
      <4> QED BY <2>2, <3>0, <4>2
    <3>2. CASE satp # root[s]
      <4>1. satp = kroot \/ \E t \in Space \ {s} : root[t] # None /\ satp = root[t]
        BY <1>5, <3>2
      <4>2. \A w \in UserPages : FindPte(table', satp, w) = FindPte(table, satp, w)
        BY <1>f, <1>3, <1>4, <4>1, InForce
      <4> QED BY <2>2, <3>0, <4>2
    <3> QED BY <3>1, <3>2
  <2> QED BY <2>1, <2>2
<1>7. PTInv'
  <2>1. Forest(table', kroot', kframes', root', frames')
    BY <1>1, <1>4
  <2>2. satp' = kroot' \/ \E t \in Space : root'[t] # None /\ satp' = root'[t]
    BY <1>1, <1>5
  <2>3. DOMAIN tlb' \subseteq UserPages /\ \A w \in DOMAIN tlb' : FindPte(table', satp', w) = {tlb'[w]}
    BY <1>1, <1>6
  <2> QED BY <2>1, <2>2, <2>3 DEF PTInv, TlbCoherent
<1> QED BY <1>3, <1>7

\* map_one keeps the invariant: an invalid entry is in no TLB.
LEMMA MapOneInv ==
    ASSUME PTInv, NEW s \in Space, NEW v \in UserPages, MapOne(s, v), ~Halt
    PROVE  /\ PTInv' /\ OthersKept(table, table', root, s) /\ PageChange(s, v)
           /\ FindPte(table', root[s], v) # {}
<1> DEFINE e == [ppn |-> <<s, v>>]
           c == FindPteCreate([ok |-> TRUE, tab |-> table, own |-> {}, used |-> InUse(kframes, frames)],
                              root[s], v)
<1>1. /\ root[s] # None /\ c.ok /\ FindPte(c.tab, root[s], v) = {}
      /\ table' = SetLeaf(c.tab, root[s], v, e)
      /\ frames' = [frames EXCEPT ![s] = frames[s] \cup c.own]
      /\ UNCHANGED <<kroot, kframes, root, satp, tlb>>
  <2>1. Used = InUse(kframes, frames)
    BY DEF Used, InUse
  <2> QED BY <2>1, Zenon DEF MapOne
<1> HIDE DEF c, e
<1>f. Forest(table, kroot, kframes, root, frames)
  BY SMTT(30) DEF PTInv
<1>2. /\ FindPte(c.tab, root[s], v) = FindPte(table, root[s], v)
      /\ PageStep(table, table', kroot, kframes, root, frames, s, v, frames[s] \cup c.own, {e})
  <2>1. c = FindPteCreate([ok |-> TRUE, tab |-> table, own |-> {}, used |-> InUse(kframes, frames)],
                          root[s], v)
    BY DEF c
  <2>2. /\ FindPte(c.tab, root[s], v) = FindPte(table, root[s], v)
        /\ PageStep(table, SetLeaf(c.tab, root[s], v, e), kroot, kframes, root, frames, s, v,
                    frames[s] \cup c.own, {e})
    <3>1. Mapping(table, kroot, kframes, root, frames, s, v, c)
      BY <1>1, <1>f, <2>1, Zenon DEF Mapping
    <3>2. Mapped(table, kroot, kframes, root, frames, s, v, c, e)
      BY <3>1, MapStep, ZenonT(60)
    <3> QED BY <3>2, Zenon DEF Mapped
  <2> QED BY <1>1, <2>2, ZenonT(60)
<1>3. frames'[s] = frames[s] \cup c.own
  BY <1>1, <1>f, ZenonT(60) DEF Forest
<1>4. FindPte(table', root[s], v) = {e}
  BY <1>2 DEF PageStep
<1>5. PageChange(s, v)
  BY <1>1, <1>2, <1>3, <1>4, Zenon DEF PageChange
<1>6. tlb' = tlb /\ FindPte(table, root[s], v) = {}
  BY <1>1, <1>2, Zenon
<1>7. PTInv' /\ OthersKept(table, table', root, s)
  BY <1>5, <1>6, PageChangeInv
<1> QED BY <1>4, <1>5, <1>7, SMTT(30)

\* munmap and brk keep the invariant: they flush what they take away.
LEMMA SysMunmapInv ==
    ASSUME PTInv, NEW s \in Space, NEW v \in UserPages, SysMunmap(s, v)
    PROVE  /\ PTInv'
           /\ UNCHANGED root
           /\ \/ table' = table
              \/ /\ OthersKept(table, table', root, s) /\ PageChange(s, v)
                 /\ FindPte(table, root[s], v) # {}
<1>1. /\ root[s] # None /\ satp = root[s] /\ Unmap(s, v) /\ tlb' = Empty
      /\ UNCHANGED <<kroot, kframes, root, frames, satp>>
  BY DEF SysMunmap
<1>f. Forest(table, kroot, kframes, root, frames)
  BY DEF PTInv
<1>2. CASE FindPte(table, root[s], v) = {}
  <2>1. table' = table
    BY <1>1, <1>2 DEF Unmap
  <2>2. Forest(table', kroot', kframes', root', frames')
    BY <1>1, <1>f, <2>1
  <2>3. satp' = kroot' \/ \E t \in Space : root'[t] # None /\ satp' = root'[t]
    BY <1>1
  <2>4. DOMAIN tlb' = {}
    BY <1>1, SMTT(30) DEF Empty
  <2>5. PTInv'
    BY <2>2, <2>3, <2>4 DEF PTInv, TlbCoherent
  <2> QED BY <1>1, <2>1, <2>5
<1>3. CASE FindPte(table, root[s], v) # {}
  <2>1. table' = ClearLeaf(table, root[s], v)
    BY <1>1, <1>3, SMTT(30) DEF Unmap
  <2>2. PageStep(table, table', kroot, kframes, root, frames, s, v, frames[s], {})
    BY <1>1, <1>3, <1>f, <2>1, UnmapStep, ZenonT(60)
  <2>3. FindPte(table', root[s], v) = {}
    BY <2>2 DEF PageStep
  <2>4. frames'[s] = frames[s] /\ frames' = [frames EXCEPT ![s] = frames'[s]]
    BY <1>1, <1>f DEF Forest
  <2>5. PageChange(s, v)
    BY <1>1, <2>2, <2>3, <2>4 DEF PageChange
  <2>6. PTInv' /\ OthersKept(table, table', root, s)
    BY <1>1, <2>5, PageChangeInv, SMTT(30)
  <2> QED BY <1>1, <1>3, <2>5, <2>6
<1> QED BY <1>2, <1>3

\* A drop keeps the invariant: the table in force is another one.
LEMMA DropInv ==
    ASSUME PTInv, NEW s \in Space, Drop(s)
    PROVE  /\ PTInv' /\ OthersKept(table, table', root, s)
           /\ root' = [root EXCEPT ![s] = None] /\ root[s] # None
<1>1. /\ root[s] # None /\ satp # root[s] /\ root' = [root EXCEPT ![s] = None]
      /\ table' = [f \in Frame |-> IF f \in frames[s] THEN Empty ELSE table[f]]
      /\ frames' = [frames EXCEPT ![s] = {}]
      /\ UNCHANGED <<kroot, kframes, satp, tlb>>
  BY DEF Drop
<1>f. Forest(table, kroot, kframes, root, frames)
  BY DEF PTInv
<1>2. SpaceStep(table, table', kroot, kframes, root, frames, s, None, {})
  BY <1>1, <1>f, DropStep
<1>3. /\ Forest(table', kroot, kframes, [root EXCEPT ![s] = None], [frames EXCEPT ![s] = {}])
      /\ OthersKept(table, table', root, s)
  BY <1>2, SpaceStepKeeps, ZenonT(60)
<1>4. Forest(table', kroot, kframes, root', frames')
  BY <1>1, <1>3
<1>5. satp = kroot \/ \E t \in Space \ {s} : root[t] # None /\ satp = root[t]
  BY <1>1 DEF PTInv
<1>6. \A v \in UserPages : FindPte(table', satp, v) = FindPte(table, satp, v)
  BY <1>f, <1>3, <1>4, <1>5, InForce
<1>7. DOMAIN tlb \subseteq UserPages /\ \A v \in DOMAIN tlb : FindPte(table', satp, v) = {tlb[v]}
  BY <1>6 DEF PTInv, TlbCoherent
<1>8. satp' = kroot' \/ \E t \in Space : root'[t] # None /\ satp' = root'[t]
  <2>1. \A t \in Space \ {s} : root'[t] = root[t]
    BY <1>1, <1>f, SMTT(30) DEF Forest
  <2> QED BY <1>1, <1>5, <2>1, SMTT(30)
<1>9. PTInv'
  <2>1. kroot' = kroot /\ kframes' = kframes /\ tlb' = tlb /\ satp' = satp
    BY <1>1
  <2>2. Forest(table', kroot', kframes', root', frames')
    BY <1>4, <2>1
  <2>3. DOMAIN tlb' \subseteq UserPages /\ \A v \in DOMAIN tlb' : FindPte(table', satp', v) = {tlb'[v]}
    BY <1>7, <2>1
  <2> QED BY <1>8, <2>2, <2>3 DEF PTInv, TlbCoherent
<1> QED BY <1>1, <1>3, <1>9

\* Halting, switching and walking change no table.
LEMMA QuietInv ==
    ASSUME PTInv,
           \/ UNCHANGED vars
           \/ Halt
           \/ \E s \in Space : Activate(s)
           \/ \E v \in UserPages : Access(v)
    PROVE  PTInv' /\ UNCHANGED <<table, root>>
<1>f. Forest(table, kroot, kframes, root, frames)
  BY DEF PTInv
<1>1. CASE UNCHANGED vars \/ Halt
  <2>1. UNCHANGED <<kroot, kframes, table, root, frames, satp, tlb>>
    BY <1>1 DEF vars, Halt
  <2> QED BY <2>1 DEF PTInv, TlbCoherent
<1>2. ASSUME NEW s \in Space, Activate(s) PROVE PTInv' /\ UNCHANGED <<table, root>>
  <2>1. /\ UNCHANGED <<kroot, kframes, table, root, frames>>
        /\ satp' = root[s] /\ tlb' = Empty /\ root[s] # None
    BY <1>2 DEF Activate
  <2>2. Forest(table', kroot', kframes', root', frames') /\ DOMAIN tlb' = {}
    BY <1>f, <2>1 DEF Empty
  <2>3. \E t \in Space : root'[t] # None /\ satp' = root'[t]
    BY <2>1, SMTT(30)
  <2>4. PTInv'
    BY <2>2, <2>3, Zenon DEF PTInv, TlbCoherent
  <2> QED BY <2>1, <2>4
<1>3. ASSUME NEW v \in UserPages, Access(v) PROVE PTInv' /\ UNCHANGED <<table, root>>
  <2>1. PICK e \in FindPte(table, satp, v) : tlb' = Put(tlb, v, e)
    BY <1>3 DEF Access
  <2>2. UNCHANGED <<kroot, kframes, table, root, frames, satp>>
    BY <1>3 DEF Access
  <2>3. FindPte(table, satp, v) = {e}
    BY DEF FindPte
  <2>4. DOMAIN tlb' = DOMAIN tlb \cup {v} /\ tlb'[v] = e /\ \A w \in DOMAIN tlb \ {v} : tlb'[w] = tlb[w]
    BY <2>1, SMTT(30) DEF Put
  <2>5. DOMAIN tlb' \subseteq UserPages /\ \A w \in DOMAIN tlb' : FindPte(table', satp', w) = {tlb'[w]}
    BY <2>2, <2>3, <2>4, Zenon DEF PTInv, TlbCoherent
  <2>6. Forest(table', kroot', kframes', root', frames')
    BY <1>f, <2>2
  <2>7. satp' = kroot' \/ \E t \in Space : root'[t] # None /\ satp' = root'[t]
    BY <2>2, SMTT(30) DEF PTInv
  <2>8. PTInv'
    BY <2>5, <2>6, <2>7, Zenon DEF PTInv, TlbCoherent
  <2> QED BY <2>2, <2>8
<1> QED BY <1>1, <1>2, <1>3

\* Every operation keeps the invariant.
LEMMA StepInv == PTInv /\ [Next]_vars => PTInv'
<1> SUFFICES ASSUME PTInv, [Next]_vars PROVE PTInv'
  OBVIOUS
<1>1. CASE UNCHANGED vars \/ Halt
  BY <1>1, QuietInv
<1>2. ASSUME NEW s \in Space, NewUser(s) PROVE PTInv'
  <2>1. Halt \/ Free # {}
    BY <1>2 DEF NewUser
  <2> QED BY <1>1, <1>2, <2>1, NewUserInv
<1>3. ASSUME NEW s \in Space, Activate(s) PROVE PTInv'
  BY <1>3, QuietInv
<1>4. ASSUME NEW s \in Space, NEW v \in UserPages, MapOne(s, v) PROVE PTInv'
  BY <1>1, <1>4, MapOneInv
<1>5. ASSUME NEW s \in Space, NEW v \in UserPages, SysMunmap(s, v) PROVE PTInv'
  BY <1>5, SysMunmapInv
<1>6. ASSUME NEW s \in Space, Drop(s) PROVE PTInv'
  BY <1>6, DropInv
<1>7. ASSUME NEW v \in UserPages, Access(v) PROVE PTInv'
  BY <1>7, QuietInv
<1> QED BY <1>1, <1>2, <1>3, <1>4, <1>5, <1>6, <1>7 DEF Next

\* The inductive invariant of the page tables holds in every reachable state.
LEMMA InvHolds == Spec => []PTInv
<1>1. Init => PTInv
  BY InitInv
<1>2. PTInv /\ [Next]_vars => PTInv'
  BY StepInv
<1> QED BY <1>1, <1>2, PTL DEF Spec

(********************************** theorems *********************************)
\* Roots are owned, tables without a root own nothing, and the table in
\* force is one of them.
THEOREM PageTableTyped == Spec => []TypeOK
<1>1. PTInv => TypeOK
  <2> SUFFICES ASSUME PTInv PROVE TypeOK
    OBVIOUS
  <2>f. Forest(table, kroot, kframes, root, frames)
    BY DEF PTInv
  <2>1. TabOK(table) /\ kroot \in kframes /\ \A s \in Space : root[s] # None => root[s] \in frames[s]
    BY <2>f, ForestFacts, LiveFacts, Zenon
  <2>2. (\A s \in Space : frames[s] \subseteq Frame) /\ (\A s \in Space : root[s] = None => frames[s] = {})
    BY <2>f DEF Forest
  <2>3. satp \in Tables
    BY <2>1 DEF PTInv, Tables
  <2> QED BY <2>1, <2>2, <2>3 DEF TypeOK, Live, TabOK
<1> QED BY <1>1, InvHolds, PTL

\* No frame is in two trees, and a space walks its own tables or the
\* kernel's: what a drop frees (PageTable.frames) nobody else walks.
THEOREM OwnedOnce == Spec => []TablesOwnedOnce
<1>1. PTInv => TablesOwnedOnce
  <2> SUFFICES ASSUME PTInv PROVE TablesOwnedOnce
    OBVIOUS
  <2>f. Forest(table, kroot, kframes, root, frames)
    BY DEF PTInv
  <2>1. /\ \A s \in Space : frames[s] \cap kframes = {}
        /\ \A s, t \in Space : s # t => frames[s] \cap frames[t] = {}
    BY <2>f, SMTT(30) DEF Forest
  <2>2. ASSUME NEW s \in Live, NEW d \in 0..(Levels - 1)
        PROVE  /\ \A v \in UserPages : TableAt(table, root[s], v, d) \in frames[s] \cup {None}
               /\ \A v \in KernelPages : d > 0 => TableAt(table, root[s], v, d) \in kframes
    <3>1. s \in Space /\ root[s] # None /\ d \in Depths
      BY DEF Live, Depths
    <3>2. Reaches(table, root[s], UserPages, frames[s])
      BY <2>f, <3>1, Zenon DEF Forest, UserTree, Tree
    <3>3. KernelHalf(table, root[s], kframes)
      BY <2>f, <3>1, LiveFacts, Zenon
    <3> QED BY <3>1, <3>2, <3>3 DEF Reaches, KernelHalf
  <2> QED BY <2>1, <2>2, Zenon DEF TablesOwnedOnce
<1> QED BY <1>1, InvHolds, PTL

\* Every translation the hart has cached is in the table in force.
THEOREM TlbNeverStale == Spec => []TlbCoherent
<1>1. PTInv => TlbCoherent
  BY DEF PTInv
<1> QED BY <1>1, InvHolds, PTL

(********************************* refinement ********************************)
AllPages == KernelPages \cup UserPages

\* No page belongs to the kernel and to a program.
LEMMA PagesApart == KernelPages \cap UserPages = {}
  BY PageFacts

\* Tables with the same leaves give the same map (translate_va_to_pa).
LEMMA TranslateSame ==
    ASSUME NEW tab, NEW new, NEW r, \A v \in AllPages : FindPte(new, r, v) = FindPte(tab, r, v)
    PROVE  Translate(new, r) = Translate(tab, r)
<1>1. {v \in AllPages : FindPte(new, r, v) # {}} = {v \in AllPages : FindPte(tab, r, v) # {}}
  OBVIOUS
<1>2. \A v \in AllPages : (CHOOSE e \in FindPte(new, r, v) : TRUE)
                             = (CHOOSE e \in FindPte(tab, r, v) : TRUE)
  BY Zenon
<1> QED BY <1>1, <1>2, Zenon DEF Translate, AllPages

\* The map of a table has the pages with a leaf, and their leaves.
LEMMA TranslateOf ==
    ASSUME NEW tab, NEW r, r # None
    PROVE  /\ DOMAIN Translate(tab, r) = {v \in AllPages : FindPte(tab, r, v) # {}}
           /\ \A v \in DOMAIN Translate(tab, r) :
                Translate(tab, r)[v] = CHOOSE e \in FindPte(tab, r, v) : TRUE
  BY DEF Translate, AllPages

\* Two states with the invariant agree on the kernel's pages of a live space.
LEMMA KernelAgrees ==
    ASSUME PTInv, PTInv', NEW t \in Space, root[t] # None, root'[t] = root[t]
    PROVE  \A v \in KernelPages : FindPte(table', root[t], v) = FindPte(table, root[t], v)
<1>1. Forest(table, kroot, kframes, root, frames) /\ Forest(table', kroot', kframes', root', frames')
  BY DEF PTInv
<1>2. KernelHalf(table, root[t], kframes)
  BY <1>1, LiveFacts, Zenon
<1>3. KernelHalf(table', root'[t], kframes')
  BY <1>1, LiveFacts, ZenonT(60)
<1> QED BY <1>2, <1>3, SMTT(30) DEF KernelHalf

\* A step on s leaves the maps of the other spaces alone.
LEMMA OthersSame ==
    ASSUME PTInv, PTInv', NEW s \in Space, OthersKept(table, table', root, s),
           NEW t \in Space \ {s}, root'[t] = root[t]
    PROVE  Translate(table', root'[t]) = Translate(table, root[t])
<1>1. CASE root[t] = None
  BY <1>1 DEF Translate
<1>2. CASE root[t] # None
  <2>1. \A v \in KernelPages : FindPte(table', root[t], v) = FindPte(table, root[t], v)
    BY <1>2, KernelAgrees
  <2>2. \A v \in UserPages : FindPte(table', root[t], v) = FindPte(table, root[t], v)
    BY <1>2, SMTT(30) DEF OthersKept, Kept
  <2>3. \A v \in AllPages : FindPte(table', root[t], v) = FindPte(table, root[t], v)
    BY <2>1, <2>2, SMTT(30) DEF AllPages
  <2>4. Translate(table', root[t]) = Translate(table, root[t])
    BY <2>3, TranslateSame
  <2> QED BY <2>4, SMTT(30)
<1> QED BY <1>1, <1>2, SMTT(30)

\* A new table translates the kernel's pages alone.
LEMMA NewMap ==
    ASSUME PTInv', NEW s \in Space, root'[s] # None,
           \A v \in UserPages : FindPte(table', root'[s], v) = {}
    PROVE  Translate(table', root'[s]) = [v \in KernelPages |-> Direct(v)]
<1>1. Forest(table', kroot', kframes', root', frames')
  BY DEF PTInv
<1>2. KernelHalf(table', root'[s], kframes')
  BY <1>1, LiveFacts, Zenon
<1>3. \A v \in KernelPages : FindPte(table', root'[s], v) = {Direct(v)}
  BY <1>2 DEF KernelHalf
<1>4. {v \in AllPages : FindPte(table', root'[s], v) # {}} = KernelPages
  BY <1>3 DEF AllPages
<1>5. \A v \in KernelPages : (CHOOSE e \in FindPte(table', root'[s], v) : TRUE) = Direct(v)
  BY <1>3
<1> QED BY <1>4, <1>5 DEF Translate, AllPages

\* The abstract step of a page operation.
LEMMA ChangeMap ==
    ASSUME PTInv, PTInv', NEW s \in Space, NEW v \in UserPages, PageChange(s, v),
           OthersKept(table, table', root, s),
           FindPte(table, root[s], v) # {} \/ FindPte(table', root[s], v) # {}
    PROVE  AbstractTranslation!Next
<1> DEFINE old == Translate(table, root[s])
           new == Translate(table', root'[s])
<1>1. root' = root /\ root[s] # None /\ Kept(table, table', root[s], UserPages \ {v})
  BY DEF PageChange, PageStep
<1>2. \A t \in Space \ {s} : Translate(table', root'[t]) = Translate(table, root[t])
  BY <1>1, OthersSame
<1>3. \A w \in AllPages \ {v} : FindPte(table', root[s], w) = FindPte(table, root[s], w)
  <2>1. \A w \in KernelPages : FindPte(table', root[s], w) = FindPte(table, root[s], w)
    BY <1>1, KernelAgrees
  <2> QED BY <1>1, <2>1 DEF AllPages, Kept
<1>4. /\ DOMAIN old = {w \in AllPages : FindPte(table, root[s], w) # {}}
      /\ \A w \in DOMAIN old : old[w] = CHOOSE e \in FindPte(table, root[s], w) : TRUE
  BY <1>1, TranslateOf, ZenonT(60)
<1>5. /\ DOMAIN new = {w \in AllPages : FindPte(table', root[s], w) # {}}
      /\ \A w \in DOMAIN new : new[w] = CHOOSE e \in FindPte(table', root[s], w) : TRUE
  BY <1>1, TranslateOf, ZenonT(30)
<1> HIDE DEF old, new
<1>6. DOMAIN old \ {v} = DOMAIN new \ {v} /\ \A u \in DOMAIN old \ {v} : new[u] = old[u]
  <2>1. DOMAIN old \ {v} = DOMAIN new \ {v}
    BY <1>3, <1>4, <1>5, Zenon
  <2>2. ASSUME NEW u \in DOMAIN old \ {v} PROVE new[u] = old[u]
    <3>1. u \in AllPages \ {v} /\ u \in DOMAIN new
      BY <1>4, <2>1, SMTT(30)
    <3>2. FindPte(table', root[s], u) = FindPte(table, root[s], u)
      BY <1>3, <3>1
    <3>3. old[u] = CHOOSE e \in FindPte(table, root[s], u) : TRUE
      BY <1>4, Zenon
    <3>4. new[u] = CHOOSE e \in FindPte(table', root[s], u) : TRUE
      BY <1>5, <3>1, ZenonT(60)
    <3> QED BY <3>2, <3>3, <3>4, ZenonT(60)
  <2> QED BY <2>1, <2>2, Zenon
<1>7. v \in (DOMAIN old \cup DOMAIN new) \ KernelPages
  BY <1>4, <1>5, PagesApart DEF AllPages
<1>8. Live' = Live /\ s \in Live
  BY <1>1, SMTT(30) DEF Live
<1> DEFINE m == [t \in Space |-> Translate(table, root[t])]
           k == [w \in KernelPages |-> Direct(w)]
<1>9. m[s] = old /\ m'[s] = new /\ DOMAIN k = KernelPages
      /\ \A t \in Space \ {s} : m'[t] = m[t]
  BY <1>2, ZenonT(60) DEF old, new
<1>s. AbstractTranslation!SameBut(old, new, v)
  BY <1>6, ZenonT(30) DEF AbstractTranslation!SameBut
<1> HIDE DEF m, k
<1>10. \E x \in (DOMAIN m[s] \cup DOMAIN m'[s]) \ DOMAIN k :
         AbstractTranslation!SameBut(m[s], m'[s], x)
  BY <1>s, <1>7, <1>9, SMTT(30)
<1>11. \E f \in {m[s]}, g \in {m'[s]} : \E x \in (DOMAIN f \cup DOMAIN g) \ DOMAIN k :
         AbstractTranslation!SameBut(f, g, x)
  BY <1>10, SMTT(30)
<1>12. AbstractTranslation!Change(s)
  BY <1>8, <1>9, <1>11, Zenon DEF AbstractTranslation!Change, m, k
<1> QED BY <1>12 DEF AbstractTranslation!Next

\* Every operation is a step of the flat maps or leaves them alone.
LEMMA StepRefines ==
    ASSUME PTInv, [Next]_vars
    PROVE  [AbstractTranslation!Next]_AbstractTranslation!vars
<1>i. PTInv'
  BY StepInv
<1> DEFINE m == [t \in Space |-> Translate(table, root[t])]
<1>q. ASSUME table' = table, root' = root PROVE UNCHANGED AbstractTranslation!vars
  BY <1>q DEF AbstractTranslation!vars, Live
<1>1. CASE UNCHANGED vars \/ Halt
  BY <1>1, <1>q, QuietInv
<1>2. ASSUME NEW s \in Space, NewUser(s) PROVE [AbstractTranslation!Next]_AbstractTranslation!vars
  <2>1. CASE Halt
    BY <1>1, <2>1
  <2>2. CASE Free # {}
    <3>1. /\ OthersKept(table, table', root, s) /\ root' = [root EXCEPT ![s] = Lowest(Free)]
          /\ Lowest(Free) # None
          /\ \A v \in UserPages : FindPte(table', Lowest(Free), v) = {}
      BY <1>2, <2>2, NewUserInv, ZenonT(30)
    <3>2. root[s] = None /\ root'[s] = Lowest(Free) /\ \A t \in Space \ {s} : root'[t] = root[t]
      BY <1>2, <3>1 DEF NewUser, PTInv, Forest
    <3>3. \A t \in Space \ {s} : Translate(table', root'[t]) = Translate(table, root[t])
      BY <1>i, <3>1, <3>2, OthersSame, SMTT(30)
    <3>4. Translate(table', root'[s]) = [v \in KernelPages |-> Direct(v)]
      BY <1>i, <3>1, <3>2, NewMap, SMTT(30)
    <3>5. m' = [m EXCEPT ![s] = [v \in KernelPages |-> Direct(v)]]
      BY <3>3, <3>4, Zenon
    <3>6. s \notin Live /\ Live' = Live \cup {s}
      BY <3>1, <3>2, SMTT(30) DEF Live
    <3>7. AbstractTranslation!New(s)
      BY <3>5, <3>6 DEF AbstractTranslation!New
    <3> QED BY <3>7 DEF AbstractTranslation!Next
  <2> QED BY <1>2, <2>1, <2>2 DEF NewUser
<1>3. ASSUME NEW s \in Space, Activate(s) PROVE [AbstractTranslation!Next]_AbstractTranslation!vars
  BY <1>3, <1>q, QuietInv
<1>4. ASSUME NEW s \in Space, NEW v \in UserPages, MapOne(s, v)
      PROVE  [AbstractTranslation!Next]_AbstractTranslation!vars
  <2>1. CASE Halt
    BY <1>1, <2>1
  <2>2. CASE ~Halt
    BY <1>i, <1>4, <2>2, MapOneInv, ChangeMap, SMTT(30)
  <2> QED BY <2>1, <2>2
<1>5. ASSUME NEW s \in Space, NEW v \in UserPages, SysMunmap(s, v)
      PROVE  [AbstractTranslation!Next]_AbstractTranslation!vars
  BY <1>i, <1>5, <1>q, SysMunmapInv, ChangeMap
<1>6. ASSUME NEW s \in Space, Drop(s) PROVE [AbstractTranslation!Next]_AbstractTranslation!vars
  <2>1. /\ OthersKept(table, table', root, s) /\ root' = [root EXCEPT ![s] = None]
        /\ root[s] # None
    BY <1>6, DropInv, SMTT(30)
  <2>2. root'[s] = None /\ \A t \in Space \ {s} : root'[t] = root[t]
    BY <2>1 DEF PTInv, Forest
  <2>3. \A t \in Space \ {s} : Translate(table', root'[t]) = Translate(table, root[t])
    BY <1>i, <2>1, <2>2, OthersSame, ZenonT(30)
  <2>4. Translate(table', root'[s]) = Empty
    BY <2>2 DEF Translate
  <2>5. m' = [m EXCEPT ![s] = Empty]
    BY <2>3, <2>4, Zenon
  <2>6. s \in Live /\ Live' = Live \ {s}
    BY <2>1, <2>2, SMTT(30) DEF Live
  <2>7. AbstractTranslation!Drop(s)
    BY <2>5, <2>6 DEF AbstractTranslation!Drop, AbstractTranslation!Empty, Empty
  <2> QED BY <2>7 DEF AbstractTranslation!Next
<1>7. ASSUME NEW v \in UserPages, Access(v) PROVE [AbstractTranslation!Next]_AbstractTranslation!vars
  BY <1>7, <1>q, QuietInv
<1> QED BY <1>1, <1>2, <1>3, <1>4, <1>5, <1>6, <1>7 DEF Next

\* The trees of new_user, map_one, unmap and drop implement flat maps from
\* pages to entries: no operation on a page of a space is seen through
\* another page or another space.
THEOREM TranslationImplemented == Spec => ImplementsTranslation
<1>1. Init => AbstractTranslation!Init
  <2> SUFFICES ASSUME Init PROVE AbstractTranslation!Init
    OBVIOUS
  <2>1. \A s \in Space : root[s] = None
    BY Zenon DEF Init
  <2>2. \A s \in Space : Translate(table, root[s]) = Empty
    BY <2>1, Zenon DEF Translate
  <2>3. Live = {}
    BY <2>1 DEF Live
  <2> QED BY <2>2, <2>3 DEF AbstractTranslation!Init, AbstractTranslation!Empty, Empty
<1>2. PTInv /\ [Next]_vars => [AbstractTranslation!Next]_AbstractTranslation!vars
  BY StepRefines
<1> QED BY <1>1, <1>2, InvHolds, PTL DEF Spec, ImplementsTranslation, AbstractTranslation!Spec

==============================================================================
