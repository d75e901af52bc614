------------------------------ MODULE PageTable ------------------------------
(****************************************************************************)
(* Sv39 page tables (mm/page_table.rs): trees of frames that user tables    *)
(* share with the kernel below two root entries, the frames they own, and   *)
(* the translations the hart has cached until sfence.vma.                   *)
(*                                                                          *)
(* A table is a partial function from indices to entries: the entries with  *)
(* the V flag.  A frame starts zeroed, so an allocated table is empty.      *)
(* Which frames the areas hold is the matter of AddressSpace: a leaf here   *)
(* names the page of data it maps.                                          *)
(****************************************************************************)
EXTENDS Integers

CONSTANTS
    Space,          \* user page tables
    Frame,          \* frames of the allocator, numbers
    Levels,         \* levels of a table: 3
    Fanout,         \* entries of a table: 512
    KernelPos,      \* KERNEL_PTE_POS, the root entry of the kernel's memory
    KernelMmioPos,  \* KERNEL_MMIO_PTE_POS, the one of the devices
    KernelPages,    \* vpns that new_kernel maps, below these two
    UserPages,      \* vpns of user programs
    None

\* Pages below an entry whose table has k levels below it: 1 << (9 * k).
Span[k \in 0..(Levels - 1)] == IF k = 0 THEN 1 ELSE Fanout * Span[k - 1]

\* v >> (9 * k).
Shift(v, k) == v \div Span[k]

\* The root entries that user tables share with the kernel.
Shared == {KernelPos, KernelMmioPos}

ASSUME LayoutAssumption ==
    /\ Levels \in Nat \ {0, 1} /\ Fanout \in Nat \ {0, 1}
    /\ Frame \subseteq Nat /\ Frame # {} /\ None \notin Frame
    /\ Shared \subseteq 0..(Fanout - 1)
    /\ KernelPages \subseteq Nat /\ \E v \in KernelPages : \A w \in KernelPages : w <= v
    /\ \A v \in KernelPages : Shift(v, Levels - 1) \in Shared
    /\ UserPages \subseteq Nat
    /\ \A v \in UserPages : Shift(v, Levels - 1) \in (0..(Fanout - 1)) \ Shared

VARIABLES
    kroot,    \* root_paddr of KERNEL_SPACE
    kframes,  \* its PageTable.frames
    table,    \* content of the frames that are page tables
    root,     \* root_paddr of a user table, None when it does not exist
    frames,   \* PageTable.frames of a user table
    satp,     \* the table in force
    tlb,      \* translations cached since the last sfence.vma
    halted    \* a panic or a failed assertion

vars == <<kroot, kframes, table, root, frames, satp, tlb, halted>>

Empty == [x \in {} |-> 0]
Put(f, x, y) == [z \in DOMAIN f \cup {x} |-> IF z = x THEN y ELSE f[z]]
Without(f, S) == [x \in DOMAIN f \ S |-> f[x]]

\* The bitmap allocator hands out its lowest set bit.
Lowest(S) == CHOOSE f \in S : \A g \in S : f <= g

\* Mutant: two levels use the same bits.
IndexTwice(v, d) == Shift(v, IF d = 0 THEN Levels - 1 ELSE 1) % Fanout

\* vaddr_to_pte_vpn: the index of page v in the table at depth d.
Index(v, d) == Shift(v, Levels - 1 - d) % Fanout

\* From the table up to the one at depth d on the way to v.
Walk(tab, v, up, d) ==
    IF up # None /\ Index(v, d - 1) \in DOMAIN tab[up]
    THEN tab[up][Index(v, d - 1)].ppn ELSE None

\* The table that an entry chain from root r reaches for v at depth d.
TableAt(tab, r, v, depth) ==
    LET at[d \in 0..(Levels - 1)] == IF d = 0 THEN r ELSE Walk(tab, v, at[d - 1], d)
    IN  at[depth]

\* find_pte: the leaf entry of v, as a set that is empty when there is none.
FindPte(tab, r, v) ==
    LET leaf == TableAt(tab, r, v, Levels - 1)
    IN  IF leaf # None /\ Index(v, Levels - 1) \in DOMAIN tab[leaf]
        THEN {tab[leaf][Index(v, Levels - 1)]} ELSE {}

\* translate_va_to_pa of every page that is mapped.
Translate(tab, r) ==
    IF r = None THEN Empty
    ELSE [v \in {v \in KernelPages \cup UserPages : FindPte(tab, r, v) # {}} |->
            CHOOSE e \in FindPte(tab, r, v) : TRUE]

\* An entry for the new, zeroed table n.
Link(tab, t, i, n) == [tab EXCEPT ![t] = Put(@, i, [ppn |-> n]), ![n] = Empty]

\* find_pte_create: allocates the tables that are missing on the way to the
\* leaf; b.own gets the frames, b.ok goes when alloc_frame().unwrap() panics.
CreateLevel(b, r, v, d) ==
    LET t == TableAt(b.tab, r, v, d - 1)
        free == Frame \ b.used
        n == Lowest(free)
    IN  IF ~b.ok \/ Index(v, d - 1) \in DOMAIN b.tab[t] THEN b
        ELSE IF free = {} THEN [b EXCEPT !.ok = FALSE]
        ELSE [ok |-> TRUE, tab |-> Link(b.tab, t, Index(v, d - 1), n),
              own |-> b.own \cup {n}, used |-> b.used \cup {n}]

FindPteCreate(b, r, v) ==
    LET down[d \in 0..(Levels - 1)] ==
            IF d = 0 THEN b ELSE CreateLevel(down[d - 1], r, v, d)
    IN  down[Levels - 1]

\* The root of PageTable::new_user: copies of the kernel's two entries.
NewUserRoot == [i \in Shared \cap DOMAIN table[kroot] |-> table[kroot][i]]

SetLeaf(tab, r, v, e) ==
    [tab EXCEPT ![TableAt(tab, r, v, Levels - 1)] = Put(@, Index(v, Levels - 1), e)]
ClearLeaf(tab, r, v) ==
    [tab EXCEPT ![TableAt(tab, r, v, Levels - 1)] = Without(@, {Index(v, Levels - 1)})]

(*********************************** boot ***********************************)
\* The kernel maps its pages one to one outside the allocator's frames.
Direct(v) == [ppn |-> <<"phys", v>>]

\* new_kernel: MapType::Direct areas pushed into a new table, page by page.
NewTable(f) == [ok |-> TRUE, own |-> {f}, used |-> {f}, tab |-> [g \in Frame |-> Empty]]

PushDirect(b, r, v) ==
    LET c == FindPteCreate(b, r, v)
    IN  IF c.ok THEN [c EXCEPT !.tab = SetLeaf(c.tab, r, v, Direct(v))] ELSE c

LastKernelPage == CHOOSE v \in KernelPages : \A w \in KernelPages : w <= v

KernelTable ==
    LET first == Lowest(Frame)
        below[v \in 0..(LastKernelPage + 1)] ==
            IF v = 0 THEN NewTable(first)
            ELSE IF v - 1 \in KernelPages THEN PushDirect(below[v - 1], first, v - 1)
            ELSE below[v - 1]
    IN  below[LastKernelPage + 1]

\* Mutant: the kernel's tables are not marked in the bitmap.
UsedByUsers == UNION {frames[s] : s \in Space}

\* The frames whose FrameTracker is alive.
Used == kframes \cup UNION {frames[s] : s \in Space}
Free == Frame \ Used

\* A boot that runs out of frames panics before there is a table.
Init ==
    /\ KernelTable.ok
    /\ kroot = Lowest(Frame)
    /\ kframes = KernelTable.own
    /\ table = KernelTable.tab
    /\ root = [s \in Space |-> None]
    /\ frames = [s \in Space |-> {}]
    /\ satp = kroot
    /\ tlb = Empty
    /\ halted = FALSE

(********************************* operations ********************************)
Halt == halted' = TRUE /\ UNCHANGED <<kroot, kframes, table, root, frames, satp, tlb>>

\* PageTable::new_user.
NewUser(s) ==
    /\ root[s] = None
    /\ \/ /\ Free # {}
          /\ root' = [root EXCEPT ![s] = Lowest(Free)]
          /\ table' = [table EXCEPT ![Lowest(Free)] = NewUserRoot]
          /\ frames' = [frames EXCEPT ![s] = {Lowest(Free)}]
          /\ UNCHANGED <<kroot, kframes, satp, tlb, halted>>
       \/ Free = {} /\ Halt

\* map_one: panics on a valid entry.
MapOne(s, v) ==
    LET b == FindPteCreate([ok |-> TRUE, tab |-> table, own |-> {}, used |-> Used], root[s], v)
    IN  /\ root[s] # None
        /\ IF ~b.ok \/ FindPte(b.tab, root[s], v) # {} THEN Halt
           ELSE /\ table' = SetLeaf(b.tab, root[s], v, [ppn |-> <<s, v>>])
                /\ frames' = [frames EXCEPT ![s] = @ \cup b.own]
                /\ UNCHANGED <<kroot, kframes, root, satp, tlb, halted>>

\* activate: satp and sfence.vma.
Activate(s) ==
    /\ root[s] # None
    /\ satp' = root[s]
    /\ tlb' = Empty
    /\ UNCHANGED <<kroot, kframes, table, root, frames, halted>>

\* unmap: clears the entry; a missing one is skipped.
Unmap(s, v) ==
    table' = IF FindPte(table, root[s], v) = {} THEN table ELSE ClearLeaf(table, root[s], v)

\* Mutant: the translations are not flushed.
SysMunmapNoFlush(s, v) ==
    /\ root[s] # None /\ satp = root[s]
    /\ Unmap(s, v)
    /\ UNCHANGED <<kroot, kframes, root, frames, satp, tlb, halted>>

\* A call of s that unmaps v (munmap, brk), running on its own table:
\* unmap, then activate.
SysMunmap(s, v) ==
    /\ root[s] # None /\ satp = root[s]
    /\ Unmap(s, v)
    /\ tlb' = Empty
    /\ UNCHANGED <<kroot, kframes, root, frames, satp, halted>>

\* Mutant: the frames stay with the dropped table.
DropKeepsFrames(s) ==
    /\ root[s] # None /\ satp # root[s]
    /\ root' = [root EXCEPT ![s] = None]
    /\ table' = [f \in Frame |-> IF f \in frames[s] THEN Empty ELSE table[f]]
    /\ UNCHANGED <<kroot, kframes, frames, satp, tlb, halted>>

\* The last Arc of a memory set goes while another task runs: the frames of
\* its tables are free, and what they hold is not seen again.
Drop(s) ==
    /\ root[s] # None /\ satp # root[s]
    /\ root' = [root EXCEPT ![s] = None]
    /\ table' = [f \in Frame |-> IF f \in frames[s] THEN Empty ELSE table[f]]
    /\ frames' = [frames EXCEPT ![s] = {}]
    /\ UNCHANGED <<kroot, kframes, satp, tlb, halted>>

\* The hart walks the table in force and keeps the translation.
Access(v) ==
    /\ \E e \in FindPte(table, satp, v) : tlb' = Put(tlb, v, e)
    /\ UNCHANGED <<kroot, kframes, table, root, frames, satp, halted>>

Next ==
    /\ ~halted
    /\ \/ \E s \in Space :
            \/ NewUser(s)
            \/ Activate(s)
            \/ \E v \in UserPages : MapOne(s, v) \/ SysMunmap(s, v)
            \/ Drop(s)
       \/ \E v \in UserPages : Access(v)

Spec == Init /\ [][Next]_vars

(******************************** properties *********************************)
Live == {s \in Space : root[s] # None}
Tables == kframes \cup UNION {frames[s] : s \in Space}

\* Roots and owned frames are frames; a table that does not exist owns
\* none; entries are indices below Fanout.
TypeOK ==
    /\ \A s \in Live : root[s] \in frames[s]
    /\ \A s \in Space \ Live : frames[s] = {}
    /\ \A s \in Space : frames[s] \subseteq Frame
    /\ \A f \in Frame : DOMAIN table[f] \subseteq 0..(Fanout - 1)
    /\ satp \in Tables

\* The frames of two tables never meet, and the tables a space reaches are
\* its own or, below the shared entries, the kernel's: a drop frees no table that
\* another space still walks (PageTable.frames, new_user).
TablesOwnedOnce ==
    /\ \A s \in Space : frames[s] \cap kframes = {}
    /\ \A s, t \in Space : s # t => frames[s] \cap frames[t] = {}
    /\ \A s \in Live, d \in 0..(Levels - 1) :
         /\ \A v \in UserPages : TableAt(table, root[s], v, d) \in frames[s] \cup {None}
         /\ \A v \in KernelPages : d > 0 => TableAt(table, root[s], v, d) \in kframes

\* The hart never uses a translation that the table in force does not hold
\* any more: what munmap or brk took away is flushed in time.
TlbCoherent == \A v \in DOMAIN tlb : FindPte(table, satp, v) = {tlb[v]}

AbstractTranslation == INSTANCE Translation WITH
    Spaces <- Space, Kernel <- [v \in KernelPages |-> Direct(v)],
    map <- [s \in Space |-> Translate(table, root[s])], born <- Live

\* The trees implement flat maps: an operation on a page of a space changes
\* the translation of no other page and of no other space, although tables
\* are allocated on the way, shared with the kernel and reused after a drop.
ImplementsTranslation == AbstractTranslation!Spec
==============================================================================
