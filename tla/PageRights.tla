----------------------------- MODULE PageRights -----------------------------
(***************************************************************************)
(* The access rights of one user page on their way from a request to the   *)
(* page table entry: the bit sets of mm/type_cast.rs, the conversions      *)
(* between them, and the packing of an entry in mm/page_table.rs.  Which   *)
(* pages there are is the matter of AddressSpace, which tree holds the     *)
(* entry that of PageTable; here an entry is the number the hart reads.    *)
(***************************************************************************)
EXTENDS Integers, FiniteSets, Sequences

CONSTANTS
    Prots,          \* prot arguments of mmap and mprotect
    Ppns,           \* frames that pages get
    PpnBits         \* width of the frame number in an entry: 44

VARIABLES
    pte,            \* the entry, a number; 0 is PageTableEntry::empty()
    vma,            \* type, map_permission and the request of the page's area
    frame,          \* the frame the page manager holds for the page
    status          \* result of the last mprotect

rightsVars == <<pte, vma, frame, status>>

(********************************* bit sets *********************************)
Contains(word, bit) == (word \div 2 ^ bit) % 2 = 1
Bits(names, bitOf) ==
    LET sum[i \in 0 .. Len(names)] ==
            IF i = 0 THEN 0 ELSE sum[i - 1] + 2 ^ bitOf[names[i]]
    IN  sum[Len(names)]
Kept(word, from, to, names) ==
    Bits(SelectSeq(names, LAMBDA n : Contains(word, from[n])), to)

MapPermission == [R |-> 0, W |-> 1, X |-> 2, U |-> 3]
MmapProt == [R |-> 0, W |-> 1, X |-> 2]
PTEFlags == [V |-> 0, R |-> 1, W |-> 2, X |-> 3, U |-> 4, G |-> 5, A |-> 6, D |-> 7, COW |-> 8]
PagePermission == [R |-> 1, W |-> 2, X |-> 3, U |-> 4]

\* From<MmapProt> for MapPermission.  PROT_NONE has no bit, every value
\* contains it, and U is never set here.
FromMmapProt(prot) == Kept(prot, MmapProt, MapPermission, <<"X", "W", "R">>)

\* Mutant: the bits are taken over without moving them to their places.
ToPTEFlagsUnmoved(perm) == perm

\* From<MapPermission> for PTEFlags.
ToPTEFlags(perm) == Kept(perm, MapPermission, PTEFlags, <<"R", "W", "X", "U">>)

\* From<MapPermission> for PagePermission, which Page.permission keeps.
ToPagePermission(perm) == Kept(perm, MapPermission, PagePermission, <<"R", "W", "X", "U">>)

(********************************** entries *********************************)
\* PageTableEntry::new, flags, ppn, and the tests of single flags.
NewEntry(ppn, flags) == ppn * 1024 + flags
Flags(e) == e % 512
Ppn(e) == (e \div 1024) % 2 ^ PpnBits
IsValid(e) == Contains(Flags(e), PTEFlags.V)
IsWritable(e) == Contains(Flags(e), PTEFlags.W)
IsReadable(e) == Contains(Flags(e), PTEFlags.R)
IsExecutable(e) == Contains(Flags(e), PTEFlags.X)
IsUser(e) == Contains(Flags(e), PTEFlags.U)

\* map_one writes the entry with A, D and V besides the rights.
MapOne(ppn, flags) == NewEntry(ppn, flags + Bits(<<"A", "D", "V">>, PTEFlags))

(********************************* operations *******************************)
RightsInit ==
    /\ pte = 0
    /\ vma = [type |-> "none", perm |-> 0, prot |-> 0]
    /\ frame = 0
    /\ status = "none"

NewArea(type, perm, prot) ==
    /\ vma.type = "none"
    /\ vma' = [type |-> type, perm |-> perm, prot |-> prot]
    /\ UNCHANGED <<pte, frame, status>>

\* sys_mmap: the bits it does not know are cut off, U is added.
SysMmap(prot) ==
    LET known == prot % 8
    IN  NewArea("Mmap", FromMmapProt(known) + 2 ^ MapPermission.U, known)

\* map_elf_at: a segment's permission from its p_flags, here with the bits of
\* prot; load_elf: the stack and the heap.
SegmentPermission(flags) ==
    Kept(flags, MmapProt, MapPermission, <<"R", "W", "X">>) + 2 ^ MapPermission.U
MapElfAt(flags) == flags < 8 /\ NewArea("Elf", SegmentPermission(flags), flags)
LoadElf ==
    \E type \in {"UserStack", "UserHeap"} :
        NewArea(type, Bits(<<"U", "R", "W">>, MapPermission), 3)

\* Segments and the stack are mapped when they are pushed; the handlers of
\* the stack and the heap name the flags themselves, that of mmap converts.
FaultFlags ==
    CASE vma.type = "UserStack" -> Bits(<<"W", "R", "U">>, PTEFlags)
      [] vma.type = "UserHeap" -> Bits(<<"W", "R", "U", "X">>, PTEFlags)
      [] OTHER -> ToPTEFlags(vma.perm)
PushMap ==
    /\ vma.type \in {"Elf", "UserStack"} /\ pte = 0
    /\ \E ppn \in Ppns : frame' = ppn /\ pte' = MapOne(ppn, ToPTEFlags(vma.perm))
    /\ UNCHANGED <<vma, status>>
HandlerPageFault ==
    /\ vma.type \in {"Mmap", "UserStack", "UserHeap"} /\ pte = 0
    /\ \E ppn \in Ppns : frame' = ppn /\ pte' = MapOne(ppn, FaultFlags)
    /\ UNCHANGED <<vma, status>>

\* from_user maps the copy with the area's permission; the child goes on.
FromUser ==
    /\ IsValid(pte)
    /\ \E ppn \in Ppns \ {frame} : frame' = ppn /\ pte' = MapOne(ppn, ToPTEFlags(vma.perm))
    /\ UNCHANGED <<vma, status>>

\* sys_mprotect: every prot it knows contains PROT_NONE, so it returns 0
\* before it changes anything.
SysMprotect(prot) ==
    /\ \E aligned \in BOOLEAN :
           status' = IF aligned /\ prot < 8 THEN "0" ELSE "EINVAL"
    /\ UNCHANGED <<pte, vma, frame>>

\* Unmapping clears the entry and drops the page.
Unmap ==
    /\ vma.type # "none"
    /\ pte' = 0 /\ frame' = 0 /\ status' = "none"
    /\ vma' = [type |-> "none", perm |-> 0, prot |-> 0]

RightsNext ==
    \/ \E prot \in Prots : SysMmap(prot) \/ MapElfAt(prot) \/ SysMprotect(prot)
    \/ LoadElf \/ PushMap \/ HandlerPageFault \/ FromUser \/ Unmap

-----------------------------------------------------------------------------
\* One type invariant: the entry is a number, valid exactly while the page
\* has a frame.
RightsTypeOK ==
    /\ pte \in Nat /\ vma.perm \in 0 .. 15 /\ vma.prot \in 0 .. 7
    /\ frame \in Ppns \cup {0}
    /\ IsValid(pte) <=> frame # 0

\* The entry of a user page leads to the frame its area holds, lets the
\* program in, and lets it read and write what the request of mmap, the ELF
\* segment or the loader asked for, whichever of the eager mapping, a fault
\* handler or fork wrote it; only the heap's handler adds a right, execution.
EntryRight ==
    IsValid(pte) =>
        /\ Ppn(pte) = frame /\ IsUser(pte)
        /\ IsReadable(pte) <=> Contains(vma.prot, MmapProt.R)
        /\ IsWritable(pte) <=> Contains(vma.prot, MmapProt.W)
        /\ Contains(vma.prot, MmapProt.X) => IsExecutable(pte)
        /\ IsExecutable(pte) => Contains(vma.prot, MmapProt.X) \/ vma.type = "UserHeap"
        /\ vma.type # "UserHeap" =>
               2 * ((Flags(pte) \div 2) % 16) = ToPagePermission(vma.perm)

=============================================================================
