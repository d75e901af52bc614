---------------------------- MODULE AddressSpace ----------------------------
(****************************************************************************)
(* User address spaces: the areas of mm/vma_range, the page managers of     *)
(* mm/vma.rs and mm/pma.rs, the leaf entries of the page table, the frames, *)
(* and the calls that change them: mmap, munmap, brk, page faults and       *)
(* stores of the program, clone without CLONE_VM, execve, and the drop of a *)
(* reaped task's space.                                                     *)
(*                                                                          *)
(* Each of them holds the lock of the one space it changes from its first   *)
(* to its last access and never suspends, so each is one step.  An address  *)
(* is a number; a page is PageSize of them.  A page of memory is abstracted *)
(* to one value, 0 when it holds zeros.  A panic, and a fault that is       *)
(* retried for ever, end the run: nothing else executes on the one hart.    *)
(****************************************************************************)
EXTENDS Integers, FiniteSets, Sequences, TLC
LOCAL INSTANCE Folds
LOCAL INSTANCE FiniteSetsExt

CONSTANTS
    Space,                    \* address spaces
    Frame,                    \* physical frames, numbers
    PageSize,                 \* PAGE_SIZE
    MmapBottom, MmapTop,      \* MMAP_BOTTOM, MMAP_TOP
    StackBottom, StackTop,    \* the user stack
    UserLimit,                \* USER_UPPER_LIMIT
    InterpBase,               \* DL_INTERP_OFFSET
    Images,                   \* programs that execve loads
    BootImage,                \* the program the first space starts with
    MmapCalls,                \* [hint, len, w, file, off] of the mmap calls made
    FixedCalls,               \* [addr, len, w, file, off, ok] of those with MAP_FIXED;
                              \* ok: the descriptor and the offset are valid
    UnmapCalls,               \* [addr, len] of the munmap calls made
    BrkAddrs,                 \* arguments of brk
    TouchAddrs, StoreAddrs,   \* addresses that the programs access, and store 1 to
    File, NoFile              \* open files; no backing file

VARIABLES
    vm,       \* vm[s]: areas, page table leaves and heap_end of a space
    mem,      \* content of a frame
    cache,    \* cache[f]: the page cache of open file f, page number -> frame
    alive,    \* the spaces that exist
    halted    \* "no", "panic", or "loop" when a fault is retried for ever

vars == <<vm, mem, cache, alive, halted>>

Empty == [x \in {} |-> 0]
RangeOf(f) == {f[x] : x \in DOMAIN f}
Without(f, S) == [x \in DOMAIN f \ S |-> f[x]]
Put(f, x, y) == (x :> y) @@ f
\* Folds op over a set of numbers in the order a BTreeMap or a range is walked.
Walk(op(_, _), base, S) ==
    MapThenFoldSet(LAMBDA x, acc : op(acc, x), base, LAMBDA x : x, LAMBDA T : Max(T), S)

(**************************** addresses and areas ****************************)
Vpn(a) == a \div PageSize
AlignDown(a) == (a \div PageSize) * PageSize
AlignUp(a) == ((a + PageSize - 1) \div PageSize) * PageSize
IsAligned(a) == a % PageSize = 0

\* Mutant: the end of an area is not rounded to a page.
AreaUnrounded(start, end, type, w, file, off) ==
    [start |-> AlignDown(start), end |-> end, type |-> type, w |-> w,
     file |-> file, off |-> off, pages |-> Empty]

\* VirtMemoryAddr; its handler is determined by its type.
Area(start, end, type, w, file, off) ==
    [start |-> AlignDown(start), end |-> AlignUp(end), type |-> type, w |-> w,
     file |-> file, off |-> off, pages |-> Empty]
VmaRange(a) == Vpn(a.start)..(Vpn(a.end) - 1)
IsContain(a, pos) == a.start <= pos /\ pos <= a.end
IsOverlap(a, s, e) == ~(e <= a.start \/ s >= a.end)

FramesOf(space) == UNION {RangeOf(space.areas[k].pages) : k \in DOMAIN space.areas}
NoSpace == [areas |-> Empty, pt |-> Empty, heap_end |-> 0]
\* The frames whose FrameTracker is alive.
FilePages == UNION {RangeOf(cache[f]) : f \in File}
Owned == UNION {FramesOf(vm[s]) : s \in Space} \cup FilePages
\* alloc_frame: the lowest free bit of the bitmap.
AllocFrame(used) == CHOOSE f \in Frame \ used : \A g \in Frame \ used : f <= g
Exhausted(used) == Frame \subseteq used

\* Mutant: a frame is handed out with what it held.
NotZeroed(content, f) == content

\* FrameTracker::new clears the frame.
Zeroed(content, f) == [content EXCEPT ![f] = 0]

(*************************** unmapping, splitting ***************************)
\* PhysMemoryAddr::split unwraps the page of every vpn on the right.
CanSplit(a, pos) == Vpn(pos)..(Vpn(a.end) - 1) \subseteq DOMAIN a.pages
LeftPart(a, pos) ==
    [a EXCEPT !.end = pos, !.pages = Without(@, Vpn(pos)..(Vpn(a.end) - 1))]

\* Mutant: the right part starts without its pages.
RightPartBare(a, pos) ==
    [a EXCEPT !.start = pos, !.file = NoFile, !.pages = Empty]

RightPart(a, pos) ==
    [a EXCEPT !.start = pos, !.file = NoFile,
              !.pages = [v \in Vpn(pos)..(Vpn(a.end) - 1) |-> a.pages[v]]]

\* unmap_if_overlap on the area under key k: what stays under k, what is
\* inserted besides, the pages whose entries go, and whether it panics.
UnmapIfOverlap(a, from, to) ==
    LET s == AlignDown(from)
        e == AlignUp(to)
        outcome(ok, here, new, gone) ==
            [ok |-> ok, here |-> here, new |-> new, gone |-> gone]
        left(p) == IF CanSplit(a, p) THEN LeftPart(a, p) ELSE a
    IN  CASE ~IsOverlap(a, s, e) -> outcome(TRUE, a, {}, {})
          [] IsOverlap(a, s, e) /\ s <= a.start /\ e < a.end ->
               IF CanSplit(a, e)
               THEN outcome(TRUE, RightPart(a, e), {}, VmaRange(LeftPart(a, e)))
               ELSE outcome(FALSE, a, {}, {})
          [] IsOverlap(a, s, e) /\ s <= a.start /\ e >= a.end ->
               outcome(TRUE, [a EXCEPT !.pages = Without(@, VmaRange(a))], {}, VmaRange(a))
          [] IsOverlap(a, s, e) /\ s > a.start /\ e < a.end ->
               IF CanSplit(a, e) /\ CanSplit(left(e), s)
               THEN outcome(TRUE, LeftPart(left(e), s), {RightPart(a, e)},
                            VmaRange(RightPart(left(e), s)))
               ELSE outcome(FALSE, a, {}, {})
          [] IsOverlap(a, s, e) /\ s > a.start /\ e >= a.end ->
               IF CanSplit(a, s)
               THEN outcome(TRUE, LeftPart(a, s), {}, VmaRange(RightPart(a, s)))
               ELSE outcome(FALSE, a, {}, {})

\* VmaRange::unmap: every area that overlaps, by key; ok is FALSE on a panic.
Unmap(space, s, e) ==
    LET keys == {k \in DOMAIN space.areas : IsOverlap(space.areas[k], s, e)}
        step(acc, k) ==
            LET u == UnmapIfOverlap(acc.space.areas[k], s, e)
                kept == Put(acc.space.areas, k, u.here)
            IN  [ok |-> acc.ok /\ u.ok,
                 space |-> [acc.space EXCEPT
                    !.areas = IF u.new = {} THEN kept
                              ELSE LET r == CHOOSE r \in u.new : TRUE
                                   IN  Put(kept, r.start, r),
                    !.pt = Without(@, u.gone)]]
        start == [ok |-> TRUE, space |-> space]
    IN  IF s = e THEN start ELSE Walk(step, start, keys)

\* Mutant: every area is taken to be one page long.
FindAnywhereByStart(space, hint, len) ==
    LET max(x, y) == IF x >= y THEN x ELSE y
        step(acc, k) ==
            IF acc.found \/ acc.last + len <= k
            THEN [acc EXCEPT !.found = TRUE]
            ELSE [acc EXCEPT !.last = max(@, k + PageSize)]
        end == Walk(step, [found |-> FALSE, last |-> max(hint, MmapBottom)],
                    DOMAIN space.areas)
    IN  IF end.found \/ end.last + len <= MmapTop THEN {end.last} ELSE {}

\* VmaRange::find_anywhere: the first gap that is long enough.
FindAnywhere(space, hint, len) ==
    LET max(x, y) == IF x >= y THEN x ELSE y
        step(acc, k) ==
            IF acc.found \/ acc.last + len <= k
            THEN [acc EXCEPT !.found = TRUE]
            ELSE [acc EXCEPT !.last = max(@, space.areas[k].end)]
        end == Walk(step, [found |-> FALSE, last |-> max(hint, MmapBottom)],
                        DOMAIN space.areas)
    IN  IF end.found \/ end.last + len <= MmapTop THEN {end.last} ELSE {}

(***************************** mapping and loading ***************************)
\* Building a space: "used" are the frames of the rest of the kernel.
Builder(space, content, used) ==
    [ok |-> TRUE, space |-> space, mem |-> content, used |-> used \cup FramesOf(space)]

\* VirtMemoryAddr::map_one for the area under key k: a fresh frame, filled
\* with x.  PageTable::map_one panics on a valid entry, Page::new when no
\* frame is left.
MapOne(b, k, v, x) ==
    IF ~b.ok \/ v \in DOMAIN b.space.pt \/ Exhausted(b.used)
    THEN [b EXCEPT !.ok = FALSE]
    ELSE LET f == AllocFrame(b.used)
         IN  [b EXCEPT !.space.pt = Put(@, v, [ppn |-> f, w |-> b.space.areas[k].w]),
                       !.space.areas[k].pages = Put(@, v, f),
                       !.mem[f] = x,
                       !.used = @ \cup {f}]

\* MemorySet::push: map_self_all, then the data x of the segment.
Push(b, a, x) ==
    LET page(acc, v) == MapOne(acc, a.start, v, x)
    IN  Walk(page, [b EXCEPT !.space.areas = Put(@, a.start, a)], VmaRange(a))

\* map_elf_at: one area per LOAD segment; the heap starts after the last.
MapElfAt(b, segments, base) ==
    LET step(acc, i) ==
            Push(acc, Area(segments[i].start + base, segments[i].end + base, "Elf",
                           segments[i].w, NoFile, 0), segments[i].data)
    IN  Walk(step, b, DOMAIN segments)
HeapStart(segments) ==
    LET ends == {AlignUp(segments[i].end) : i \in DOMAIN segments} \cup {0}
    IN  CHOOSE e \in ends : \A d \in ends : d <= e

\* load_dl_interp: the interpreter the program names, if it does.
LoadDlInterp(b, image) == MapElfAt(b, image.interp, InterpBase)

\* load_elf: the interpreter, the program, the stack, the empty heap.  The
\* stack page holds args once build_stack has run.
LoadElf(b, image, args) ==
    LET elf == MapElfAt(LoadDlInterp(b, image), image.segments, 0)
        stack == Push(elf, Area(StackBottom, StackTop, "UserStack", TRUE, NoFile, 0), args)
        brk == HeapStart(image.segments)
        heap == Push(stack, Area(brk, brk, "UserHeap", TRUE, NoFile, 0), 0)
    IN  [heap EXCEPT !.ok = @ /\ image.elf, !.space.heap_end = brk]

(********************************** actions **********************************)
Running == halted = "no"
Halt(why) == halted' = why /\ UNCHANGED <<vm, mem, cache, alive>>

\* PCB::elf_data_to_pcb of the first program.
Init ==
    LET b == LoadElf(Builder(NoSpace, [f \in Frame |-> 0], {}), BootImage, 0)
    IN  \E first \in Space :
            /\ vm = [s \in Space |-> IF s = first THEN b.space ELSE NoSpace]
            /\ mem = b.mem
            /\ cache = [f \in File |-> Empty]
            /\ alive = {first}
            /\ halted = "no"

\* MemorySet::mmap: insert_raw under the start of the area; an area that was
\* there is dropped.
Insert(s, space, a) == vm' = [vm EXCEPT ![s] = [space EXCEPT !.areas = Put(@, a.start, a)]]

\* alloc_vma_anywhere, alloc_vma_fixed: the shell of the new area.
AllocVmaAnywhere(space, c) ==
    {Area(start, start + c.len, "Mmap", c.w, c.file, c.off) :
        start \in FindAnywhere(space, c.hint, c.len)}
AllocVmaFixed(c) == Area(c.addr, c.addr + c.len, "Mmap", c.w, c.file, c.off)

\* sys_mmap without MAP_FIXED; ENOMEM when no gap is left.
SysMmap(s, c) ==
    /\ IsAligned(c.hint) /\ c.len > 0
    /\ \E a \in AllocVmaAnywhere(vm[s], c) : Insert(s, vm[s], a)
    /\ UNCHANGED <<mem, cache, alive, halted>>

\* sys_mmap with MAP_FIXED: find_fixed unmaps the range before the
\* descriptor is looked up, so a call that fails has unmapped it.
SysMmapFixed(s, c) ==
    LET u == Unmap(vm[s], c.addr, c.addr + c.len)
    IN  /\ IsAligned(c.addr) /\ c.addr # 0 /\ c.len > 0
        /\ \/ /\ u.ok
              /\ IF c.ok THEN Insert(s, u.space, AllocVmaFixed(c))
                         ELSE vm' = [vm EXCEPT ![s] = u.space]
              /\ UNCHANGED <<mem, cache, alive, halted>>
           \/ ~u.ok /\ Halt("panic")

SysMunmap(s, c) ==
    LET u == Unmap(vm[s], c.addr, c.addr + c.len)
    IN  /\ IsAligned(c.addr) /\ c.len > 0
        /\ IF u.ok
           THEN vm' = [vm EXCEPT ![s] = u.space] /\ UNCHANGED <<mem, cache, alive, halted>>
           ELSE Halt("panic")

\* VmaRange::expand: the last area that ends at the break grows, unless the
\* range overlaps another one (ENOMEM).
HeapKeys(s) == {k \in DOMAIN vm[s].areas : vm[s].areas[k].end = vm[s].heap_end}
Expandable(s, addr) ==
    /\ HeapKeys(s) # {}
    /\ \A k \in DOMAIN vm[s].areas \ HeapKeys(s) :
         ~IsOverlap(vm[s].areas[k], vm[s].heap_end, addr)

SysBrk(s, addr) ==
    \/ /\ addr > vm[s].heap_end
       /\ Expandable(s, addr)
       /\ LET k == CHOOSE k \in HeapKeys(s) : \A j \in HeapKeys(s) : j <= k
          IN  vm' = [vm EXCEPT ![s].areas[k].end = addr, ![s].heap_end = addr]
       /\ UNCHANGED <<mem, cache, alive, halted>>
    \/ LET u == Unmap(vm[s], addr, vm[s].heap_end)
       IN  /\ addr # 0 /\ addr < vm[s].heap_end
           /\ IF u.ok
              THEN vm' = [vm EXCEPT ![s] = u.space] /\ UNCHANGED <<mem, cache, alive, halted>>
              ELSE Halt("panic")

\* The program stores x at an address whose entry allows it.
Store(s, addr, x) ==
    /\ Vpn(addr) \in DOMAIN vm[s].pt
    /\ vm[s].pt[Vpn(addr)].w
    /\ mem' = [mem EXCEPT ![vm[s].pt[Vpn(addr)].ppn] = x]
    /\ UNCHANGED <<vm, cache, alive, halted>>

\* find_vm_by_vaddr: the first area, by key, that contains the address.
Holders(s, addr) == {k \in DOMAIN vm[s].areas : IsContain(vm[s].areas[k], addr)}
HolderKey(s, addr) ==
    CHOOSE k \in Holders(s, addr) : \A j \in Holders(s, addr) : k <= j

\* VirtMemoryAddr::handle_page_fault: an area without a handler does nothing,
\* and the access is retried.
HasHandler(a) == a.type # "Elf"

\* A handler gives the area a page, then maps it.
MapFault(s, k, v, f, w) ==
    vm' = [vm EXCEPT ![s].areas[k].pages = Put(@, v, f),
                     ![s].pt = Put(@, v, [ppn |-> f, w |-> w])]

\* Handlers without a file: a fresh page; the stack and the heap are always
\* writable, an mmap area as it was asked for.
AnonFault(s, k, addr) ==
    /\ HasHandler(vm[s].areas[k]) /\ vm[s].areas[k].file = NoFile
    /\ IF Exhausted(Owned) \/ Vpn(addr) \in DOMAIN vm[s].pt
       THEN Halt("panic")
       ELSE LET f == AllocFrame(Owned)
            IN  /\ MapFault(s, k, Vpn(addr), f, vm[s].areas[k].type # "Mmap" \/ vm[s].areas[k].w)
                /\ mem' = Zeroed(mem, f)
                /\ UNCHANGED <<cache, alive, halted>>

\* MmapPageFaultHandler with a backing file: the page of its page cache.
FileFault(s, k, addr) ==
    LET a == vm[s].areas[k]
        n == (a.off + addr - a.start) \div PageSize
        cached == n \in DOMAIN cache[a.file]
        f == IF cached THEN cache[a.file][n] ELSE AllocFrame(Owned)
    IN  /\ HasHandler(a) /\ a.file # NoFile
        /\ IF (~cached /\ Exhausted(Owned)) \/ Vpn(addr) \in DOMAIN vm[s].pt
           THEN Halt("panic")
           ELSE /\ MapFault(s, k, Vpn(addr), f, a.w)
                /\ cache' = [cache EXCEPT ![a.file] = Put(@, n, f)]
                /\ mem' = [mem EXCEPT ![f] = IF cached THEN @ ELSE 1]
                /\ UNCHANGED <<alive, halted>>

\* user_trap_handler on a store that the page table does not allow.
PageFault(s, addr) ==
    /\ ~(Vpn(addr) \in DOMAIN vm[s].pt /\ vm[s].pt[Vpn(addr)].w)
    /\ \/ Holders(s, addr) = {} /\ Halt("panic")
       \/ /\ Holders(s, addr) # {}
          /\ \/ ~HasHandler(vm[s].areas[HolderKey(s, addr)]) /\ Halt("loop")
             \/ AnonFault(s, HolderKey(s, addr), addr)
             \/ FileFault(s, HolderKey(s, addr), addr)

\* VirtMemoryAddr::from_another: no pages and no backing file.
FromAnother(a) == [a EXCEPT !.pages = Empty, !.file = NoFile]

\* push_no_map inserts the copies under their starts; the last one wins.
Rekeyed(areas) ==
    LET keys(x) == {k \in DOMAIN areas : areas[k].start = x}
    IN  [x \in {areas[k].start : k \in DOMAIN areas} |-> areas[Max(keys(x))]]

\* MemorySet::from_user: copies every page of every area; a page that is not
\* mapped panics, and so does one in two areas.
FromUser(parent) ==
    LET area(acc, k) ==
            LET page(b, v) ==
                    IF v \in DOMAIN parent.pt
                    THEN MapOne(b, k, v, mem[parent.pt[v].ppn])
                    ELSE [b EXCEPT !.ok = FALSE]
            IN  Walk(page, [acc EXCEPT !.space.areas = Put(@, k, FromAnother(parent.areas[k]))],
                     VmaRange(parent.areas[k]))
        b == Walk(area,
                  Builder([NoSpace EXCEPT !.heap_end = parent.heap_end], mem, Owned),
                  DOMAIN parent.areas)
    IN  [b EXCEPT !.space.areas = Rekeyed(@)]

Fork(s, c) ==
    /\ c \notin alive
    /\ LET b == FromUser(vm[s])
       IN  IF b.ok
           THEN /\ vm' = [vm EXCEPT ![c] = b.space]
                /\ mem' = b.mem
                /\ alive' = alive \cup {c}
                /\ UNCHANGED <<cache, halted>>
           ELSE Halt("panic")

\* clear_user_space: LOW_LIMIT is 0.
ClearUserSpace(space) == Unmap(space, 0, UserLimit)

\* from_exec: clear_user_space, load_elf, build_stack.
Exec(s, image) ==
    LET u == ClearUserSpace(vm[s])
        rest == Owned \ FramesOf(vm[s])
        b == LoadElf(Builder(u.space, mem, rest \cup FilePages), image, 1)
    IN  IF u.ok /\ b.ok
        THEN /\ vm' = [vm EXCEPT ![s] = b.space]
             /\ mem' = b.mem
             /\ UNCHANGED <<cache, alive, halted>>
        ELSE Halt("panic")

\* The last Arc of the space goes with the reaped task.
Drop(s) ==
    /\ alive # {s}
    /\ alive' = alive \ {s}
    /\ vm' = [vm EXCEPT ![s] = NoSpace]
    /\ UNCHANGED <<mem, cache, halted>>

Next ==
    /\ Running
    /\ \E s \in alive :
         \/ \E c \in MmapCalls : SysMmap(s, c)
         \/ \E c \in FixedCalls : SysMmapFixed(s, c)
         \/ \E c \in UnmapCalls : SysMunmap(s, c)
         \/ \E a \in BrkAddrs : SysBrk(s, a)
         \/ \E a \in StoreAddrs : Store(s, a, 1)
         \/ \E a \in TouchAddrs : PageFault(s, a)
         \/ \E c \in Space : Fork(s, c)
         \/ \E i \in Images : Exec(s, i)
         \/ Drop(s)

Spec == Init /\ [][Next]_vars

(******************************** properties *********************************)
AreaSet == UNION {{<<s, k>> : k \in DOMAIN vm[s].areas} : s \in Space}
AreaAt(p) == vm[p[1]].areas[p[2]]
Mapped == UNION {{<<s, v>> : v \in DOMAIN vm[s].pt} : s \in Space}
FrameAt(m) == vm[m[1]].pt[m[2]].ppn

\* Areas are page aligned and hold frames; the tables map user pages to
\* frames; a space that does not exist is empty.
TypeOK ==
    /\ alive \subseteq Space
    /\ \A f \in Frame : mem[f] \in {0, 1}
    /\ \A p \in AreaSet :
         /\ IsAligned(AreaAt(p).start) /\ IsAligned(AreaAt(p).end)
         /\ AreaAt(p).start <= AreaAt(p).end
         /\ AreaAt(p).type \in {"Elf", "UserStack", "UserHeap", "Mmap"}
         /\ RangeOf(AreaAt(p).pages) \subseteq Frame
    /\ \A m \in Mapped : m[2] \in 0..Vpn(UserLimit) /\ FrameAt(m) \in Frame
    /\ \A s \in Space \ alive : vm[s] = NoSpace

\* No two areas of a space cover one page, whatever areas munmap, brk and
\* execve have shrunk, split or left behind (VmaRange::unmap, expand).
AreasDisjoint ==
    \A s \in Space : \A j, k \in DOMAIN vm[s].areas :
        j # k => VmaRange(vm[s].areas[j]) \cap VmaRange(vm[s].areas[k]) = {}

\* The area that covers a page holds the frame the page table maps there,
\* and the page table maps every frame an area holds: no entry outlives its
\* frame (page_fault.rs: the handler inserts the frame into the
\* "corresponding vma"; VirtMemoryAddr::unmap takes both away).
PteBacked ==
    \A s \in Space : \A v \in 0..Vpn(UserLimit) :
        LET covering == {k \in DOMAIN vm[s].areas : v \in VmaRange(vm[s].areas[k])}
            holding == {k \in DOMAIN vm[s].areas : v \in DOMAIN vm[s].areas[k].pages}
        IN  /\ holding \subseteq covering
            /\ v \in DOMAIN vm[s].pt <=> holding # {}
            /\ \A k \in holding : vm[s].areas[k].pages[v] = vm[s].pt[v].ppn

\* A program starts with the pages of its segments and its stack.
ImageViews ==
    LET pages(segs, base) ==
            [v \in UNION {Vpn(segs[i].start + base)..Vpn(segs[i].end - 1 + base)
                              : i \in DOMAIN segs} |->
               (CHOOSE i \in DOMAIN segs :
                  v \in Vpn(segs[i].start + base)..Vpn(segs[i].end - 1 + base))]
        data(segs, base) == [v \in DOMAIN pages(segs, base) |-> segs[pages(segs, base)[v]].data]
        stack(args) == [v \in Vpn(StackBottom)..(Vpn(StackTop) - 1) |-> args]
    IN  {data(i.segments, 0) @@ data(i.interp, InterpBase) @@ stack(args) :
            i \in Images \cup {BootImage}, args \in {0, 1}}

View == [s \in Space |->
    [v \in {v \in DOMAIN vm[s].pt : vm[s].pt[v].ppn \notin FilePages} |->
        mem[vm[s].pt[v].ppn]]]

AbstractMemory == INSTANCE Memory WITH
    Spaces <- Space, Vpns <- {Vpn(a) : a \in StoreAddrs}, Values <- {1},
    Images <- ImageViews, view <- View, born <- alive

\* The kernel implements private memories: a store, a fault, a call of one
\* process never changes what another sees, fresh pages are zero, the child
\* of a fork sees its parent's memory, a new program only its image.
ImplementsMemory == AbstractMemory!Spec
=============================================================================
