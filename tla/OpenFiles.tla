------------------------------ MODULE OpenFiles ------------------------------
(****************************************************************************)
(* What is read from and written to open files: Ext4MemFile and the pages   *)
(* of its PageCache (fs/ext4/ext4_file.rs, fs/page_cache.rs, mm/pma.rs),    *)
(* the files of tmpfs, devfs and procfs, and seeking (fs/file.rs).          *)
(*                                                                          *)
(* Every opening has a page cache of its own; only the size in the inode is *)
(* shared.  A page is filled from the disk by sectors, when a sector is     *)
(* first used.  Page::sync is called nowhere: the disk does not change.     *)
(* A call locks the file and is not suspended before its end: one step.     *)
(****************************************************************************)
EXTENDS Integers, Sequences

CONSTANTS
    Handle,       \* the openings
    Byte,         \* the values of a byte; 0 is one of them
    DiskFiles,    \* the contents of the files on the disk, a function to sequences
    Kind,         \* the class of every other file, a function to Kinds
    PageSizeBits, \* PAGE_SIZE is 2^PageSizeBits
    SectorSize,   \* SECTOR_SIZE
    Message,      \* the length of what meminfo and mounts hold
    Opens,        \* the openings made: [h, file, writes, append]
    Counts,       \* the lengths that programs read and write with
    Seeks,        \* the calls of lseek: [h, whence, offset]
    MaxPos        \* bound: programs stay below this position

Kinds == {"ext4", "tmpfs", "zero", "rtc", "cpu_dma_latency", "null", "tty", "urandom",
          "meminfo", "mounts", "directory"}
Files == DOMAIN DiskFiles \cup DOMAIN Kind
KindOf(f) == IF f \in DOMAIN DiskFiles THEN "ext4" ELSE Kind[f]
PageSize == 2^PageSizeBits
Sectors == 0..(PageSize \div SectorSize - 1)

ASSUME ByteAssumption == 0 \in Byte /\ Byte \subseteq Nat
ASSUME SizeAssumption ==
    /\ PageSizeBits \in Nat /\ PageSize \in Nat \ {0}
    /\ SectorSize \in Nat \ {0} /\ PageSize % SectorSize = 0
    /\ Message \in Nat /\ MaxPos \in Nat /\ Message <= MaxPos
    /\ Counts \subseteq Nat \ {0}
ASSUME FileAssumption ==
    /\ \A f \in DOMAIN DiskFiles : DiskFiles[f] \in Seq(Byte) /\ Len(DiskFiles[f]) <= MaxPos
    /\ \A f \in DOMAIN Kind : Kind[f] \in Kinds \ {"ext4"}
    /\ "none" \notin Files
ASSUME CallAssumption ==
    /\ \A x \in Opens : x.h \in Handle /\ x.file \in Files /\ x.writes \in BOOLEAN /\ x.append \in BOOLEAN
    /\ \A to \in Seeks : to.h \in Handle /\ to.offset \in Int /\ to.whence \in {"start", "current", "end"}

VARIABLES
    size,     \* i_size of every inode
    open,     \* Handle -> the file, the flags, f_pos, the page cache
    result,   \* what the last call returned: [call, h, at, bytes]
    halted,   \* why the kernel stopped, or "no"
    mine      \* history: what was written through an opening, by offset

files == <<size, open>>
vars == <<size, open, result, halted, mine>>

Closed == [file |-> "none"]
IsOpen(h) == open[h].file # "none"
Smaller(a, b) == IF a <= b THEN a ELSE b
Larger(a, b) == IF a <= b THEN b ELSE a

NoBytes == [o \in {} |-> 0]
NoResult == [call |-> "none", h |-> "none", at |-> 0, bytes |-> <<>>]

------------------------------------------------------------------------------
\* mm/pma.rs.  A page is its data and the state of its sectors.
NewPage == [data |-> [o \in 0..(PageSize - 1) |-> 0], state |-> [s \in Sectors |-> "Empty"]]

\* v >> n.
ShiftRight(v, n) ==
    LET half[i \in 0..n] == IF i = 0 THEN v ELSE half[i - 1] \div 2
    IN  half[n]

\* page_num_offset >> PAGE_SIZE_BITS + idx * SECTOR_SIZE: the sum binds
\* tighter, and the shift takes its amount modulo 64.
SectorOffset(page, s) == ShiftRight(page, (PageSizeBits + s * SectorSize) % 64)

\* Ext4Inode::read into the sectors of S: what the disk has from there, the
\* rest of a sector is left.
FromDisk(data, f, page, S) ==
    [o \in DOMAIN data |->
        LET s == o \div SectorSize
            at == SectorOffset(page, s) + (o % SectorSize)
        IN  IF s \in S /\ at < Len(DiskFiles[f]) THEN DiskFiles[f][at + 1] ELSE data[o]]

\* Mutant: a sector is read from the disk again whenever it is used.
LoadAgain(pg, f, page, S, state) ==
    [data |-> FromDisk(pg.data, f, page, S),
     state |-> [s \in Sectors |-> IF s \in S THEN state ELSE pg.state[s]]]

\* The loop of Page::read and Page::write over the sectors S: an empty one is
\* filled, a dirty one stays dirty.
Load(pg, f, page, S, state) ==
    [data |-> FromDisk(pg.data, f, page, {s \in S : pg.state[s] = "Empty"}),
     state |-> [s \in Sectors |->
                   IF s \in S /\ pg.state[s] # "Dirty" THEN state ELSE pg.state[s]]]

\* The sectors of a page that lie in the bytes from..(to - 1) of the file.
Touched(page, from, to) ==
    {s \in Sectors : \E o \in from..(to - 1) :
        o \div PageSize = page /\ (o % PageSize) \div SectorSize = s}

\* find_page_and_create, and the loop of read and write over the pages.
WithPages(pages, f, from, to, state) ==
    LET touched == {o \div PageSize : o \in from..(to - 1)}
    IN  [p \in DOMAIN pages \cup touched |->
            LET pg == IF p \in DOMAIN pages THEN pages[p] ELSE NewPage
            IN  IF p \in touched THEN Load(pg, f, p, Touched(p, from, to), state) ELSE pg]

At(pages, o) == pages[o \div PageSize].data[o % PageSize]

Stored(pages, from, bytes) ==
    [p \in DOMAIN pages |-> [pages[p] EXCEPT !.data =
        [o \in DOMAIN @ |->
            LET i == p * PageSize + o - from + 1
            IN  IF i \in DOMAIN bytes THEN bytes[i] ELSE @[o]]]]

------------------------------------------------------------------------------
Init ==
    /\ size = [f \in Files |-> IF f \in DOMAIN DiskFiles THEN Len(DiskFiles[f]) ELSE 0]
    /\ open = [h \in Handle |-> Closed]
    /\ result = NoResult
    /\ halted = "no"
    /\ mine = [h \in Handle |-> NoBytes]

Runs(h) == halted = "no" /\ IsOpen(h)

Halt(why) ==
    /\ halted' = why
    /\ UNCHANGED <<files, result, mine>>

\* open of a dentry; O_APPEND puts the position at the end, once.
Open(h, f, writes, append) ==
    /\ halted = "no" /\ ~IsOpen(h)
    /\ open' = [open EXCEPT ![h] =
            [file |-> f, writes |-> writes, append |-> append,
             pos |-> IF append THEN size[f] ELSE 0,
             pages |-> [p \in {} |-> NewPage]]]
    /\ result' = NoResult
    /\ UNCHANGED <<size, halted, mine>>

Close(h) ==
    /\ Runs(h)
    /\ open' = [open EXCEPT ![h] = Closed]
    /\ mine' = [mine EXCEPT ![h] = NoBytes]
    /\ result' = NoResult
    /\ UNCHANGED <<size, halted>>

Returns(call, h, at, bytes) ==
    result' = [call |-> call, h |-> h, at |-> at, bytes |-> bytes]

\* Ext4MemFile::read: up to the end of the file or of the buffer.
ReadExt4(h, n) ==
    LET x == open[h]
        end == Smaller(x.pos + n, Larger(size[x.file], x.pos))
        pages == WithPages(x.pages, x.file, x.pos, end, "Sync")
    IN  /\ open' = [open EXCEPT ![h].pages = pages, ![h].pos = end]
        /\ Returns("read", h, x.pos, [i \in 1..(end - x.pos) |-> At(pages, x.pos + i - 1)])
        /\ UNCHANGED halted

\* MemInfoFile::read.  message.len() - f_pos wraps, and the slice panics.
ReadMeminfo(h, n) ==
    LET x == open[h]
        len == Smaller(Message - x.pos, n)
    IN  IF x.pos > Message
        THEN halted' = "slice" /\ UNCHANGED <<open, result>>
        ELSE /\ open' = [open EXCEPT ![h].pos = x.pos + len]
             /\ Returns("read", h, x.pos, [i \in 1..len |-> 0])
             /\ UNCHANGED halted

\* MountsFile::read.  f_pos is not stored, and a buffer shorter than the
\* message panics.
ReadMounts(h, n) ==
    IF open[h].pos < Message /\ n < Message
    THEN halted' = "slice" /\ UNCHANGED <<open, result>>
    ELSE /\ Returns("read", h, 0, IF open[h].pos < Message THEN [i \in 1..Message |-> 0] ELSE <<>>)
         /\ UNCHANGED <<open, halted>>

\* The devices.  A read of /dev/urandom draws from the generator.
Zeros(n) == {[i \in 1..n |-> 0]}
ReadZero(n) == Zeros(n)
ReadRtc(n) == Zeros(n)
ReadCpuDma(n) == Zeros(n)
ReadNull(n) == {<<>>}
ReadTty(n) == {<<>>}
ReadUrandom(n) == [1..n -> Byte]

\* SimpleFile asks for a page without an inode and gets none: end of file.
ReadSimple(n) == {<<>>}

ReadDevice(f, n) ==
    CASE KindOf(f) = "zero" -> ReadZero(n)
      [] KindOf(f) = "rtc" -> ReadRtc(n)
      [] KindOf(f) = "cpu_dma_latency" -> ReadCpuDma(n)
      [] KindOf(f) = "null" -> ReadNull(n)
      [] KindOf(f) = "tty" -> ReadTty(n)
      [] KindOf(f) = "urandom" -> ReadUrandom(n)
      [] KindOf(f) = "tmpfs" -> ReadSimple(n)

\* sys_read.  A directory's size is 0.
Read(h, n) ==
    /\ Runs(h)
    /\ CASE KindOf(open[h].file) = "ext4" -> ReadExt4(h, n)
         [] KindOf(open[h].file) = "meminfo" -> ReadMeminfo(h, n)
         [] KindOf(open[h].file) = "mounts" -> ReadMounts(h, n)
         [] KindOf(open[h].file) = "directory" ->
              Returns("read", h, 0, <<>>) /\ UNCHANGED <<open, halted>>
         [] OTHER -> /\ \E bytes \in ReadDevice(open[h].file, n) : Returns("read", h, 0, bytes)
                     /\ UNCHANGED <<open, halted>>
    /\ UNCHANGED <<size, mine>>

\* Ext4MemFile::write.
WriteExt4(h, bytes) ==
    LET x == open[h]
        end == x.pos + Len(bytes)
        pages == WithPages(x.pages, x.file, x.pos, end, "Dirty")
    IN  /\ open' = [open EXCEPT ![h].pages = Stored(pages, x.pos, bytes), ![h].pos = end]
        /\ size' = [size EXCEPT ![x.file] = Larger(@, end)]
        /\ mine' = [mine EXCEPT ![h] =
                [o \in DOMAIN @ \cup x.pos..(end - 1) |->
                    IF o < x.pos \/ o >= end THEN @[o] ELSE bytes[o - x.pos + 1]]]

\* sys_write.  is_readable holds of all flags, is_writable does not.  Devices
\* take everything and keep nothing, SimpleFile takes nothing, procfs refuses;
\* a directory's inode cannot be read, and the page is filled from it first.
Write(h, bytes) ==
    /\ Runs(h) /\ open[h].writes
    /\ open[h].pos + Len(bytes) <= MaxPos
    /\ CASE KindOf(open[h].file) = "ext4" -> WriteExt4(h, bytes) /\ UNCHANGED halted
         [] KindOf(open[h].file) = "directory" ->
              halted' = "inode" /\ UNCHANGED <<files, mine>>
         [] OTHER -> UNCHANGED <<files, mine, halted>>
    /\ result' = NoResult

\* seek: a position before the start is refused, one after the end is not.
SeekTo(h, to) ==
    CASE to.whence = "start" -> to.offset
      [] to.whence = "current" -> open[h].pos + to.offset
      [] to.whence = "end" -> size[open[h].file] + to.offset

\* Mutant: a position before the start is not refused.
LseekUnchecked(h, to) ==
    /\ Runs(h)
    /\ SeekTo(h, to) <= MaxPos
    /\ open' = [open EXCEPT ![h].pos = SeekTo(h, to)]
    /\ result' = NoResult
    /\ UNCHANGED <<size, halted, mine>>

\* sys_lseek.
Lseek(h, to) ==
    /\ Runs(h)
    /\ SeekTo(h, to) \in 0..MaxPos
    /\ open' = [open EXCEPT ![h].pos = SeekTo(h, to)]
    /\ result' = NoResult
    /\ UNCHANGED <<size, halted, mine>>

\* truncate of Ext4MemFile and of File.  seek locks what truncate holds; a
\* longer file needs a buffer of old_file_size - new_size bytes.  The devices
\* are refused.
Ftruncate(h, new) ==
    /\ Runs(h)
    /\ KindOf(open[h].file) \in {"ext4", "tmpfs", "directory"}
    /\ Halt(IF new > size[open[h].file] THEN "capacity" ELSE "deadlock")

\* Ext4MemFile::read_all, with which the dynamic linker is loaded.  Every
\* page is copied to the start of the buffer.
ReadAll(h) ==
    /\ Runs(h) /\ KindOf(open[h].file) = "ext4"
    /\ LET x == open[h]
           n == (size[x.file] + PageSize - 1) \div PageSize
           pages == WithPages(x.pages, x.file, 0, n * PageSize, "Sync")
       IN  /\ open' = [open EXCEPT ![h].pages = pages]
           /\ Returns("read_all", h, 0, [i \in 1..(n * PageSize) |->
                    IF i <= PageSize THEN At(pages, (n - 1) * PageSize + i - 1) ELSE 0])
    /\ UNCHANGED <<size, halted, mine>>

Halted == halted # "no" /\ UNCHANGED vars

Next ==
    \/ \E x \in Opens : Open(x.h, x.file, x.writes, x.append)
    \/ \E h \in Handle : Close(h) \/ ReadAll(h)
    \/ \E h \in Handle, n \in Counts : Read(h, n)
    \/ \E h \in Handle, n \in Counts : \E bytes \in [1..n -> Byte \ {0}] : Write(h, bytes)
    \/ \E to \in Seeks : Lseek(to.h, to)
    \/ \E h \in Handle, n \in Counts : Ftruncate(h, n)
    \/ Halted

Spec == Init /\ [][Next]_vars

------------------------------------------------------------------------------
\* Every page belongs to an open file of the disk, its bytes are bytes and no
\* position is past the bound of the programs.
TypeOK ==
    /\ size \in [Files -> 0..MaxPos]
    /\ halted \in {"no", "slice", "inode", "deadlock", "capacity"}
    /\ \A h \in Handle : IsOpen(h) =>
          /\ open[h].file \in Files /\ open[h].pos \in 0..MaxPos
          /\ \A p \in DOMAIN open[h].pages :
                /\ KindOf(open[h].file) = "ext4" /\ p \in 0..(MaxPos \div PageSize)
                /\ open[h].pages[p].data \in [0..(PageSize - 1) -> Byte]
                /\ open[h].pages[p].state \in [Sectors -> {"Empty", "Sync", "Dirty"}]

\* A read gives back what was last written through the same opening, whatever
\* was read, sought, or written elsewhere in between: a sector that is filled
\* from the disk late does not cover what a write put into its page
\* (Page::read, Page::write, find_page_and_create).
OwnWritesReadBack ==
    result.call = "read" =>
        \A i \in DOMAIN result.bytes :
            LET o == result.at + i - 1
            IN  o \in DOMAIN mine[result.h] => result.bytes[i] = mine[result.h][o]

\* A byte of a file that was not written is read as the disk has it: "the
\* position in the file is the page's start in the file plus the block's start
\* in the page" (Page::read).
FileContents ==
    result.call = "read" =>
        \A i \in DOMAIN result.bytes :
            LET o == result.at + i - 1
                f == open[result.h].file
            IN  (KindOf(f) = "ext4" /\ o < Len(DiskFiles[f]) /\ o \notin DOMAIN mine[result.h])
                    => result.bytes[i] = DiskFiles[f][o + 1]
==============================================================================
