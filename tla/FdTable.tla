------------------------------- MODULE FdTable -------------------------------
(****************************************************************************)
(* File descriptor tables: the table and the bitmap allocator of            *)
(* fs/fd_table.rs, the system calls that change them (openat, dup, dup3,    *)
(* close, pipe2, clone with and without CLONE_FILES, execve, the end of a   *)
(* task), and the open and link counts that decide when an ext4 file is     *)
(* removed.                                                                 *)
(*                                                                          *)
(* Every call runs under the lock of the one table it uses and does not     *)
(* suspend while it holds it, so each is one step.                          *)
(****************************************************************************)
EXTENDS Integers, FiniteSets

CONSTANTS
    Task,        \* tasks
    Root,        \* the task that exists from the start
    Table,       \* the places a table can be allocated at
    NoTable,     \* the task does not exist
    Inode,       \* regular files of the ext4 file system
    MaxFd,       \* MAX_FD
    NewFds,      \* the values of dup3's newfd that programs use
    OpenAccess,  \* the access modes that programs open files with
    CountLimit   \* i_open_count is a number below CountLimit and wraps

ASSUME TaskAssumption == Root \in Task /\ NoTable \notin Table /\ Table # {}
ASSUME FdAssumption == MaxFd \in Nat /\ MaxFd > 3 /\ NewFds \subseteq Nat
ASSUME AccessAssumption == OpenAccess \subseteq {"r", "w", "rw"}
ASSUME CountAssumption == CountLimit \in Nat \ {0, 1}
ASSUME FileAssumption ==
    Inode \cap {"stdin", "stdout", "stderr", "pipe_read", "pipe_write"} = {}

VARIABLES
    tableOf,     \* PCB.fd_table: the table of a task
    entry,       \* FdTable.fd_table, a partial map from descriptors
    free,        \* the set bits of FdTable.fd_allocator
    opens,       \* i_open_count of an inode
    links,       \* i_link_count of an inode
    removed,     \* the inodes lwext4_rmfile was called for
    halted       \* why the kernel panicked, or "no"

files == <<opens, links, removed>>
vars == <<tableOf, entry, free, files, halted>>

Fds == 0..(MaxFd - 1)
Files == Inode \cup {"stdin", "stdout", "stderr", "pipe_read", "pipe_write"}
Stdio == {"stdin", "stdout", "stderr"}

\* FdInfo: the file, and of its OpenFlags the access mode and O_CLOEXEC.
FdInfos == [file : Files, access : {"r", "w", "rw"}, cloexec : BOOLEAN]
FdInfo(f, a, c) == [file |-> f, access |-> a, cloexec |-> c]

NoEntry == [fd \in {} |-> FdInfo("stdin", "r", FALSE)]
Open(t, fd) == fd \in DOMAIN entry[t]

\* HashMap::insert and HashMap::remove.
Insert(e, fd, info) ==
    [x \in DOMAIN e \cup {fd} |-> IF x = fd THEN info ELSE e[x]]
Remove(e, fds) == [x \in DOMAIN e \ fds |-> e[x]]

\* The bitmap allocator hands out its lowest set bit.
LowestFd(S) == CHOOSE x \in S : \A y \in S : x <= y

\* init_fdtable: standard input, output and error; the bits 3..MAX_FD.
InitEntries ==
    [fd \in 0..2 |-> CASE fd = 0 -> FdInfo("stdin", "r", FALSE)
                       [] fd = 1 -> FdInfo("stdout", "w", FALSE)
                       [] fd = 2 -> FdInfo("stderr", "w", FALSE)]

InitFree == 3..(MaxFd - 1)

RootTable == CHOOSE t \in Table : TRUE

Init ==
    /\ tableOf = [k \in Task |-> IF k = Root THEN RootTable ELSE NoTable]
    /\ entry = [t \in Table |-> IF t = RootTable THEN InitEntries ELSE NoEntry]
    /\ free = [t \in Table |-> IF t = RootTable THEN InitFree ELSE {}]
    /\ opens = [i \in Inode |-> 0]
    /\ links = [i \in Inode |-> 1]
    /\ removed = {}
    /\ halted = "no"

\* A task that can make a system call, and its table.
Runs(k, t) == halted = "no" /\ tableOf[k] = t /\ t \in Table

Panic(why) ==
    /\ halted' = why
    /\ UNCHANGED <<tableOf, entry, free, files>>

\* The call returns an error and changes nothing.
Fails == UNCHANGED vars

------------------------------------------------------------------------------
\* insert_get_fd and the successful branch of insert_spec_fd: the bit is
\* cleared, the entry made.
InsertFd(t, fd, info) ==
    /\ entry' = [entry EXCEPT ![t] = Insert(@, fd, info)]
    /\ free' = [free EXCEPT ![t] = @ \ {fd}]

\* sys_openat of an existing file.  The inode counts the opening before the
\* table is asked for a descriptor.
SysOpenat(k, t, i, a, c) ==
    /\ Runs(k, t)
    /\ links[i] > 0
    /\ opens' = [opens EXCEPT ![i] = (@ + 1) % CountLimit]
    /\ IF free[t] = {}
       THEN UNCHANGED <<entry, free>>
       ELSE InsertFd(t, LowestFd(free[t]), FdInfo(i, a, c))
    /\ UNCHANGED <<tableOf, links, removed, halted>>

SysDup(k, t, old) ==
    /\ Runs(k, t)
    /\ IF Open(t, old) /\ free[t] # {}
       THEN /\ InsertFd(t, LowestFd(free[t]),
                        [entry[t][old] EXCEPT !.cloexec = FALSE])
            /\ UNCHANGED <<tableOf, files, halted>>
       ELSE Fails

\* sys_dup3.  test_fd refuses a newfd above MAX_FD but lets MAX_FD through,
\* and the bitmap panics on it.  A newfd in use is closed in the table only
\* (File::close is not called), and gets the raw flags argument, whose access
\* bits are O_RDONLY; the second insert_spec_fd finds the bit that close has
\* just set.
SysDup3(k, t, old, new, c) ==
    /\ Runs(k, t)
    /\ IF old = new \/ ~Open(t, old) \/ new > MaxFd THEN Fails
       ELSE IF new = MaxFd THEN Panic("range")
       ELSE /\ InsertFd(t, new,
                 IF new \in free[t]
                 THEN [entry[t][old] EXCEPT !.cloexec = c]
                 ELSE FdInfo(entry[t][old].file, "r", c))
            /\ UNCHANGED <<tableOf, files, halted>>

\* OpenFlags::from_bits(flags).unwrap() on bits that are no flag.
Dup3UnknownFlags(k, t, old) ==
    /\ Runs(k, t)
    /\ Open(t, old)
    /\ Panic("flags")

\* Mutant: FdTable::close forgets the allocator.
CloseKeepsBit(t, fds) ==
    /\ entry' = [entry EXCEPT ![t] = Remove(@, fds)]
    /\ UNCHANGED <<free, halted>>

\* FdTable::close for each of fds; BitAlloc16::dealloc asserts that the bit
\* is not set.
CloseFds(t, fds) ==
    /\ entry' = [entry EXCEPT ![t] = Remove(@, fds)]
    /\ free' = [free EXCEPT ![t] = @ \cup fds]
    /\ halted' = IF fds \cap free[t] # {} THEN "assert" ELSE halted

\* File::close of an ext4 file: one opening less, and the file goes when
\* neither an opening nor a link is counted.
CountClose(i) ==
    /\ opens' = [opens EXCEPT ![i] = (@ - 1) % CountLimit]
    /\ removed' = IF links[i] = 0 /\ opens'[i] = 0
                  THEN removed \cup {i} ELSE removed
    /\ UNCHANGED links

\* sys_close.  The default File::close of a standard stream asks for its
\* metadata, which is todo!(); that of a pipe finds its inode gone.
SysClose(k, t, fd) ==
    /\ Runs(k, t)
    /\ IF ~Open(t, fd) THEN Fails
       ELSE IF entry[t][fd].file \in Stdio THEN Panic("todo")
       ELSE /\ CloseFds(t, {fd})
            /\ IF entry[t][fd].file \in Inode
               THEN CountClose(entry[t][fd].file)
               ELSE UNCHANGED files
            /\ UNCHANGED tableOf

\* sys_pipe2.  When only one descriptor is left, the read end keeps it and
\* the call fails.
SysPipe2(k, t, c) ==
    /\ Runs(k, t)
    /\ LET r == LowestFd(free[t])
           w == LowestFd(free[t] \ {r})
           one == Insert(entry[t], r, FdInfo("pipe_read", "r", c))
           both == Insert(one, w, FdInfo("pipe_write", "w", c))
       IN  CASE free[t] = {} -> UNCHANGED <<entry, free>>
             [] free[t] # {} /\ free[t] \ {r} = {} ->
                  /\ entry' = [entry EXCEPT ![t] = one]
                  /\ free' = [free EXCEPT ![t] = {}]
             [] free[t] # {} /\ free[t] \ {r} # {} ->
                  /\ entry' = [entry EXCEPT ![t] = both]
                  /\ free' = [free EXCEPT ![t] = @ \ {r, w}]
    /\ UNCHANGED <<tableOf, files, halted>>

\* sys_read.  is_readable asks whether the flags contain O_RDONLY, which is
\* 0 and contained in all flags, so the call always reaches the file.
SysRead(k, t, fd) ==
    /\ Runs(k, t)
    /\ IF ~Open(t, fd) THEN Fails
       ELSE IF entry[t][fd].file \in {"stdout", "stderr"} THEN Panic("todo")
       ELSE IF entry[t][fd].file = "pipe_write" THEN Panic("wrong end")
       ELSE UNCHANGED vars

\* sys_write.
SysWrite(k, t, fd) ==
    /\ Runs(k, t)
    /\ IF ~Open(t, fd) \/ entry[t][fd].access = "r" THEN Fails
       ELSE IF entry[t][fd].file \in {"stdin", "stderr"} THEN Panic("todo")
       ELSE IF entry[t][fd].file = "pipe_read" THEN Panic("wrong end")
       ELSE UNCHANGED vars

\* Ext4Dentry::unlink of a regular file.
SysUnlinkat(k, t, i) ==
    /\ Runs(k, t)
    /\ links[i] > 0
    /\ links' = [links EXCEPT ![i] = @ - 1]
    /\ removed' = IF links'[i] = 0 /\ opens[i] = 0
                  THEN removed \cup {i} ELSE removed
    /\ UNCHANGED <<tableOf, entry, free, opens, halted>>

------------------------------------------------------------------------------
\* sys_clone with CLONE_FILES: the Arc of the table is cloned.
CloneShared(k, t, new) ==
    /\ Runs(k, t)
    /\ tableOf[new] = NoTable
    /\ tableOf' = [tableOf EXCEPT ![new] = t]
    /\ UNCHANGED <<entry, free, files, halted>>

Unused(t) == \A k \in Task : tableOf[k] # t

\* The descriptors that from_clone_copy takes over.
Copies(e) == {fd \in DOMAIN e : fd >= 3}

\* sys_clone without CLONE_FILES: from_clone_copy.  The new table starts as
\* init_fdtable, and asserts that the bit of each copied descriptor is set.
CloneCopy(k, t, new, copy) ==
    /\ Runs(k, t)
    /\ tableOf[new] = NoTable
    /\ Unused(copy)
    /\ IF Copies(entry[t]) \subseteq InitFree
       THEN /\ tableOf' = [tableOf EXCEPT ![new] = copy]
            /\ entry' = [entry EXCEPT ![copy] =
                  [fd \in 0..2 \cup Copies(entry[t]) |->
                      IF fd < 3 THEN InitEntries[fd] ELSE entry[t][fd]]]
            /\ free' = [free EXCEPT ![copy] = InitFree \ Copies(entry[t])]
            /\ UNCHANGED <<files, halted>>
       ELSE Panic("assert")

CloexecFds(t) == {fd \in DOMAIN entry[t] : entry[t][fd].cloexec}

\* sys_execve: close_exec on the table the task has, shared or not; File::close
\* is not called.
SysExecve(k, t) ==
    /\ Runs(k, t)
    /\ CloseFds(t, CloexecFds(t))
    /\ UNCHANGED <<tableOf, files>>

\* The PCB of a task that exited is dropped, and its table with the last
\* task that has it; File::close is not called for the entries.
DropTask(k, t) ==
    /\ Runs(k, t)
    /\ k # Root
    /\ tableOf' = [tableOf EXCEPT ![k] = NoTable]
    /\ IF \E u \in Task \ {k} : tableOf[u] = t
       THEN UNCHANGED <<entry, free>>
       ELSE /\ entry' = [entry EXCEPT ![t] = NoEntry]
            /\ free' = [free EXCEPT ![t] = {}]
    /\ UNCHANGED <<files, halted>>

Next ==
    \E k \in Task, t \in Table :
        \/ \E i \in Inode, a \in OpenAccess, c \in BOOLEAN : SysOpenat(k, t, i, a, c)
        \/ \E old \in Fds : SysDup(k, t, old)
        \/ \E old \in Fds, new \in NewFds, c \in BOOLEAN : SysDup3(k, t, old, new, c)
        \/ \E old \in Fds : Dup3UnknownFlags(k, t, old)
        \/ \E fd \in Fds : SysClose(k, t, fd) \/ SysRead(k, t, fd) \/ SysWrite(k, t, fd)
        \/ \E c \in BOOLEAN : SysPipe2(k, t, c)
        \/ \E i \in Inode : SysUnlinkat(k, t, i)
        \/ \E new \in Task : CloneShared(k, t, new)
        \/ \E new \in Task, copy \in Table : CloneCopy(k, t, new, copy)
        \/ SysExecve(k, t)
        \/ DropTask(k, t)

Spec == Init /\ [][Next]_vars

------------------------------------------------------------------------------
TypeOK ==
    /\ tableOf \in [Task -> Table \cup {NoTable}]
    /\ DOMAIN entry = Table
    /\ \A t \in Table : /\ DOMAIN entry[t] \subseteq Fds
                         /\ \A fd \in DOMAIN entry[t] : entry[t][fd] \in FdInfos
    /\ free \in [Table -> SUBSET Fds]
    /\ opens \in [Inode -> 0..(CountLimit - 1)]
    /\ links \in [Inode -> 0..1]
    /\ removed \subseteq Inode
    /\ halted \in {"no", "assert", "todo", "range", "wrong end", "flags"}

\* The table and its allocator agree after any sequence of calls by any of
\* the tasks that share it: a descriptor is either in the table or free, so
\* none is handed out twice and none is lost.
AllocatorInv ==
    \A t \in Table :
        IF Unused(t) THEN DOMAIN entry[t] = {} /\ free[t] = {}
        ELSE DOMAIN entry[t] = Fds \ free[t]

\* None of the assertions about the allocator fails: not dealloc's that the
\* bit is clear, not from_clone_copy's that it is set.
NoAssertFails == halted # "assert"
==============================================================================
