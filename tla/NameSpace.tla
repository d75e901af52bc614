------------------------------ MODULE NameSpace ------------------------------
(****************************************************************************)
(* Names of files: path strings (utils/path.rs), the tree of dentries and   *)
(* DENTRY_CACHE (fs/dentry.rs), the dentries of ext4 and of the file        *)
(* systems in memory, mounting (fs/file_system.rs), and the system calls    *)
(* that look names up, make them and take them away (syscall/fs.rs).        *)
(*                                                                          *)
(* A path string is the sequence of its parts: "/" is <<>>, "/a/b" is       *)
(* <<"a", "b">>, and a slash at the end leaves an empty last part, so       *)
(* "/a/" is <<"a", "">>.  The cache is keyed by the string, as in the code. *)
(*                                                                          *)
(* The ext4 library is external.  The disk is a map from names to the       *)
(* objects they name; a directory is removed with what is left in it.       *)
(* Every call runs to its end without being suspended: it is one step.      *)
(****************************************************************************)
EXTENDS Integers, FiniteSets, Sequences, SequencesExt, FiniteSetsExt

CONSTANTS
    Process,      \* processes that make calls, each with a working directory
    Handle,       \* open files at a time
    DiskTree,     \* what the disk holds at boot: names to "Regular" or "Directory"
    Devices,      \* the files that devfs makes: names to the mode of the inode
    OpenCalls,    \* arguments of openat: [path, creat, excl, trunc, directory]
    MkdirPaths,   \* argument of mkdirat
    UnlinkCalls,  \* arguments of unlinkat: [path, removedir]
    LinkCalls,    \* arguments of linkat: [old, new]
    SymlinkPaths, \* argument of symlinkat
    RenameCalls,  \* arguments of renameat2: [old, new]
    MountCalls,   \* arguments of mount: [source, target, type]
    ChdirPaths    \* argument of chdir and readlinkat

VARIABLES
    vfs,          \* [dentry, inode, cache, manager, disk], see Init
    cwd,          \* PCBInner.cwd
    handle,       \* the open files: a dentry or NoDentry
    halted        \* why the kernel stopped, or "no"

vars == <<vfs, cwd, handle, halted>>

NoDentry == <<>>
Empty == <<>>
Without(f, x) == [y \in DOMAIN f \ {x} |-> f[y]]
Put(f, x, v) == [y \in DOMAIN f \cup {x} |-> IF y = x THEN v ELSE f[y]]

------------------------------------------------------------------------------
\* utils/path.rs.  A path argument is [abs, parts]: the parts of a relative
\* path may be "." and "..".
EndsWithSlash(p) == p # <<>> /\ Last(p) = ""

Names(p) == SelectSeq(p, LAMBDA n : n # "")

DentryName(p) == IF Names(p) = <<>> THEN "" ELSE Last(Names(p))

ParentPath(p) == IF Names(p) = <<>> THEN <<>> ELSE Front(Names(p))

NoSlash(p) == IF EndsWithSlash(p) THEN Front(p) ELSE p

CwdAndName(n, dir) == NoSlash(dir) \o <<n>>

\* trim_start_matches takes all leading "./" and "../" away.
RECURSIVE FormatRelPath(_)
FormatRelPath(r) ==
    IF r # <<>> /\ Head(r) \in {".", ".."} THEN FormatRelPath(Tail(r)) ELSE r

\* dirfd_and_path and cwd_and_path: "../x" starts from the parent directory,
\* once; "." and ".." leave the directory with a slash at its end.
CwdAndPath(r, dir) ==
    LET start == IF Len(r) > 1 /\ Head(r) = ".." THEN ParentPath(dir) ELSE NoSlash(dir)
        rest == FormatRelPath(r)
    IN  IF rest # <<>> THEN start \o rest
        ELSE IF start = <<>> THEN start ELSE start \o <<"">>

\* ptr_and_dirfd_to_path: an absolute path is taken as it is.
ToPath(dir, a) == IF a.abs THEN a.parts ELSE CwdAndPath(Names(a.parts), dir)

\* sys_chdir formats the path first: "/" becomes "", a relative path.
ChdirPath(dir, a) ==
    IF a.abs /\ Names(a.parts) # <<>> THEN Names(a.parts)
    ELSE CwdAndPath(Names(a.parts), dir)

------------------------------------------------------------------------------
\* Dentries and inodes.  They are named by the path they were made for and a
\* number that tells them from older ones still referred to (a Weak parent
\* pointer keeps the memory of its dentry from being used again).
Roots(v, h) ==
    {v.cache[p] : p \in DOMAIN v.cache}
        \cup {v.manager[p] : p \in DOMAIN v.manager} \cup {h[x] : x \in Handle}

Children(v, d) == {v.dentry[d].child[n] : n \in DOMAIN v.dentry[d].child}

RECURSIVE Reachable(_, _)
Reachable(v, S) ==
    LET T == S \cup UNION {Children(v, d) : d \in S}
    IN  IF T = S THEN S ELSE Reachable(v, T)

\* Mutant: an open file does not hold its dentry.
CollectOpen(v, h) ==
    LET live == Reachable(v, Roots(v, [x \in Handle |-> NoDentry]) \ {NoDentry})
    IN  [v EXCEPT !.dentry = [d \in live |-> v.dentry[d]],
                  !.inode = [i \in {v.dentry[d].inode : d \in live} |-> v.inode[i]]]

\* The dentries and inodes whose last Arc is gone are dropped.
Collect(v, h) ==
    LET live == Reachable(v, Roots(v, h) \ {NoDentry})
    IN  [v EXCEPT !.dentry = [d \in live |-> v.dentry[d]],
                  !.inode = [i \in {v.dentry[d].inode : d \in live} |-> v.inode[i]]]

InUse(v) ==
    DOMAIN v.dentry \cup DOMAIN v.inode \cup {v.dentry[d].parent : d \in DOMAIN v.dentry}
        \cup {v.disk[p].object : p \in DOMAIN v.disk}
        \cup {v.inode[i].object : i \in DOMAIN v.inode}

Fresh(v, p) == <<Names(p), Min({k \in 0..Cardinality(InUse(v)) : <<Names(p), k>> \notin InUse(v)})>>

\* DentryMeta::new.
NewDentry(fs, n, p, i, parent) ==
    [fs |-> fs, name |-> n, path |-> p, inode |-> i, parent |-> parent, child |-> Empty]

\* InodeMeta::new; object is the ext4 file or directory that was opened.
NewInode(mode, object) == [mode |-> mode, links |-> 1, opens |-> 0, object |-> object]

Mode(v, d) == v.inode[v.dentry[d].inode].mode


------------------------------------------------------------------------------
\* The ext4 library.
OnDisk(v, p) == Names(p) \in DOMAIN v.disk

DiskDir(v, p) == Names(p) = <<>> \/ (OnDisk(v, p) /\ v.disk[Names(p)].type = "Directory")

CanMake(v, p) == ~OnDisk(v, p) /\ DiskDir(v, ParentPath(p))

Make(v, p, type, object) ==
    [v EXCEPT !.disk = Put(@, Names(p), [type |-> type, object |-> object])]

\* lwext4_rmfile fails when the name is none of a file.
CanRmfile(v, p) == OnDisk(v, p) /\ v.disk[Names(p)].type # "Directory"

Rmfile(v, p) == [v EXCEPT !.disk = IF CanRmfile(v, p) THEN Without(@, Names(p)) ELSE @]

Rmdir(v, p) ==
    [v EXCEPT !.disk = IF DiskDir(v, p)
                       THEN [q \in {q \in DOMAIN @ : ~IsPrefix(Names(p), q)} |-> @[q]]
                       ELSE @]

\* lwext4_mvfile and lwext4_mvdir; a directory takes what is below it along.
Move(v, old, new) ==
    LET from == Names(old)
        to == Names(new)
        moved == {q \in DOMAIN v.disk : IsPrefix(from, q)}
        target(q) == to \o SubSeq(q, Len(from) + 1, Len(q))
        source(r) == from \o SubSeq(r, Len(to) + 1, Len(r))
    IN  IF OnDisk(v, old) /\ CanMake(v, new) /\ ~IsPrefix(from, to)
        THEN [v EXCEPT !.disk =
                [r \in (DOMAIN @ \ moved) \cup {target(q) : q \in moved} |->
                    IF IsPrefix(to, r) THEN @[source(r)] ELSE @[r]]]
        ELSE v

------------------------------------------------------------------------------
\* The methods of Ext4Dentry and SimpleDentry.  fs tells which are used; the
\* files of devfs and procfs ("device") have none but open.

\* A dentry enters the tree and the cache.
Attach(v, d, fs, p, i, parent) ==
    [v EXCEPT !.dentry = [Put(@, d, NewDentry(fs, DentryName(p), p, i, parent))
                            EXCEPT ![parent].child = Put(@, DentryName(p), d)],
              !.cache = Put(@, p, d)]

\* A new file or directory under d, in memory.
Child(v, d, n) == Fresh(v, CwdAndName(n, v.dentry[d].path))
CreateSimple(v, d, n, mode) ==
    LET new == Child(v, d, n)
    IN  [Attach(v, new, v.dentry[d].fs, CwdAndName(n, v.dentry[d].path), new, d)
            EXCEPT !.inode = Put(@, new, NewInode(mode, new))]

\* The disk is asked first: mkdir and mknod fail where it does.
CreateExt4(v, d, n, mode) ==
    Make(CreateSimple(v, d, n, mode), CwdAndName(n, v.dentry[d].path), mode, Child(v, d, n))

\* create.
Create(v, d, n, mode) ==
    CASE v.dentry[d].fs = "simple" -> [v |-> CreateSimple(v, d, n, mode), d |-> Child(v, d, n)]
      [] v.dentry[d].fs = "ext4" /\ CanMake(v, CwdAndName(n, v.dentry[d].path)) ->
            [v |-> CreateExt4(v, d, n, mode), d |-> Child(v, d, n)]
      [] OTHER -> [v |-> v, d |-> NoDentry]

\* look_up, of a name that is not in the tree.  Only ext4 looks on the disk;
\* a directory it finds there gets an inode of mode Regular.
LookUp(v, d, n) ==
    LET p == CwdAndName(n, v.dentry[d].path)
        new == Fresh(v, p)
        found == v.disk[Names(p)]
        mode == IF found.type = "Link" THEN "Link" ELSE "Regular"
    IN  IF v.dentry[d].fs = "ext4" /\ OnDisk(v, p)
        THEN [v |-> [Attach(v, new, "ext4", p, new, d)
                        EXCEPT !.inode = Put(@, new, NewInode(mode, found.object))],
              d |-> new]
        ELSE [v |-> v, d |-> NoDentry]

\* One round of path_to_dentry: the next name from the tree (the dentry goes
\* into the cache under its own path), else by look_up.
WalkStep(at, n) ==
    IF at.d = NoDentry THEN at
    ELSE IF n \in DOMAIN at.v.dentry[at.d].child
    THEN LET next == at.v.dentry[at.d].child[n]
         IN  [v |-> [at.v EXCEPT !.cache = Put(@, at.v.dentry[next].path, next)],
              d |-> next]
    ELSE LookUp(at.v, at.d, n)

PathToDentry(v, p) ==
    IF p \in DOMAIN v.cache THEN [v |-> v, d |-> v.cache[p]]
    ELSE FoldLeft(WalkStep, [v |-> v, d |-> v.manager[<<>>]], Names(p))

\* Mutant: the name stays in the cache.
DetachKeepsCache(v, d) ==
    LET c == v.dentry[d]
    IN  [v EXCEPT !.dentry = [@ EXCEPT ![d].parent = NoDentry,
                                       ![c.parent].child = Without(@, c.name)]]

\* The part of unlink that is about the tree and the cache.
Detach(v, d) ==
    LET c == v.dentry[d]
    IN  [v EXCEPT !.dentry = [@ EXCEPT ![d].parent = NoDentry,
                                       ![c.parent].child = Without(@, c.name)],
                  !.cache = Without(@, c.path)]

\* SimpleDentry::unlink.
UnlinkSimple(v, d) ==
    LET i == v.dentry[d].inode
    IN  IF v.inode[i].mode = "Directory" THEN Detach(v, d)
        ELSE [Detach(v, d) EXCEPT !.inode[i].links = @ - 1]

\* Ext4Dentry::unlink.  A file goes from the disk only with its last link and
\* when it is not open: the name of a file with another link stays there.
UnlinkExt4(v, d) ==
    LET c == v.dentry[d]
        inode == v.inode[c.inode]
    IN  IF inode.mode = "Directory" THEN Rmdir(Detach(v, d), c.path)
        ELSE IF inode.links = 1 /\ inode.opens = 0 THEN Rmfile(UnlinkSimple(v, d), c.path)
        ELSE UnlinkSimple(v, d)

Unlink(v, d) ==
    IF v.dentry[v.dentry[d].parent].fs = "ext4" THEN UnlinkExt4(v, d) ELSE UnlinkSimple(v, d)

\* Mutant: the new name is not counted.
LinkInodeUncounted(v, i) == v

LinkInode(v, i) == [v EXCEPT !.inode[i].links = @ + 1]

\* SimpleDentry::link.
LinkSimple(v, d, parent, n) ==
    LET c == v.dentry[d]
        p == CwdAndName(n, v.dentry[parent].path)
    IN  Attach(LinkInode(v, c.inode), Fresh(v, p), c.fs, p, c.inode, parent)

\* Ext4Dentry::link.  The tree is changed before the disk is asked, which may
\* refuse.
LinkExt4(v, d, parent, n) ==
    LET c == v.dentry[d]
        p == CwdAndName(n, v.dentry[parent].path)
    IN  IF OnDisk(v, c.path) /\ CanMake(v, p)
        THEN Make(LinkSimple(v, d, parent, n), p, "Regular", v.disk[Names(c.path)].object)
        ELSE LinkSimple(v, d, parent, n)

Link(v, d, parent, n) ==
    IF v.dentry[d].fs = "ext4" THEN LinkExt4(v, d, parent, n) ELSE LinkSimple(v, d, parent, n)

\* symbol_link, likewise.
SymbolLink(v, parent, n) ==
    LET p == CwdAndName(n, v.dentry[parent].path)
        new == Fresh(v, p)
        w == [Attach(v, new, "ext4", p, new, parent)
                EXCEPT !.inode = Put(@, new, NewInode("Link", new))]
    IN  IF CanMake(v, p) THEN Make(w, p, "Link", new) ELSE w

\* The part of rename that is about the tree and the cache.  The dentries
\* below a directory keep their paths.
Moved(v, from, n, to, m) ==
    LET d == v.dentry[from].child[n]
        new == CwdAndName(m, v.dentry[to].path)
    IN  [v EXCEPT !.dentry = [@ EXCEPT ![from].child = Without(@, n),
                                       ![to].child = Put(@, m, d),
                                       ![d].name = m, ![d].path = new, ![d].parent = to],
                  !.cache = Put(Without(@, CwdAndName(n, v.dentry[from].path)), new, d)]

\* Mutant: the disk is not told.
RenameInMemory(v, from, n, to, m) == Moved(v, from, n, to, m)

\* rename of a name to a free one.
Rename(v, from, n, to, m) ==
    Move(Moved(v, from, n, to, m),
         CwdAndName(n, v.dentry[from].path), CwdAndName(m, v.dentry[to].path))

\* The new functions of tmpfs, devfs and procfs, and mount.
MountInMemory(v, p) ==
    LET d == Fresh(v, p)
    IN  [Attach(v, d, "simple", p, d, v.cache[ParentPath(p)])
            EXCEPT !.inode = Put(@, d, NewInode("Directory", NoDentry)),
                   !.manager = Put(@, p, d)]

\* A file that init of devfs or procfs makes: its path is that of the
\* directory with the name put right behind it.
AddDevice(v, p) ==
    LET dir == ParentPath(p)
        key == Front(dir) \o <<Last(dir) \o Last(p)>>
        d == Fresh(v, p)
    IN  [v EXCEPT !.dentry = [Put(@, d, NewDentry("device", Last(p), key, d, v.cache[dir]))
                                EXCEPT ![v.cache[dir]].child = Put(@, Last(p), d)],
                  !.inode = Put(@, d, NewInode(Devices[p], NoDentry)),
                  !.cache = Put(@, key, d)]

\* Ext4FileSystem::new with load_all_child: all of the disk is in the tree.
Loaded ==
    LET all == DOMAIN DiskTree \cup {<<>>}
        id(p) == <<p, 0>>
        type(p) == IF p = <<>> THEN "Directory" ELSE DiskTree[p]
        below(p) == {q \in DOMAIN DiskTree : Front(q) = p}
    IN  [dentry |-> [d \in {id(p) : p \in all} |->
                        [NewDentry("ext4", DentryName(d[1]), d[1], d,
                                   IF d[1] = <<>> THEN NoDentry ELSE id(Front(d[1])))
                            EXCEPT !.child = [n \in {Last(q) : q \in below(d[1])} |->
                                                id(Append(d[1], n))]]],
         inode |-> [d \in {id(p) : p \in all} |-> NewInode(type(d[1]), d)],
         cache |-> [p \in all |-> id(p)],
         manager |-> [p \in {<<>>} |-> id(p)],
         disk |-> [p \in DOMAIN DiskTree |-> [type |-> DiskTree[p], object |-> id(p)]]]

\* fs::init.
Boot ==
    LET mounted == FoldLeft(MountInMemory, Loaded, <<<<"dev">>, <<"proc">>, <<"tmp">>>>)
    IN  FoldLeft(AddDevice, mounted, SetToSeq(DOMAIN Devices))

Init ==
    /\ vfs = Boot
    /\ cwd = [k \in Process |-> <<>>]
    /\ handle = [h \in Handle |-> NoDentry]
    /\ halted = "no"

------------------------------------------------------------------------------
\* The system calls.  Return drops what is no longer referred to; a call that
\* panics, or waits for a lock it holds, stops the kernel.
Runs == halted = "no"

Halt(why) ==
    /\ halted' = why
    /\ UNCHANGED <<vfs, cwd, handle>>

Return(v) ==
    /\ vfs' = Collect(v, handle)
    /\ UNCHANGED <<cwd, handle, halted>>

\* FdTable::open; running out of descriptors is part of module FdTable.
OpenDentry(v, d) ==
    LET opened == [v EXCEPT !.inode[v.dentry[d].inode].opens = @ + 1]
        h == CHOOSE h \in Handle : handle[h] = NoDentry
    IN  /\ \E x \in Handle : handle[x] = NoDentry
        /\ handle' = [handle EXCEPT ![h] = d]
        /\ vfs' = Collect(opened, handle')
        /\ UNCHANGED <<cwd, halted>>

\* Opening with O_TRUNC for writing: truncate locks the file and then seeks,
\* which locks it again.
Truncates(v, d, c) ==
    c.trunc /\ Mode(v, d) = "Regular" /\ v.dentry[d].fs # "device"

SysOpenat(k, c) ==
    LET path == ToPath(cwd[k], c.path)
        r == PathToDentry(vfs, path)
        parent == PathToDentry(r.v, ParentPath(path))
        made == Create(parent.v, parent.d, DentryName(path), "Regular")
        at == IF r.d # NoDentry THEN r ELSE made
    IN  /\ Runs
        /\ IF (IF r.d # NoDentry
               THEN \/ c.directory /\ Mode(r.v, r.d) # "Directory"
                    \/ c.creat /\ c.excl
               ELSE ~c.creat) THEN Return(r.v)
           ELSE IF r.d = NoDentry /\ parent.d = NoDentry THEN Halt("unwrap")
           ELSE IF at.d = NoDentry THEN Return(at.v)
           ELSE IF Truncates(at.v, at.d, c) THEN Halt("dead lock")
           ELSE OpenDentry(at.v, at.d)

\* sys_close.  When the file cannot be removed from the disk the call fails
\* and the descriptor stays.
SysClose(h) ==
    LET c == vfs.dentry[handle[h]]
        inode == vfs.inode[c.inode]
        less == [vfs EXCEPT !.inode[c.inode].opens = @ - 1]
        last == c.fs = "ext4" /\ inode.links = 0 /\ inode.opens = 1
    IN  /\ Runs
        /\ handle[h] # NoDentry
        /\ IF last /\ ~CanRmfile(vfs, c.path) THEN Return(less)
           ELSE /\ handle' = [handle EXCEPT ![h] = NoDentry]
                /\ vfs' = Collect(IF last THEN Rmfile(less, c.path) ELSE less, handle')
                /\ UNCHANGED <<cwd, halted>>

SysMkdirat(k, a) ==
    LET path == ToPath(cwd[k], a)
        r == PathToDentry(vfs, path)
        parent == PathToDentry(r.v, ParentPath(path))
    IN  /\ Runs
        /\ IF r.d # NoDentry THEN Return(r.v)
           ELSE IF parent.d = NoDentry THEN Halt("unwrap")
           ELSE IF Mode(parent.v, parent.d) # "Directory" THEN Return(parent.v)
           ELSE Return(Create(parent.v, parent.d, DentryName(path), "Directory").v)

IsEmpty(v, d) == v.dentry[d].child = Empty

\* sys_unlinkat.  The working directory of the caller is recognised by its
\* path, as it is spelled.
SysUnlinkat(k, c) ==
    LET path == ToPath(cwd[k], c.path)
        r == PathToDentry(vfs, path)
        dir == Mode(r.v, r.d) = "Directory"
        parent == r.v.dentry[r.d].parent
    IN  /\ Runs
        /\ IF path = cwd[k] THEN Return(vfs)
           ELSE IF r.d = NoDentry THEN Return(r.v)
           ELSE IF dir /\ (~c.removedir \/ ~IsEmpty(r.v, r.d)) THEN Return(r.v)
           ELSE IF parent = NoDentry THEN Return(r.v)
           ELSE IF parent \notin DOMAIN r.v.dentry THEN Halt("upgrade")
           ELSE IF Mode(r.v, r.d) \notin {"Regular", "Directory"} THEN Halt("todo")
           ELSE Return(Unlink(r.v, r.d))

\* sys_linkat.  Only the cache is asked whether the new name is taken.
SysLinkat(k, c) ==
    LET new == ToPath(cwd[k], c.new)
        r == PathToDentry(vfs, ToPath(cwd[k], c.old))
        parent == PathToDentry(r.v, ParentPath(new))
    IN  /\ Runs
        /\ IF new \in DOMAIN vfs.cache THEN Return(vfs)
           ELSE IF r.d = NoDentry THEN Return(r.v)
           ELSE IF Mode(r.v, r.d) # "Regular" THEN Return(r.v)
           ELSE IF parent.d = NoDentry THEN Return(parent.v)
           ELSE IF Mode(parent.v, parent.d) # "Directory" THEN Return(parent.v)
           ELSE IF parent.v.dentry[r.d].fs = "device" THEN Halt("todo")
           ELSE Return(Link(parent.v, r.d, parent.d, DentryName(new)))

SysSymlinkat(k, a) ==
    LET path == ToPath(cwd[k], a)
        parent == PathToDentry(vfs, ParentPath(path))
    IN  /\ Runs
        /\ IF path \in DOMAIN vfs.cache THEN Return(vfs)
           ELSE IF parent.d = NoDentry THEN Return(parent.v)
           ELSE IF parent.v.dentry[parent.d].fs # "ext4" THEN Halt("todo")
           ELSE Return(SymbolLink(parent.v, parent.d, DentryName(path)))

\* rename when the new name is taken: a directory with entries is refused;
\* unlink of anything else waits for the lock of the new parent, which
\* rename holds.
Replace(v, d) ==
    IF Mode(v, d) = "Directory" /\ ~IsEmpty(v, d) THEN Return(v)
    ELSE IF Mode(v, d) \in {"Regular", "Directory"} THEN Halt("dead lock")
    ELSE Halt("todo")

\* sys_renameat2.  It compares the inodes of the two parents, so a rename
\* within a directory does nothing.
SysRenameat2(k, c) ==
    LET old == ToPath(cwd[k], c.old)
        new == ToPath(cwd[k], c.new)
        from == PathToDentry(vfs, ParentPath(old))
        to == PathToDentry(from.v, ParentPath(new))
        v == to.v
        n == DentryName(old)
        m == DentryName(new)
    IN  /\ Runs
        /\ IF from.d = NoDentry THEN Return(from.v)
           ELSE IF to.d = NoDentry THEN Return(v)
           ELSE IF v.dentry[from.d].inode = v.dentry[to.d].inode THEN Return(v)
           ELSE IF Mode(v, from.d) # Mode(v, to.d) THEN
                IF "Link" \in {Mode(v, from.d), Mode(v, to.d)} THEN Halt("todo") ELSE Return(v)
           ELSE IF v.dentry[from.d].fs # "ext4" THEN Halt("todo")
           ELSE IF m \in DOMAIN v.dentry[to.d].child THEN Replace(v, v.dentry[to.d].child[m])
           ELSE IF n \notin DOMAIN v.dentry[from.d].child THEN Halt("unwrap")
           ELSE IF Mode(v, v.dentry[from.d].child[n]) \notin {"Regular", "Directory"}
           THEN Halt("todo")
           ELSE Return(Rename(v, from.d, n, to.d, m))

\* sys_mount.  No inode has a block device, so a source that exists panics;
\* without a device vfat is recorded as an empty file system.
SysMount(k, c) ==
    LET target == ToPath(cwd[k], c.target)
        source == PathToDentry(vfs, ToPath(cwd[k], c.source))
    IN  /\ Runs
        /\ IF source.d # NoDentry THEN Halt("todo")
           ELSE IF c.type = "vfat"
           THEN Return([source.v EXCEPT !.manager = Put(@, target, NoDentry)])
           ELSE IF c.type = "ext4" \/ ParentPath(target) \notin DOMAIN source.v.cache
           THEN Halt("unwrap")
           ELSE Return(MountInMemory(source.v, target))

\* sys_umount2.  unmount holds the lock of the manager, which path_to_dentry
\* takes when the parent is not in the cache.  The cache keeps "/mnt".
SysUmount2(k, a) ==
    LET target == ToPath(cwd[k], a)
        parent == vfs.cache[ParentPath(target)]
    IN  /\ Runs
        /\ IF target = <<>> \/ target \notin DOMAIN vfs.manager THEN Return(vfs)
           ELSE IF ParentPath(target) \notin DOMAIN vfs.cache THEN Halt("dead lock")
           ELSE Return([vfs EXCEPT
                   !.dentry[parent].child = Without(@, DentryName(target)),
                   !.cache = IF target = <<"mnt">> THEN @ ELSE Without(@, target),
                   !.manager = Without(@, target)])

SysChdir(k, a) ==
    LET path == ChdirPath(cwd[k], a)
        r == PathToDentry(vfs, path)
    IN  /\ Runs
        /\ cwd' = IF r.d # NoDentry /\ Mode(r.v, r.d) = "Directory"
                  THEN [cwd EXCEPT ![k] = path] ELSE cwd
        /\ vfs' = Collect(r.v, handle)
        /\ UNCHANGED <<handle, halted>>

\* sys_readlinkat, and every other call that only looks a name up.
SysReadlinkat(k, a) ==
    /\ Runs
    /\ Return(PathToDentry(vfs, ToPath(cwd[k], a)).v)

Next ==
    \/ \E k \in Process :
        \/ \E c \in OpenCalls : SysOpenat(k, c)
        \/ \E a \in MkdirPaths : SysMkdirat(k, a)
        \/ \E c \in UnlinkCalls : SysUnlinkat(k, c)
        \/ \E c \in LinkCalls : SysLinkat(k, c)
        \/ \E a \in SymlinkPaths : SysSymlinkat(k, a)
        \/ \E c \in RenameCalls : SysRenameat2(k, c)
        \/ \E c \in MountCalls : SysMount(k, c) \/ SysUmount2(k, c.target)
        \/ \E a \in ChdirPaths : SysChdir(k, a) \/ SysReadlinkat(k, a)
    \/ \E h \in Handle : SysClose(h)

Spec == Init /\ [][Next]_vars

------------------------------------------------------------------------------
Modes == {"Regular", "Directory", "Link", "Char"}

TypeOK ==
    /\ \A d \in DOMAIN vfs.dentry :
          /\ vfs.dentry[d].inode \in DOMAIN vfs.inode
          /\ Children(vfs, d) \subseteq DOMAIN vfs.dentry
          /\ vfs.dentry[d].fs \in {"ext4", "simple", "device"}
    /\ \A i \in DOMAIN vfs.inode : vfs.inode[i].mode \in Modes /\ vfs.inode[i].links \in Nat
    /\ Roots(vfs, handle) \subseteq DOMAIN vfs.dentry \cup {NoDentry}
    /\ halted \in {"no", "unwrap", "upgrade", "dead lock", "todo"}

\* The dentry that the tree has at a path, without asking a disk.
RECURSIVE TreeAt(_)
TreeAt(p) ==
    IF p = <<>> THEN vfs.manager[<<>>]
    ELSE LET up == TreeAt(Front(p))
         IN  IF up = NoDentry THEN NoDentry
             ELSE IF Last(p) \in DOMAIN vfs.dentry[up].child
             THEN vfs.dentry[up].child[Last(p)] ELSE NoDentry

InTree == Reachable(vfs, {vfs.manager[<<>>]})

\* A path that DENTRY_CACHE answers is answered with the dentry the tree has
\* there: after any calls by any processes the cache holds no name that was
\* unlinked or moved away.  "/mnt", which umount leaves in the cache, and the
\* misspelt paths of the device files are the exceptions.
CacheOnTree ==
    \A p \in DOMAIN vfs.cache \ {<<"mnt">>} :
        vfs.dentry[vfs.cache[p]].fs # "device" => TreeAt(Names(p)) = vfs.cache[p]

\* i_link_count is the number of names of the file in the tree, so the last
\* unlink, and only the last, finds it 0.
LinksCounted ==
    \A i \in DOMAIN vfs.inode :
        vfs.inode[i].mode = "Regular" =>
            vfs.inode[i].links = Cardinality({d \in InTree : vfs.dentry[d].inode = i})

\* A name of the tree is a name on the disk, for the object that was opened
\* when the inode was made: neither unlink nor close takes away more than it
\* was asked to.
FilesOnDisk ==
    \A d \in InTree \ {vfs.manager[<<>>]} :
        LET c == vfs.dentry[d]
        IN  c.fs = "ext4" =>
                /\ OnDisk(vfs, c.path)
                /\ vfs.disk[Names(c.path)].object = vfs.inode[c.inode].object
==============================================================================
