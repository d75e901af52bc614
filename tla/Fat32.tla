------------------------------- MODULE Fat32 -------------------------------
(***************************************************************************)
(* The FAT32 file system of fs/fat32: the boot sector check, FSInfo, the   *)
(* file allocation table, files as chains of clusters, directories loaded  *)
(* at mount, and the block cache all of it reads and writes through.  The  *)
(* shipped boot mounts ext4, so the operations are those a caller of       *)
(* Fat32FileSystem::new gets, in any order.                                *)
(*                                                                         *)
(* A sector is a function from slots to words.  A word is a table entry, a *)
(* directory entry or a byte of data, by what the sector holds.            *)
(***************************************************************************)
EXTENDS Integers, FiniteSets, Sequences, SequencesExt

CONSTANTS
    Images,      \* the disks there may be before the mount
    SectorSize,  \* slots of a sector, for SECTOR_SIZE bytes
    CacheSize,   \* SECTOR_CACHE_SIZE
    LastCluster, \* the last cluster of the disk; a bound, the code has none
    Names,       \* names for new files
    MaxNodes,    \* bound on the dentries made
    Requests,    \* the <<offset, length>> of reads and writes
    Diffs,       \* the changes of size asked for
    MaxOps       \* bound on the operations after the mount

ASSUME CacheAssumption == CacheSize \in Nat /\ CacheSize >= 5
ASSUME SectorAssumption == SectorSize \in Nat \ {0}

VARIABLES
    vol,     \* the disk, the block cache, FSINFO, and whether the kernel runs
    info,    \* FatInfo of the mounted volume, or Unmounted
    nodes,   \* a sequence of dentries with their inodes and FatDiskFiles
    nxtFree, \* NXTFREEPOS_CACHE: from nodes to positions
    out,     \* the bytes the last read returned
    ops      \* the operations done

vars == <<vol, info, nodes, nxtFree, out, ops>>

Unmounted == [sector |-> 0, size |-> 0, sec_per_clus |-> 0, num_fat |-> 0]
Slots == 0 .. SectorSize - 1
RootCluster == 2
Eof == 268435455 \* 0x0FFF_FFFF
Panic(v) == [v EXCEPT !.ok = FALSE]

\* What follows a step that may panic.
Then(v, Op(_)) == IF v.ok THEN Op(v) ELSE v

----------------------------------------------------------------------------
(* The block cache. *)

Cached(v, b) == \E i \in DOMAIN v.queue : v.queue[i].block = b
Place(v, b) == CHOOSE i \in DOMAIN v.queue : v.queue[i].block = b

\* BlockCache::sync, also run when a block is dropped.
Flush(disk, e) ==
    IF e.modified THEN [disk EXCEPT ![e.block] = e.data] ELSE disk

\* The FSInfo sector is held by FSINFO, so its count is never one.
Pinned(v, e) == e.block = v.fsinfo

RECURSIVE Sweep(_)
Sweep(v) ==
    LET i == v.clock + 1
        on == [v EXCEPT !.clock = (v.clock + 1) % CacheSize]
    IN  IF Pinned(v, v.queue[i]) THEN Sweep(on)
        ELSE IF v.queue[i].ref = 1 THEN Sweep([on EXCEPT !.queue[i].ref = 0])
        ELSE v

\* Mutant: the successor is forgotten rather than written.
EvictOne(s, e) ==
    LET i == s.clock + 1
        rest == RemoveAt(s.queue, i)
    IN  [s EXCEPT !.disk = Flush(s.disk, s.queue[i]),
                  !.queue = [rest EXCEPT ![i] = e],
                  !.clock = (s.clock + 1) % CacheSize]

\* The block under the clock leaves the queue, and the new one then takes the
\* place of its successor, which leaves too.
Evict(s, e) ==
    LET i == s.clock + 1
        rest == RemoveAt(s.queue, i)
        disk == Flush(s.disk, s.queue[i])
    IN  IF i > Len(rest) THEN Panic([s EXCEPT !.disk = disk])
        ELSE [s EXCEPT !.disk = Flush(disk, rest[i]),
                       !.queue = [rest EXCEPT ![i] = e],
                       !.clock = (s.clock + 1) % CacheSize]

\* Mutant: the flag counts the uses of a block.
GetBlockCacheCounts(v, b) ==
    IF Cached(v, b) THEN [v EXCEPT !.queue[Place(v, b)].ref = @ + 1]
    ELSE [v EXCEPT !.queue = Append(@, [block |-> b, data |-> v.disk[b],
                                        modified |-> FALSE, ref |-> 1])]

GetBlockCache(v, b) ==
    IF Cached(v, b) THEN v
    ELSE IF b \notin DOMAIN v.disk THEN Panic(v)
    ELSE LET e == [block |-> b, data |-> v.disk[b],
                   modified |-> FALSE, ref |-> 1]
         IN  IF Len(v.queue) = CacheSize THEN Evict(Sweep(v), e)
             ELSE [v EXCEPT !.queue = Append(@, e)]

\* What a reader of sector b sees.
Sector(v, b) == IF Cached(v, b) THEN v.queue[Place(v, b)].data ELSE v.disk[b]

Store(v, b, data) ==
    [v EXCEPT !.queue[Place(v, b)].data = data,
              !.queue[Place(v, b)].modified = TRUE]

\* Mutant: the blocks are marked written and are not.
SyncNothing(v) ==
    [v EXCEPT !.queue = [i \in DOMAIN @ |-> [@[i] EXCEPT !.modified = FALSE]]]

SyncAll(v) ==
    [v EXCEPT !.disk = FoldLeft(Flush, @, v.queue),
              !.queue = [i \in DOMAIN @ |-> [@[i] EXCEPT !.modified = FALSE]]]

----------------------------------------------------------------------------
(* The boot sector, FSInfo and the table. *)

IsValid(b) ==
    /\ b.jmpBoot[1] \in {235, 233}
    /\ b.jmpBoot[1] = 235 => b.jmpBoot[3] = 144
    /\ b.BytsPerSec = SectorSize
    /\ b.SecPerClus \in {1, 2, 4, 8, 16, 32, 64, 128}
    /\ b.RsvdSecCnt > b.FSInfo
    /\ b.RsvdSecCnt > b.BkBootSec
    /\ b.NumFATs # 0
    /\ b.TotSec32 # 0
    /\ b.zero = 0 \* RootEntCnt, TotSec16, FATSz16, FSVer and Reserved

FatInfoOf(b) ==
    [sector |-> b.RsvdSecCnt, size |-> b.FATSz32,
     sec_per_clus |-> b.SecPerClus, num_fat |-> b.NumFATs]

\* Where a cluster's table entry is.
EntryPos(fi, c) ==
    [sector |-> fi.sector + c \div SectorSize, slot |-> c % SectorSize]

ClusterToSector(fi, c) ==
    (c - RootCluster) * fi.sec_per_clus + fi.sector + fi.size * fi.num_fat

Status(x) ==
    CASE x = 0 -> "Free"
      [] x \in {Eof, Eof - 7} -> "EndOfFile"
      [] x \in 2 .. Eof - 16 -> "Next"
      [] OTHER -> "Wrong"

Entry(v, fi, c) == Sector(v, EntryPos(fi, c).sector)[EntryPos(fi, c).slot]

\* Writes x to c's entry, if the entry passes the code's assertion.
SetEntry(v, fi, c, x, Passes(_)) ==
    LET p == EntryPos(fi, c)
    IN  Then(GetBlockCache(v, p.sector),
             LAMBDA w : IF ~Passes(Entry(w, fi, c)) THEN Panic(w)
                        ELSE Store(w, p.sector,
                                   [Sector(w, p.sector) EXCEPT ![p.slot] = x]))

\* FSInfo::init keeps the sector and takes the two counters from it.
FsinfoInit(v, b) ==
    Then(GetBlockCache([v EXCEPT !.fsinfo = b], b),
         LAMBDA w : [w EXCEPT !.free = Sector(w, b)[0], !.next = Sector(w, b)[1]])

\* FSInfo::alloc_cluster.  Within the bound LastCluster neither counter wraps.
FsinfoAlloc(v) == [v EXCEPT !.free = @ - 1, !.next = @ + 1]

FsinfoFree(v) == [v EXCEPT !.free = @ + 1]

AllocCluster(v, fi, prev) ==
    Then(SetEntry(FsinfoAlloc(v), fi, prev, v.next,
                  LAMBDA x : Status(x) = "EndOfFile"),
         LAMBDA w : SetEntry(w, fi, v.next, Eof, LAMBDA x : TRUE))

FreeCluster(v, fi, c, prev) ==
    Then(SetEntry(v, fi, prev, Eof, LAMBDA x : x = c),
         LAMBDA w : SetEntry(FsinfoFree(w), fi, c, 0, LAMBDA x : x = Eof))

\* The chain that follows cs, with the blocks read on the way; w has the
\* block of the last entry.
RECURSIVE Follow(_, _, _)
Follow(w, fi, cs) ==
    LET x == Entry(w, fi, Last(cs))
    IN  IF ~w.ok THEN [vol |-> w, clusters |-> cs]
        ELSE CASE Status(x) = "Next" -> Follow(GetBlockCache(w, EntryPos(fi, x).sector),
                                               fi, Append(cs, x))
               [] Status(x) = "EndOfFile" -> [vol |-> w, clusters |-> cs]
               [] OTHER -> [vol |-> Panic(w), clusters |-> cs]

FindAllCluster(v, fi, c) ==
    Follow(GetBlockCache(v, EntryPos(fi, c).sector), fi, <<c>>)

----------------------------------------------------------------------------
(* Files: FatDiskFile. *)

\* A node: a FatDentry, its FatInode and its FatDiskFile, still empty.
Node(name, parent, isDir, first) ==
    [name |-> name, parent |-> parent, dir |-> isDir,
     data_cluster |-> first, clusters |-> <<>>, size |-> 0]

RootNode == Node(<<>>, 0, TRUE, RootCluster)
NodeFromEntry(p, c) == Node(c.name, p, c.dir, c.first)
NewNode(p, name, isDir) == Node(name, p, isDir, 0)

ClusterSize(fi) == fi.sec_per_clus * SectorSize
ClustersFor(fi, size) == (size + ClusterSize(fi) - 1) \div ClusterSize(fi)

\* n with the chain that was found, which sets the size if it is zero.
WithChain(fi, n, found) ==
    [vol |-> found.vol,
     node |-> [n EXCEPT !.clusters = found.clusters,
                        !.size = IF @ = 0 THEN Len(found.clusters) * ClusterSize(fi)
                                          ELSE @]]

\* cal_cluster_size: the chain is read again.
CalClusterSize(v, fi, n) ==
    IF n.data_cluster = 0 THEN [vol |-> v, node |-> n]
    ELSE WithChain(fi, n, FindAllCluster(v, fi, n.data_cluster))

RECURSIVE Shrink(_, _, _, _)
Shrink(v, fi, cs, count) ==
    IF Len(cs) <= count \/ ~v.ok THEN v
    ELSE Shrink(FreeCluster(v, fi, Last(cs), cs[Len(cs) - 1]), fi,
                Front(cs), count)

RECURSIVE Grow(_, _, _, _)
Grow(v, fi, cs, count) ==
    IF Len(cs) >= count \/ ~v.ok THEN v
    ELSE IF cs = <<>> THEN Panic(v)
    ELSE Grow(AllocCluster(v, fi, Last(cs)), fi, Append(cs, v.next), count)

\* The volume after modify_size has freed or allocated clusters, and the size.
Resized(v, fi, n, diff) ==
    LET size == n.size + diff
    IN  CASE diff < 0 /\ size > 0 ->
               [vol |-> Shrink(v, fi, n.clusters, ClustersFor(fi, size)),
                size |-> size]
          [] diff > 0 ->
               [vol |-> Grow(v, fi, n.clusters, ClustersFor(fi, size)),
                size |-> size]
          [] OTHER -> [vol |-> v, size |-> n.size]

\* Mutant: the last byte of a range is left out.
PartShort(k, st, ed) == {i \in k * SectorSize .. (k + 1) * SectorSize - 1 :
                           st <= i /\ i < ed - 1}

\* The part of the file [st, ed) that sector k of the file holds.
Part(k, st, ed) == {i \in k * SectorSize .. (k + 1) * SectorSize - 1 :
                      st <= i /\ i < ed}

\* The disk sector that holds sector k of the file.
SectorOf(fi, n, k) ==
    ClusterToSector(fi, n.clusters[k \div fi.sec_per_clus + 1])
        + (k % fi.sec_per_clus)

\* The sectors of the file a request touches, in order.
SectorsIn(fi, st, ed) ==
    LET first == (st \div ClusterSize(fi)) * fi.sec_per_clus
        all == [i \in 1 .. ClustersFor(fi, ed) * fi.sec_per_clus - first |->
                  first + i - 1]
    IN  SelectSeq(all, LAMBDA k : Part(k, st, ed) # {})

\* read: each sector passes through the cache, its part is copied out.
ReadSectors(v, fi, n, st, ed) ==
    LET CopyOut(a, w, b, from) ==
            LET low == CHOOSE i \in from : \A j \in from : i <= j
            IN  [vol |-> w,
                 bytes |-> IF ~w.ok THEN a.bytes
                           ELSE a.bytes \o
                                  [i \in 1 .. Cardinality(from) |->
                                     Sector(w, b)[(low + i - 1) % SectorSize]]]
    IN  FoldLeft(LAMBDA a, k : CopyOut(a, GetBlockCache(a.vol, SectorOf(fi, n, k)),
                                       SectorOf(fi, n, k), Part(k, st, ed)),
                 [vol |-> v, bytes |-> <<>>], SectorsIn(fi, st, ed))

\* Mutant: every sector goes to the place of the next one.
WriteSectorsNext(v, fi, n, st, ed) ==
    FoldLeft(LAMBDA w, k :
               Then(GetBlockCache(w, SectorOf(fi, n, k) + 1),
                    LAMBDA x : Store(x, SectorOf(fi, n, k) + 1, [i \in Slots |-> 0])),
             v, SectorsIn(fi, st, ed))

\* write: the bytes of the sector, or zeros for a whole sector, are copied to
\* the caller's buffer and stored back; the caller's bytes are never stored.
WriteSectors(v, fi, n, st, ed) ==
    FoldLeft(LAMBDA w, k :
               LET b == SectorOf(fi, n, k)
                   whole == Cardinality(Part(k, st, ed)) = SectorSize
               IN  Then(GetBlockCache(w, b),
                        LAMBDA x : Store(x, b, IF whole THEN [i \in Slots |-> 0]
                                                        ELSE Sector(x, b))),
             v, SectorsIn(fi, st, ed))

----------------------------------------------------------------------------
(* Directories, read once at mount. *)

\* The directory entries of clusters cs up to the first empty one, and where
\* that one is; with none, the position stays empty.
ScanStep(fi, cs, k, b, w, d) ==
    LET e == Sector(w, b)[k % SectorSize]
    IN  IF ~w.ok THEN [d EXCEPT !.vol = w, !.more = FALSE]
        ELSE CASE e.status = "Empty" ->
                    [d EXCEPT !.vol = w, !.more = FALSE,
                              !.free = <<cs[k \div ClusterSize(fi) + 1], b, k % SectorSize>>]
               [] e.status = "Free" -> [d EXCEPT !.vol = w]
               [] OTHER -> [d EXCEPT !.vol = w, !.entries = Append(@, e)]

Scan(v, fi, cs) ==
    LET Block(k) == ClusterToSector(fi, cs[k \div ClusterSize(fi) + 1])
                        + (k % ClusterSize(fi)) \div SectorSize
    IN  FoldLeft(LAMBDA d, i :
                   IF d.more
                   THEN ScanStep(fi, cs, i - 1, Block(i - 1),
                                 GetBlockCache(d.vol, Block(i - 1)), d)
                   ELSE d,
                 [vol |-> v, entries |-> <<>>, free |-> <<0, 0, 0>>, more |-> TRUE],
                 [i \in 1 .. Len(cs) * ClusterSize(fi) |-> i])

\* parse_s_name adds the halves before it shifts; parse_l_name does not.
ShortCluster(e) == (e.lo + e.hi) * 65536
LongCluster(e) == e.lo + e.hi * 65536

\* parse_child: a run of long entries and the short one after it make a child
\* named by the pieces in reverse; a short entry alone makes one unless special.
RECURSIVE ParseChild(_, _)
ParseChild(pieces, entries) ==
    IF entries = <<>> THEN <<>>
    ELSE LET e == Head(entries)
             short == [name |-> <<e.name>>, dir |-> e.dir, first |-> ShortCluster(e)]
             long == [name |-> Reverse(pieces), dir |-> e.dir,
                      first |-> LongCluster(e)]
         IN  CASE e.long -> ParseChild(Append(pieces, e.name), Tail(entries))
               [] ~e.long /\ pieces # <<>> -> <<long>> \o ParseChild(<<>>, Tail(entries))
               [] ~e.long /\ pieces = <<>> ->
                    (IF e.status = "Special" THEN <<>> ELSE <<short>>)
                        \o ParseChild(<<>>, Tail(entries))

ChildrenOf(t, p) == SelectSeq([i \in DOMAIN t.nodes |-> i],
                              LAMBDA i : t.nodes[i].parent = p)

\* load_child: every child gets its inode, which reads its chain.
LoadEntries(t, fi, p, d) ==
    LET Made(u, made) == [u EXCEPT !.vol = made.vol, !.nodes = Append(@, made.node)]
        Add(u, c) == IF ~u.vol.ok THEN u
                     ELSE Made(u, CalClusterSize(u.vol, fi, NodeFromEntry(p, c)))
    IN  FoldLeft(Add, [vol |-> d.vol, nodes |-> t.nodes,
                       nxtFree |-> [i \in DOMAIN t.nxtFree \cup {p} |->
                                      IF i = p THEN d.free ELSE t.nxtFree[i]]],
                 ParseChild(<<>>, d.entries))

LoadChain(t, fi, p, f) ==
    IF ~f.vol.ok THEN [t EXCEPT !.vol = f.vol]
    ELSE LoadEntries(t, fi, p, Scan(f.vol, fi, f.clusters))

LoadChild(t, fi, p) ==
    LoadChain(t, fi, p, FindAllCluster(t.vol, fi, t.nodes[p].data_cluster))

RECURSIVE LoadAllChild(_, _, _)
LoadAllChild(t, fi, p) ==
    IF ~t.vol.ok \/ ~t.nodes[p].dir THEN t
    ELSE LET Children(u) == FoldLeft(LAMBDA a, c : LoadAllChild(a, fi, c),
                                     u, ChildrenOf(u, p))
         IN  Children(LoadChild(t, fi, p))

----------------------------------------------------------------------------
Init ==
    /\ vol \in [disk : Images, queue : {<<>>}, clock : {0}, fsinfo : {0},
                free : {0}, next : {0}, ok : {TRUE}]
    /\ info = Unmounted
    /\ nodes = <<>>
    /\ nxtFree = <<>>
    /\ out = <<>>
    /\ ops = 0

Mounted == vol.ok /\ info # Unmounted
Runs == Mounted /\ ops < MaxOps
Done == ops' = ops + 1
IsFile(i) == Runs /\ ~nodes[i].dir

\* The tree below a root.
Tree(fi, root) ==
    LoadAllChild([vol |-> root.vol, nodes |-> <<root.node>>, nxtFree |-> <<>>], fi, 1)

\* Fat32FileSystem::new; the boot sector is read past the cache.
Mount ==
    LET b == vol.disk[0]
        fi == FatInfoOf(b)
        Becomes(t) == vol' = t.vol /\ nodes' = t.nodes /\ nxtFree' = t.nxtFree
    IN  /\ vol.ok
        /\ info = Unmounted
        /\ IF ~IsValid(b)
           THEN vol' = Panic(vol) /\ UNCHANGED <<info, nodes, nxtFree, out, ops>>
           ELSE /\ Becomes(Tree(fi, CalClusterSize(FsinfoInit(vol, b.FSInfo),
                                                  fi, RootNode)))
                /\ info' = fi
                /\ UNCHANGED <<out, ops>>

\* FatInode::read.
Read(i, off, len) ==
    LET n == nodes[i]
        Gives(r) == vol' = r.vol /\ out' = r.bytes
    IN  /\ IsFile(i)
        /\ Gives(ReadSectors(vol, info, n, Min({off, n.size}), Min({off + len, n.size})))
        /\ Done
        /\ UNCHANGED <<info, nodes, nxtFree>>

\* FatInode::write.  The end is cut at the size first, so the size that is
\* compared with it is never smaller and the file never grows.
Write(i, off, len) ==
    LET n == nodes[i]
    IN  /\ IsFile(i)
        /\ vol' = WriteSectors(vol, info, n, Min({off, n.size}),
                               Min({off + len, n.size}))
        /\ out' = <<>>
        /\ Done
        /\ UNCHANGED <<info, nodes, nxtFree>>

\* FatDiskFile::modify_size; ends by reading the chain again.
ModifySize(i, diff) ==
    LET n == nodes[i]
        Recalculated(r) ==
            IF r.vol.ok THEN CalClusterSize(r.vol, info, [n EXCEPT !.size = r.size])
            ELSE [vol |-> r.vol, node |-> n]
        Becomes(f) == vol' = f.vol /\ nodes' = [nodes EXCEPT ![i] = f.node]
    IN  /\ IsFile(i)
        /\ vol.next + ClustersFor(info, n.size + diff) - Len(n.clusters)
             <= LastCluster + 1
        /\ Becomes(Recalculated(Resized(vol, info, n, diff)))
        /\ out' = <<>>
        /\ Done
        /\ UNCHANGED <<info, nxtFree>>

\* FatInode::mkdir and mknod: the place for the entry must be known.  Nothing
\* is written to the disk, the place is not moved on, and the child has no
\* cluster.
Mkdir(p, name) ==
    IF nodes[p].dir /\ p \in DOMAIN nxtFree
    THEN nodes' = Append(nodes, NewNode(p, name, TRUE)) /\ vol' = vol
    ELSE vol' = Panic(vol) /\ nodes' = nodes

Mknod(p, name) ==
    IF nodes[p].dir /\ p \in DOMAIN nxtFree
    THEN nodes' = Append(nodes, NewNode(p, name, FALSE)) /\ vol' = vol
    ELSE vol' = Panic(vol) /\ nodes' = nodes

\* FatDentry::create, for a name that is not there.
Create(p, name, isDir) ==
    /\ Runs
    /\ Len(nodes) < MaxNodes
    /\ ~(\E i \in DOMAIN nodes : nodes[i].parent = p /\ nodes[i].name = name)
    /\ IF isDir THEN Mkdir(p, name) ELSE Mknod(p, name)
    /\ out' = <<>>
    /\ Done
    /\ UNCHANGED <<info, nxtFree>>

\* unlink ends in FatInode::delete_data, which is not written.
Unlink(i) ==
    /\ Runs
    /\ nodes[i].parent # 0
    /\ vol' = Panic(vol)
    /\ Done
    /\ UNCHANGED <<info, nodes, nxtFree, out>>

BlockCacheSyncAll ==
    /\ Runs
    /\ vol' = SyncAll(vol)
    /\ out' = <<>>
    /\ Done
    /\ UNCHANGED <<info, nodes, nxtFree>>

Next ==
    \/ Mount
    \/ \E i \in DOMAIN nodes : \/ \E q \in Requests : \/ Read(i, q[1], q[2])
                                                     \/ Write(i, q[1], q[2])
                             \/ \E d \in Diffs : ModifySize(i, d)
                             \/ \E x \in Names, isDir \in BOOLEAN :
                                  Create(i, x, isDir)
                             \/ Unlink(i)
    \/ BlockCacheSyncAll

Spec == Init /\ [][Next]_vars

----------------------------------------------------------------------------
\* Types.  The free count stays a natural number and the clock in the queue.
TypeOK ==
    /\ \A i \in DOMAIN vol.queue : /\ vol.queue[i].block \in DOMAIN vol.disk
                                  /\ vol.queue[i].ref \in 0 .. 1
    /\ vol.clock \in 0 .. CacheSize - 1
    /\ vol.free \in Nat
    /\ vol.next \in 0 .. LastCluster + 1
    /\ \A i \in DOMAIN nodes : nodes[i].parent \in 0 .. i - 1
    /\ DOMAIN nxtFree \subseteq DOMAIN nodes

\* get_block_cache keeps one copy of a sector, an unmodified copy is what the
\* disk holds, and the sector FSINFO holds never leaves the queue, although an
\* eviction drops two blocks and looks at one.
CacheCoherent ==
    /\ Len(vol.queue) <= CacheSize
    /\ \A i, j \in DOMAIN vol.queue :
         vol.queue[i].block = vol.queue[j].block => i = j
    /\ \A i \in DOMAIN vol.queue :
         vol.queue[i].modified \/ vol.queue[i].data = vol.disk[vol.queue[i].block]
    /\ Mounted => Cached(vol, vol.fsinfo)

\* alloc_cluster and free_cluster keep every file's list of clusters equal to
\* its chain in the table, of the length its size needs, and no cluster is in
\* two chains.
ChainsRight ==
    Mounted =>
      /\ \A i \in DOMAIN nodes :
           LET cs == nodes[i].clusters
           IN  /\ ClustersFor(info, nodes[i].size) = Len(cs)
               /\ \A k \in DOMAIN cs :
                    Entry(vol, info, cs[k]) = IF k = Len(cs) THEN Eof ELSE cs[k + 1]
      /\ \A i, j \in DOMAIN nodes : i # j =>
           {nodes[i].clusters[k] : k \in DOMAIN nodes[i].clusters}
             \cap {nodes[j].clusters[k] : k \in DOMAIN nodes[j].clusters} = {}

\* The bytes of a file: the sectors of its clusters, one after the other.
Bytes(v, fi, n) ==
    [i \in 0 .. n.size - 1 |->
       Sector(v, ClusterToSector(fi, n.clusters[i \div ClusterSize(fi) + 1])
                   + (i % ClusterSize(fi)) \div SectorSize)[i % SectorSize]]

\* A read returns the bytes of the file from the offset to the end of the
\* request or of the file, whatever the cache holds.
ReadReturnsBytes ==
    [][\A i \in DOMAIN nodes, q \in Requests :
         Read(i, q[1], q[2]) /\ vol'.ok =>
           LET n == nodes[i]
           IN  /\ Len(out') = Min({q[1] + q[2], n.size}) - Min({q[1], n.size})
               /\ \A k \in DOMAIN out' : out'[k] = Bytes(vol, info, n)[q[1] + k - 1]
      ]_vars

\* Reading, writing or resizing a file leaves the bytes of every other file as
\* they were, and so does writing the cache back.
OthersUntouched ==
    [][Mounted /\ vol'.ok =>
         \A i \in DOMAIN nodes :
           \/ Bytes(vol', info, nodes[i]) = Bytes(vol, info, nodes[i])
           \/ \E q \in Requests : Write(i, q[1], q[2])
      ]_vars

=============================================================================
