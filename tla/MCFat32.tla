------------------------------ MODULE MCFat32 ------------------------------
(***************************************************************************)
(* Small volumes of four-slot sectors.  On the first the root directory    *)
(* fills cluster 2 and goes on in 6: file a, directory d and the empty     *)
(* short-named b; directory d is full and holds file c; two clusters are   *)
(* free.  The second has clusters of two sectors and no free one.          *)
(***************************************************************************)
EXTENDS Fat32

Dirent(status, isLong, name, isDir, lo) ==
    [status |-> status, long |-> isLong, name |-> name, dir |-> isDir,
     lo |-> lo, hi |-> 0]

\* A sector of four slots.
Four(s) == [i \in 0 .. 3 |-> s[i + 1]]
Long(name) == Dirent("Normal", TRUE, name, FALSE, 0)
Short(name, isDir, lo) == Dirent("Normal", FALSE, name, isDir, lo)
Dots(lo) == Dirent("Special", FALSE, ".", TRUE, lo)
NoEntry == Dirent("Empty", FALSE, "", FALSE, 0)
Deleted == Dirent("Free", FALSE, "", FALSE, 0)

Boot(jmp, spc) ==
    [jmpBoot |-> <<jmp, 88, 144>>, BytsPerSec |-> 4, SecPerClus |-> spc,
     RsvdSecCnt |-> 2, FSInfo |-> 1, BkBootSec |-> 0, NumFATs |-> 1,
     TotSec32 |-> 12, FATSz32 |-> 3, zero |-> 0]

\* Sectors 2 to 4 hold the table, 5 and on the clusters from 2.
Disk(jmp, b) ==
    0 :> Boot(jmp, 1) @@ 1 :> Four(<<2, 7, 0, 0>>) @@
    2 :> Four(<<Eof - 7, Eof, 6, Eof>>) @@ 3 :> Four(<<Eof, Eof, Eof, 0>>) @@
    4 :> Four(<<0, 0, 0, 0>>) @@
    5 :> Four(<<Long("a"), Short("A", FALSE, 3), Long("d"), Short("D", TRUE, 5)>>) @@
    6 :> Four(<<1, 2, 3, 4>>) @@
    7 :> Four(<<5, 6, 7, 8>>) @@
    8 :> Four(<<Dots(5), Dots(2), Long("c"), Short("C", FALSE, 4)>>) @@
    9 :> Four(<<Deleted, Short("b", FALSE, b), NoEntry, NoEntry>>) @@ 10 :> Four(<<0, 0, 0, 0>>) @@
    11 :> Four(<<0, 0, 0, 0>>)

\* File a has a name of two pieces and two sectors, at 7 and 8.
WideDisk ==
    0 :> Boot(235, 2) @@ 1 :> Four(<<0, 9, 0, 0>>) @@
    2 :> Four(<<Eof - 7, Eof, Eof, Eof>>) @@ 3 :> Four(<<Eof, Eof, Eof, Eof>>) @@
    4 :> Four(<<Eof, 0, 0, 0>>) @@
    5 :> Four(<<Long("t"), Long("a"), Short("A", FALSE, 3), NoEntry>>) @@
    6 :> Four(<<NoEntry, NoEntry, NoEntry, NoEntry>>) @@
    7 :> Four(<<1, 2, 3, 4>>) @@ 8 :> Four(<<5, 6, 7, 8>>)

\* One disk has no valid boot sector, one a short-named file with a cluster.
MCImages == {Disk(235, 0), Disk(235, 8), Disk(0, 0), WideDisk}
MCRequests == {<<0, 4>>, <<3, 3>>}
MCDiffs == {-3, 4}
MCNames == {<<"e">>}

\* Once a file is made nothing on the disk is changed, and the state a panic
\* leaves is not told apart from another.
Separate == Len(nodes) = MaxNodes => ~(\E i \in DOMAIN vol.queue : vol.queue[i].modified)
Visible == IF vol.ok THEN <<vol, info, nodes, nxtFree, ops>> ELSE <<>>
=============================================================================
