------------------------------ MODULE Directory ------------------------------
(****************************************************************************)
(* The listing of a directory by getdents64 (syscall/fs.rs) while others    *)
(* link and unlink names in it.  Every opening has a dirent_index of its    *)
(* own, the number of entries it has passed, and d_child is a BTreeMap:     *)
(* the entries come in the order of their names.  A call holds the locks of *)
(* the file and of the dentry until its end: one step.                      *)
(****************************************************************************)
EXTENDS Integers, FiniteSets

CONSTANTS
    Reader,     \* the openings of the directory
    Entry,      \* the names, numbers in the order of the strings
    DirentSize, \* the size of a directory entry, a function of the name
    DirBuffers  \* the buffer sizes that getdents64 is called with

ASSUME EntryAssumption ==
    /\ Entry \subseteq Nat \ {0} /\ \E n \in Entry : \A m \in Entry : n >= m
    /\ DirentSize \in [Entry -> Nat \ {0}]
    /\ DirBuffers \subseteq Nat

VARIABLES
    entries,      \* d_child of the directory
    opened,       \* the openings there are
    dirent_index, \* of every opening
    listed,       \* history: what an opening was given, and that it saw the end
    steady        \* history: the entries there since it was opened; a removal

dirVars == <<entries, opened, dirent_index, listed, steady>>

------------------------------------------------------------------------------
\* The entries from the index-th on, in the order of d_child.
Ordered(index) == {n \in entries : Cardinality({m \in entries : m < n}) >= index}

\* The bytes that the entries of S up to n take.
Last == CHOOSE n \in Entry : \A m \in Entry : n >= m
SizeTo(S, n) ==
    LET sum[m \in 0..Last] ==
            IF m = 0 THEN 0 ELSE sum[m - 1] + (IF m \in S THEN DirentSize[m] ELSE 0)
    IN  sum[n]

\* What getdents64 returns: as many of them as the buffer holds.
Fitting(index, count) == {n \in Ordered(index) : SizeTo(Ordered(index), n) <= count}

\* Mutant: the index passes the entry that did not fit, too.
NextIndexPast(index, returned) ==
    LET past == index + Cardinality(returned) + 1
    IN  IF past <= Cardinality(entries) THEN past ELSE Cardinality(entries)

NextIndex(index, returned) == index + Cardinality(returned)

------------------------------------------------------------------------------
DirInit ==
    /\ entries \in SUBSET Entry
    /\ opened = {}
    /\ dirent_index = [h \in Reader |-> 0]
    /\ listed = [h \in Reader |-> [names |-> {}, ended |-> FALSE]]
    /\ steady = [h \in Reader |-> [names |-> {}, removed |-> FALSE]]

OpenDir(h) ==
    /\ h \notin opened
    /\ opened' = opened \cup {h}
    /\ dirent_index' = [dirent_index EXCEPT ![h] = 0]
    /\ listed' = [listed EXCEPT ![h] = [names |-> {}, ended |-> FALSE]]
    /\ steady' = [steady EXCEPT ![h] = [names |-> entries, removed |-> FALSE]]
    /\ UNCHANGED entries

CloseDir(h) ==
    /\ h \in opened
    /\ opened' = opened \ {h}
    /\ UNCHANGED <<entries, dirent_index, listed, steady>>

\* sys_getdents64.
Getdents64(h, count) ==
    /\ h \in opened
    /\ LET returned == Fitting(dirent_index[h], count)
       IN  /\ dirent_index' = [dirent_index EXCEPT ![h] = NextIndex(@, returned)]
           /\ listed' = [listed EXCEPT ![h] =
                    [names |-> @.names \cup returned,
                     ended |-> returned = {} /\ \A n \in entries : DirentSize[n] <= count]]
    /\ UNCHANGED <<entries, opened, steady>>

\* A name is linked or unlinked by someone else.
AddEntry(n) ==
    /\ n \notin entries
    /\ entries' = entries \cup {n}
    /\ UNCHANGED <<opened, dirent_index, listed, steady>>

RemoveEntry(n) ==
    /\ n \in entries
    /\ entries' = entries \ {n}
    /\ steady' = [h \in Reader |-> [names |-> steady[h].names \ {n}, removed |-> TRUE]]
    /\ UNCHANGED <<opened, dirent_index, listed>>

DirNext ==
    \/ \E h \in Reader : OpenDir(h) \/ CloseDir(h)
    \/ \E h \in Reader, count \in DirBuffers : Getdents64(h, count)
    \/ \E n \in Entry : AddEntry(n) \/ RemoveEntry(n)

DirSpec == DirInit /\ [][DirNext]_dirVars

------------------------------------------------------------------------------
\* A program that lists a directory until getdents64 returns 0 has been given
\* every entry that was there all the time, if none was removed meanwhile;
\* the buffer must hold any one entry (sys_getdents64, dirent_index).
ListingComplete ==
    \A h \in opened :
        listed[h].ended /\ ~steady[h].removed => steady[h].names \subseteq listed[h].names
==============================================================================
