----------------------------- MODULE MCNameSpace -----------------------------
(****************************************************************************)
(* Instances of NameSpace for TLC.  The disk holds /f, /d/g, /d and /mnt.   *)
(****************************************************************************)
EXTENDS NameSpace

MCDiskTree ==
    [p \in {<<"f">>, <<"d">>, <<"d", "g">>, <<"mnt">>} |->
        IF p \in {<<"d">>, <<"mnt">>} THEN "Directory" ELSE "Regular"]

MCDevices == [p \in {<<"dev", "zero">>} |-> "Char"]

Abs(p) == [abs |-> TRUE, parts |-> p]
Rel(p) == [abs |-> FALSE, parts |-> p]

Plain(a) == [path |-> a, creat |-> FALSE, excl |-> FALSE, trunc |-> FALSE, directory |-> FALSE]
Creat(a) == [Plain(a) EXCEPT !.creat = TRUE]

\* Opened and unlinked files of the disk are different ones.
MCOpen ==
    {Creat(Rel(<<"t">>)), [Creat(Abs(<<"d", "e", "x">>)) EXCEPT !.excl = TRUE],
     [Plain(Abs(<<"f">>)) EXCEPT !.trunc = TRUE]}
MCMkdir == {Abs(<<"d", "e">>)}
MCUnlink ==
    [path : {Abs(<<"d", "g">>), Abs(<<"l">>), Abs(<<"d", "e", "">>)}, removedir : {TRUE}]
        \cup [path : {Abs(<<"d">>), Rel(<<"..", "h">>), Abs(<<"d", "e">>),
                    Abs(<<"tmp", "t">>)}, removedir : {FALSE}]
MCLink == {[old |-> Abs(<<"d", "g">>), new |-> Abs(<<"l">>)]}
MCSymlink == {Abs(<<"d", "e">>)}
MCRename ==
    {[old |-> Abs(<<"d", "g">>), new |-> Abs(<<"h">>)],
     [old |-> Abs(<<"h">>), new |-> Abs(<<"d", "g">>)],
     [old |-> Abs(<<"d", "g">>), new |-> Abs(<<"d", "e">>)]}
MCMount ==
    {[source |-> Abs(<<"none">>), target |-> Abs(<<"mnt">>), type |-> "vfat"],
     [source |-> Abs(<<"none">>), target |-> Abs(<<"v">>), type |-> "tmpfs"]}
MCChdir == {Abs(<<>>), Abs(<<"tmp">>), Abs(<<"dev", "zero">>)}

\* What was left when the kernel stopped is not looked at.
Visible == IF halted = "no" THEN <<vfs, cwd, handle, halted>> ELSE <<halted>>
==============================================================================
