----------------------------- MODULE MCOpenFiles -----------------------------
(* Small instances of OpenFiles and Directory.  The two do not interact; part *)
(* says which one moves, so their states add up instead of multiplying.      *)
EXTENDS OpenFiles, Directory, TLC

VARIABLE part

\* A file of a sector and a half, in pages of two sectors of two bytes.
DiskFile == [f |-> <<1, 0, 0>>]

\* One file of every other class.
OtherFiles == [t |-> "tmpfs", z |-> "zero", r |-> "rtc",
               c |-> "cpu_dma_latency", n |-> "null", y |-> "tty", u |-> "urandom",
               m |-> "meminfo", p |-> "mounts", d |-> "directory"]

Opening(h, f, writes, append) == [h |-> h, file |-> f, writes |-> writes, append |-> append]

\* One program opens everything, another the file on the disk, to append.
SomeOpens ==
    {Opening("h1", f, TRUE, FALSE) : f \in Files \ {"n"}}
        \cup {Opening("h1", "n", FALSE, FALSE),
              Opening("h2", "f", TRUE, TRUE)}

Seek(whence, offset) == [h |-> "h1", whence |-> whence, offset |-> offset]
SomeSeeks == {Seek("start", 1), Seek("start", 3), Seek("current", -2), Seek("end", 0)}

EntrySizes == 1 :> 1 @@ 2 :> 2 @@ 3 :> 1

MCInit ==
    /\ part \in {"files", "directory"}
    /\ Init
    /\ DirInit /\ (part = "files" => entries = {})

MCNext ==
    \/ part = "files" /\ Next /\ UNCHANGED <<part, dirVars>>
    \/ part = "directory" /\ DirNext /\ UNCHANGED <<part, vars>>

MCSpec == MCInit /\ [][MCNext]_<<part, vars, dirVars>>

\* All states of a stopped kernel count as one.
Visible ==
    IF part = "directory" THEN <<part, dirVars>>
    ELSE IF halted = "no" THEN <<part, size, open, result, mine>>
    ELSE <<part, halted>>
==============================================================================
