-------------------------------- MODULE Pipe ---------------------------------
(****************************************************************************)
(* A pipe: the ring buffer of fs/pipe.rs behind its spin lock, the read and *)
(* write loops of its two ends, and the strong references that decide when  *)
(* an end is closed.  An end is an Arc<Pipe>; it is held by the fd tables   *)
(* that have it and by every read or write in progress (the clone of        *)
(* FdInfo that sys_read and sys_write take), and PipeRingBuffer sees it     *)
(* through a Weak.                                                          *)
(*                                                                          *)
(* A step is one iteration of a for loop, made under the lock, so that the  *)
(* loops of two calls interleave wherever the lock allows it.               *)
(****************************************************************************)
EXTENDS Integers, Sequences

CONSTANTS
    Proc,        \* the processes that can have the pipe in their fd table
    Creator,     \* the one that called pipe2
    NoProc,      \* the lock is free
    Byte,        \* the values of a byte, the initial 0 of the buffer included
    Zero,        \* that 0
    Size,        \* MAX_PIPE_BUFFER
    Count        \* the counts passed to read and write, 0 excepted

ASSUME ProcAssumption == Creator \in Proc /\ NoProc \notin Proc
ASSUME ByteAssumption == Zero \in Byte
ASSUME SizeAssumption == Size \in Nat \ {0} /\ Count \subseteq Nat \ {0}

VARIABLES
    buf, status, head, tail,   \* the fields of PipeRingBuffer
    lock,        \* who holds the SpinLock around it
    pc,          \* where the read or write of a process is
    op,          \* which of the two it is
    need,        \* buf_len - already_read, or buf_len - already_written
    left,        \* iterations the for loop still has
    rfd, wfd,    \* the fd table of a process has the read end, the write end
    got,         \* the byte last stored in a reader's buffer
    eof,         \* some read returned before it had all it asked for
    cut,         \* some write returned before it had written everything
    fault        \* "panic": unwrap of None; "lost": a false nobody looked at

ring == <<buf, status, head, tail>>
call == <<pc, op, need, left>>
fds == <<rfd, wfd>>
results == <<got, eof, cut, fault>>
vars == <<ring, lock, call, fds, results>>

Indices == 0..(Size - 1)

------------------------------------------------------------------------------
\* The process that called pipe2 has both ends, the ring is new.
Init ==
    /\ buf = [i \in Indices |-> Zero]
    /\ status = "Empty"
    /\ head = 0 /\ tail = 0
    /\ lock = NoProc
    /\ pc = [p \in Proc |-> "idle"]
    /\ op = [p \in Proc |-> "read"]
    /\ need = [p \in Proc |-> 0]
    /\ left = [p \in Proc |-> 0]
    /\ rfd = [p \in Proc |-> p = Creator]
    /\ wfd = [p \in Proc |-> p = Creator]
    /\ got = Zero
    /\ eof = FALSE /\ cut = FALSE
    /\ fault = "none"

AvailableRead ==
    IF status = "Empty" THEN 0
    ELSE IF tail > head THEN tail - head
    ELSE tail + Size - head

AvailableWrite == IF status = "Full" THEN 0 ELSE Size - AvailableRead

InCall(p, o) == pc[p] # "idle" /\ op[p] = o

\* Mutant: the fd table is the only holder of an end.
ClosedByTable == \A p \in Proc : ~wfd[p]

\* upgrade() of the Weak is None: no fd table and no call holds the end.
IsWriteEndClosed == \A p \in Proc : ~wfd[p] /\ ~InCall(p, "write")

IsReadEndClosed == \A p \in Proc : ~rfd[p] /\ ~InCall(p, "read")

\* Mutant: a read that empties the buffer leaves HasSome.
ReadByteStatus ==
    /\ got' = buf[head]
    /\ head' = (head + 1) % Size
    /\ status' = "HasSome"
    /\ UNCHANGED <<buf, tail, eof, cut, fault>>

\* buf[buf_off] = read_byte().unwrap()
ReadByte ==
    IF status = "Empty"
    THEN /\ fault' = "panic"
         /\ UNCHANGED <<ring, got, eof, cut>>
    ELSE /\ got' = buf[head]
         /\ head' = (head + 1) % Size
         /\ status' = IF head' = tail THEN "Empty" ELSE "HasSome"
         /\ UNCHANGED <<buf, tail, eof, cut, fault>>

\* write_byte(buf[buf_off]), whose result write ignores.
WriteByte(b) ==
    IF status = "Full"
    THEN /\ fault' = "lost"
         /\ UNCHANGED <<ring, got, eof, cut>>
    ELSE /\ buf' = [buf EXCEPT ![tail] = b]
         /\ tail' = (tail + 1) % Size
         /\ status' = IF tail' = head THEN "Full" ELSE "HasSome"
         /\ UNCHANGED <<head, results>>

------------------------------------------------------------------------------
\* sys_read and sys_write: the entry of the fd table is cloned, the table's
\* lock released, and the loop entered.
SysRead(p, n) ==
    /\ pc[p] = "idle" /\ rfd[p]
    /\ pc' = [pc EXCEPT ![p] = "loop"]
    /\ op' = [op EXCEPT ![p] = "read"]
    /\ need' = [need EXCEPT ![p] = n]
    /\ UNCHANGED <<ring, lock, left, fds, results>>

SysWrite(p, n) ==
    /\ pc[p] = "idle" /\ wfd[p]
    /\ pc' = [pc EXCEPT ![p] = "loop"]
    /\ op' = [op EXCEPT ![p] = "write"]
    /\ need' = [need EXCEPT ![p] = n]
    /\ UNCHANGED <<ring, lock, left, fds, results>>

\* Mutant: the available count is used without the lock being free.
LockUnchecked(p, o, available) ==
    /\ pc[p] = "loop" /\ op[p] = o
    /\ available > 0
    /\ lock' = p
    /\ left' = [left EXCEPT ![p] = available]
    /\ pc' = [pc EXCEPT ![p] = "copy"]
    /\ UNCHANGED <<ring, op, need, fds, results>>

\* The head of the loop: the lock is taken, what is available is read once
\* and bounds the for loop.
Lock(p, o, available) ==
    /\ pc[p] = "loop" /\ op[p] = o
    /\ lock = NoProc
    /\ available > 0
    /\ lock' = p
    /\ left' = [left EXCEPT ![p] = available]
    /\ pc' = [pc EXCEPT ![p] = "copy"]
    /\ UNCHANGED <<ring, op, need, fds, results>>

\* Nothing available and the other end open: the lock is dropped and the task
\* suspended; it comes back to the head of the loop.
Suspend(p, o, available, closed) ==
    /\ pc[p] = "loop" /\ op[p] = o
    /\ lock = NoProc
    /\ available = 0 /\ ~closed
    /\ UNCHANGED vars

\* Nothing available and the other end closed: the call returns what it has.
ReadShort(p) ==
    /\ pc[p] = "loop" /\ op[p] = "read"
    /\ lock = NoProc
    /\ AvailableRead = 0 /\ IsWriteEndClosed
    /\ pc' = [pc EXCEPT ![p] = "return"]
    /\ eof' = TRUE
    /\ UNCHANGED <<ring, lock, op, need, left, fds, got, cut, fault>>

WriteShort(p) ==
    /\ pc[p] = "loop" /\ op[p] = "write"
    /\ lock = NoProc
    /\ AvailableWrite = 0 /\ IsReadEndClosed
    /\ pc' = [pc EXCEPT ![p] = "return"]
    /\ cut' = TRUE
    /\ UNCHANGED <<ring, lock, op, need, left, fds, got, eof, fault>>

\* Mutant: the loop is left for suspension with the lock still held.
AdvanceKeepsLock(p) ==
    /\ need' = [need EXCEPT ![p] = @ - 1]
    /\ left' = [left EXCEPT ![p] = @ - 1]
    /\ pc' = [pc EXCEPT ![p] = IF need[p] = 1 THEN "return"
                               ELSE IF left[p] = 1 THEN "loop" ELSE "copy"]
    /\ lock' = IF pc'[p] = "return" THEN NoProc ELSE lock
    /\ UNCHANGED <<op, fds>>

\* The counters after one byte.  A call that has everything returns; one that
\* used up the for loop drops the lock and starts over.
Advance(p) ==
    /\ need' = [need EXCEPT ![p] = @ - 1]
    /\ left' = [left EXCEPT ![p] = @ - 1]
    /\ pc' = [pc EXCEPT ![p] = IF need[p] = 1 THEN "return"
                               ELSE IF left[p] = 1 THEN "loop" ELSE "copy"]
    /\ lock' = IF pc'[p] = "copy" THEN lock ELSE NoProc
    /\ UNCHANGED <<op, fds>>

CopyOut(p) ==
    /\ pc[p] = "copy" /\ op[p] = "read"
    /\ ReadByte
    /\ Advance(p)

CopyIn(p, b) ==
    /\ pc[p] = "copy" /\ op[p] = "write"
    /\ WriteByte(b)
    /\ Advance(p)

\* sys_read and sys_write return: the clone of the entry is dropped.
Return(p) ==
    /\ pc[p] = "return"
    /\ pc' = [pc EXCEPT ![p] = "idle"]
    /\ need' = [need EXCEPT ![p] = 0]
    /\ left' = [left EXCEPT ![p] = 0]
    /\ UNCHANGED <<ring, lock, op, fds, results>>

------------------------------------------------------------------------------
\* close on one end, also by a thread that shares the fd table while p is
\* inside a read or write; the end of a process closes both, one by one.
CloseRead(p) ==
    /\ rfd[p]
    /\ rfd' = [rfd EXCEPT ![p] = FALSE]
    /\ UNCHANGED <<ring, lock, call, wfd, results>>

CloseWrite(p) ==
    /\ wfd[p]
    /\ wfd' = [wfd EXCEPT ![p] = FALSE]
    /\ UNCHANGED <<ring, lock, call, rfd, results>>

\* p forks q, whose new fd table gets the ends that p's has.
Inherit(p, q) ==
    /\ pc[p] = "idle" /\ pc[q] = "idle"
    /\ rfd[p] \/ wfd[p]
    /\ ~rfd[q] /\ ~wfd[q]
    /\ rfd' = [rfd EXCEPT ![q] = rfd[p]]
    /\ wfd' = [wfd EXCEPT ![q] = wfd[p]]
    /\ UNCHANGED <<ring, lock, call, results>>

ReadStep(p) ==
    \/ Lock(p, "read", AvailableRead)
    \/ Suspend(p, "read", AvailableRead, IsWriteEndClosed)
    \/ ReadShort(p)
    \/ CopyOut(p)

WriteStep(p) ==
    \/ Lock(p, "write", AvailableWrite)
    \/ Suspend(p, "write", AvailableWrite, IsReadEndClosed)
    \/ WriteShort(p)
    \/ \E b \in Byte : CopyIn(p, b)

\* What a process does once it is inside a call.
Step(p) == ReadStep(p) \/ WriteStep(p) \/ Return(p)

Next ==
    \E p \in Proc :
        \/ \E n \in Count : SysRead(p, n) \/ SysWrite(p, n)
        \/ Step(p)
        \/ CloseRead(p)
        \/ CloseWrite(p)
        \/ \E q \in Proc : Inherit(p, q)

Spec == Init /\ [][Next]_vars

------------------------------------------------------------------------------
TypeOK ==
    /\ buf \in [Indices -> Byte]
    /\ status \in {"Empty", "HasSome", "Full"}
    /\ head \in Indices /\ tail \in Indices
    /\ lock \in Proc \cup {NoProc}
    /\ pc \in [Proc -> {"idle", "loop", "copy", "return"}]
    /\ op \in [Proc -> {"read", "write"}]
    /\ need \in [Proc -> Nat]
    /\ left \in [Proc -> 0..Size]
    /\ rfd \in [Proc -> BOOLEAN] /\ wfd \in [Proc -> BOOLEAN]
    /\ got \in Byte
    /\ eof \in BOOLEAN /\ cut \in BOOLEAN
    /\ fault \in {"none", "panic", "lost"}

\* The for loops trust a count they read before the loop: read unwraps what
\* read_byte returns and write ignores what write_byte returns.  No unwrap
\* ever meets None and no byte is ever dropped, whatever the other calls do.
NoFault == fault = "none"

\* Once a read was told of the end of the stream, the pipe is empty and stays
\* so: a write that was in progress when the last descriptor of the write end
\* was closed has finished before.
EofFinal == eof => AvailableRead = 0 /\ IsWriteEndClosed

\* Once a write was cut short, the read end is gone for good: no read in
\* progress, and no descriptor, is left that could have taken the rest.
CutFinal == cut => AvailableWrite = 0 /\ IsReadEndClosed

\* The bytes from head on, in the order read_byte will meet them.
Contents ==
    [i \in 1..AvailableRead |->
        buf[IF head + i - 1 < Size THEN head + i - 1 ELSE head + i - 1 - Size]]

\* The ring, its lock and the reference counts implement the channel: bytes
\* come out unchanged and in order, at most Size are under way, an end closes
\* once, and short counts are returned only when the channel allows it.
Chan == INSTANCE Channel WITH
    Capacity <- Size, chan <- Contents, out <- got,
    readable <- ~IsReadEndClosed, writable <- ~IsWriteEndClosed

ImplementsChannel == Chan!ChannelSpec

\* A task inside a call is scheduled again and again (run_task takes the
\* queue in order), so it makes the step it can make.
Fairness == \A p \in Proc : WF_vars(Step(p))

FairSpec == Spec /\ Fairness

\* A read returns once the write end is closed, however many readers share
\* what is left, and a write once the read end is: the polling loops of
\* PipeRead and PipeWrite never wait for one another.
CallsReturn ==
    \A p \in Proc :
        /\ InCall(p, "read") /\ IsWriteEndClosed ~> ~InCall(p, "read")
        /\ InCall(p, "write") /\ IsReadEndClosed ~> ~InCall(p, "write")
==============================================================================
