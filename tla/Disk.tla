-------------------------------- MODULE Disk --------------------------------
(***************************************************************************)
(* The block device with a cursor that the kernel gives to lwext4          *)
(* (fs/ext4/disk.rs): KernelDevOp::seek, read and write over the sectors   *)
(* of the virtio driver.  read and write are loops of read_one and         *)
(* write_one, one sector at most each; a step of the model is one of them. *)
(* lwext4 makes one call at a time.                                        *)
(*                                                                         *)
(* The device is kept as its bytes; a sector is a window of SectorSize of  *)
(* them.  The driver panics when a sector is outside the device.           *)
(***************************************************************************)
EXTENDS Integers

CONSTANTS
    SectorSize,     \* SECTOR_SIZE
    Sectors,        \* the number of sectors of the device
    Byte,           \* the values of a byte
    Blank,          \* the byte a buffer is initialised with
    Buffers,        \* the buffers lwext4 writes, with their lengths
    Lengths,        \* the lengths it reads
    Offsets,        \* the offsets it seeks to
    Word            \* 2^64

ASSUME DiskAssumption ==
    /\ SectorSize \in Nat \ {0} /\ Sectors \in Nat /\ Word \in Nat
    /\ SectorSize * Sectors <= Word
    /\ Blank \in Byte
    /\ Lengths \subseteq Nat /\ Offsets \subseteq Int
    /\ \A b \in Buffers : b.len \in Nat /\ b.data \in [0 .. b.len - 1 -> Byte]

VARIABLES
    block_id,       \* Disk::block_id
    offset,         \* Disk::offset
    bytes,          \* the device
    job,            \* the call under way
    broken          \* the driver has panicked

diskVars == <<block_id, offset, bytes, job, broken>>

Size == SectorSize * Sectors

\* A call: what it does, its length, the caller's buffer, how much of it is
\* done, and (for the properties) the position it started at and the device as
\* it was then.
Job(op, n, b, p, d) == [op |-> op, len |-> n, buf |-> b, done |-> 0,
                        start |-> p, before |-> d]
NoJob(d) == Job("none", 0, <<>>, 0, d)

DiskInit ==
    /\ block_id = 0
    /\ offset = 0
    /\ bytes = [i \in 0 .. Size - 1 |-> Blank]
    /\ job = NoJob(bytes)
    /\ broken = FALSE

position == block_id * SectorSize + offset

SetPosition(p) ==
    /\ block_id' = p \div SectorSize
    /\ offset' = p % SectorSize

\* seek: SEEK_SET takes any offset as an unsigned number; the other two fail
\* below zero.
Seek(off, whence) ==
    LET new == CASE whence = "SEEK_CUR" -> position + off
                 [] whence = "SEEK_END" -> Size + off
                 [] OTHER -> off % Word
    IN  /\ job.op = "none" /\ ~broken
        /\ new \in 0 .. Word - 1
        /\ SetPosition(new)
        /\ UNCHANGED <<bytes, job, broken>>

SeekFails(off, whence) ==
    /\ job.op = "none" /\ ~broken
    /\ \/ whence = "SEEK_CUR" /\ position + off < 0
       \/ whence = "SEEK_END" /\ Size + off < 0
    /\ UNCHANGED diskVars

Call(op, n, b) ==
    /\ job.op = "none" /\ ~broken
    /\ job' = Job(op, n, b, position, bytes)
    /\ UNCHANGED <<block_id, offset, bytes, broken>>

StartRead(n) == Call("read", n, [i \in 0 .. n - 1 |-> Blank])
StartWrite(b) == Call("write", b.len, b.data)

\* VirtIOBlock::read_block and write_block reach the device, or panic.
InRange == block_id < Sectors

\* The whole sector when the cursor is at its start and the buffer long enough,
\* the rest of the sector otherwise.
Count == IF job.len - job.done < SectorSize - offset
         THEN job.len - job.done
         ELSE SectorSize - offset

Whole == offset = 0 /\ job.len - job.done >= SectorSize

\* Mutant: a cursor that reaches the end of the sector stays in it.
AdvanceWithin ==
    IF Whole THEN block_id' = block_id + 1 /\ offset' = offset
    ELSE IF offset + Count > SectorSize
    THEN block_id' = block_id + 1 /\ offset' = offset + Count - SectorSize
    ELSE block_id' = block_id /\ offset' = offset + Count

Advance ==
    IF Whole THEN block_id' = block_id + 1 /\ offset' = offset
    ELSE IF offset + Count >= SectorSize
    THEN block_id' = block_id + 1 /\ offset' = offset + Count - SectorSize
    ELSE block_id' = block_id /\ offset' = offset + Count

ReadOne ==
    /\ job.op = "read" /\ job.done < job.len /\ InRange /\ ~broken
    /\ job' = [job EXCEPT !.done = @ + Count,
                 !.buf = [i \in 0 .. job.len - 1 |->
                            IF i \in job.done .. job.done + Count - 1
                            THEN bytes[block_id * SectorSize + offset
                                         + (i - job.done)]
                            ELSE @[i]]]
    /\ Advance
    /\ UNCHANGED <<bytes, broken>>

\* Mutant: the partial write does not read the sector first.
SectorAfterBlank ==
    [i \in 0 .. SectorSize - 1 |->
        IF i \in offset .. offset + Count - 1
        THEN job.buf[job.done + i - offset]
        ELSE Blank]

\* The sector as write_one leaves it.
SectorAfter ==
    [i \in 0 .. SectorSize - 1 |->
        IF i \in offset .. offset + Count - 1
        THEN job.buf[job.done + i - offset]
        ELSE bytes[block_id * SectorSize + i]]

WriteOne ==
    /\ job.op = "write" /\ job.done < job.len /\ InRange /\ ~broken
    /\ bytes' = [p \in 0 .. Size - 1 |->
                    IF p \in block_id * SectorSize
                               .. block_id * SectorSize + SectorSize - 1
                    THEN SectorAfter[p - block_id * SectorSize]
                    ELSE bytes[p]]
    /\ job' = [job EXCEPT !.done = @ + Count]
    /\ Advance
    /\ UNCHANGED broken

OutOfRange ==
    /\ job.done < job.len /\ ~InRange /\ ~broken
    /\ broken' = TRUE
    /\ UNCHANGED <<block_id, offset, bytes, job>>

\* The loop ends with the buffer, and the call returns.
Return ==
    /\ job.op # "none" /\ job.done = job.len /\ ~broken
    /\ job' = NoJob(bytes)
    /\ UNCHANGED <<block_id, offset, bytes, broken>>

DiskNext ==
    \/ \E off \in Offsets, whence \in {"SEEK_SET", "SEEK_CUR", "SEEK_END"} :
         Seek(off, whence) \/ SeekFails(off, whence)
    \/ \E n \in Lengths : StartRead(n)
    \/ \E b \in Buffers : StartWrite(b)
    \/ ReadOne
    \/ WriteOne
    \/ OutOfRange
    \/ Return

DiskSpec == DiskInit /\ [][DiskNext]_diskVars

-----------------------------------------------------------------------------

\* The cursor is always inside its sector: read_one subtracts a partial count
\* from SECTOR_SIZE - offset and slices with it.
DiskTypeOK ==
    /\ block_id \in Nat
    /\ offset \in 0 .. SectorSize - 1
    /\ bytes \in [0 .. Size - 1 -> Byte]
    /\ job.op \in {"none", "read", "write"}
    /\ job.done \in 0 .. job.len
    /\ broken \in BOOLEAN

\* A call that has moved n bytes has advanced the cursor by n from where it
\* started.  A read has then the n bytes of the device from there and has
\* changed none; a write has stored its first n bytes there and every other
\* byte of the device, those of the sectors it wrote in part included, is as
\* it was before the call (KernelDevOp::read and write).
TransferRight ==
    /\ job.op # "none" => position = job.start + job.done
    /\ job.op # "write" => bytes = job.before
    /\ job.op = "read" =>
         \A i \in 0 .. job.done - 1 : job.buf[i] = bytes[job.start + i]
    /\ job.op = "write" =>
         \A p \in 0 .. Size - 1 :
            bytes[p] = IF p \in job.start .. job.start + job.done - 1
                       THEN job.buf[p - job.start]
                       ELSE job.before[p]

=============================================================================
