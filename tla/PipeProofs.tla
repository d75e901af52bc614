------------------------------ MODULE PipeProofs -----------------------------
(****************************************************************************)
(* The properties of Pipe for every number of processes, every capacity and *)
(* every set of bytes.                                                      *)
(****************************************************************************)
EXTENDS Pipe, TLAPS

\* Stepping an index of the ring: the only wrap is from Size - 1 to 0.
LEMMA Wrap ==
    ASSUME NEW i \in Indices
    PROVE  (i + 1) % Size = IF i + 1 = Size THEN 0 ELSE i + 1
BY SizeAssumption DEF Indices

\* The status field tells apart the two meanings of head = tail.
RingInv == (status = "HasSome") <=> (head # tail)

\* The lock is held exactly by the process that is in its for loop.
LockInv == \A p \in Proc : pc[p] = "copy" <=> lock = p

\* A for loop never has more iterations left than the ring has bytes (or
\* room): the count that bounds it is still valid when it is used.
LoopInv ==
    \A p \in Proc :
        /\ pc[p] \in {"loop", "copy"} => need[p] >= 1
        /\ pc[p] = "copy" =>
              /\ left[p] >= 1
              /\ op[p] = "read" => left[p] <= AvailableRead
              /\ op[p] = "write" => left[p] <= AvailableWrite

\* The inductive invariant.
IInv ==
    /\ TypeOK /\ RingInv /\ LockInv /\ LoopInv
    /\ NoFault /\ EofFinal /\ CutFinal

\* What the two counters say of the status.
LEMMA Available ==
    ASSUME TypeOK, RingInv
    PROVE  /\ AvailableRead \in 0..Size
           /\ AvailableWrite = Size - AvailableRead
           /\ (AvailableRead = 0) <=> (status = "Empty")
           /\ (AvailableRead = Size) <=> (status = "Full")
BY SizeAssumption DEF TypeOK, RingInv, AvailableRead, AvailableWrite, Indices

\* read_byte takes one byte from the ring.
LEMMA ReadByteFacts ==
    ASSUME TypeOK, RingInv, AvailableRead > 0, ReadByte
    PROVE  /\ buf' \in [Indices -> Byte]
           /\ status' \in {"Empty", "HasSome", "Full"}
           /\ head' \in Indices /\ tail' \in Indices
           /\ RingInv'
           /\ AvailableRead' = AvailableRead - 1
           /\ AvailableWrite' = AvailableWrite + 1
           /\ got' \in Byte
           /\ UNCHANGED <<eof, cut, fault>>
<1>1. status # "Empty"
  BY Available
<1>2. head' = IF head + 1 = Size THEN 0 ELSE head + 1
  BY <1>1, Wrap DEF ReadByte, TypeOK
<1>3. /\ got' = buf[head]
      /\ status' = IF head' = tail THEN "Empty" ELSE "HasSome"
      /\ UNCHANGED <<buf, tail, eof, cut, fault>>
  BY <1>1 DEF ReadByte
<1>4. head' \in Indices
  BY <1>2, SizeAssumption DEF TypeOK, Indices
<1>5. RingInv'
  BY <1>3 DEF RingInv
<1>6. AvailableRead' = AvailableRead - 1
  BY <1>1, <1>2, <1>3, SizeAssumption
     DEF TypeOK, RingInv, AvailableRead, Indices
<1>7. AvailableWrite' = Size - AvailableRead'
  BY <1>2, <1>3, <1>5, SizeAssumption
     DEF TypeOK, RingInv, AvailableRead, AvailableWrite, Indices
<1>8. AvailableRead \in 0..Size /\ AvailableWrite = Size - AvailableRead
  BY Available
<1>9. AvailableWrite' = AvailableWrite + 1
  BY <1>6, <1>7, <1>8, SizeAssumption
<1> QED
  BY <1>3, <1>4, <1>5, <1>6, <1>9 DEF TypeOK

\* write_byte adds one byte to the ring.
LEMMA WriteByteFacts ==
    ASSUME TypeOK, RingInv, AvailableWrite > 0, NEW b \in Byte, WriteByte(b)
    PROVE  /\ buf' \in [Indices -> Byte]
           /\ status' \in {"Empty", "HasSome", "Full"}
           /\ head' \in Indices /\ tail' \in Indices
           /\ RingInv'
           /\ AvailableRead' = AvailableRead + 1
           /\ AvailableWrite' = AvailableWrite - 1
           /\ UNCHANGED results
<1>1. status # "Full"
  BY Available, SizeAssumption
<1>2. tail' = IF tail + 1 = Size THEN 0 ELSE tail + 1
  BY <1>1, Wrap DEF WriteByte, TypeOK
<1>3. /\ buf' = [buf EXCEPT ![tail] = b]
      /\ status' = IF tail' = head THEN "Full" ELSE "HasSome"
      /\ UNCHANGED <<head, results>>
  BY <1>1 DEF WriteByte
<1>4. tail' \in Indices
  BY <1>2, SizeAssumption DEF TypeOK, Indices
<1>5. RingInv'
  BY <1>3 DEF RingInv
<1>6. AvailableRead' = AvailableRead + 1
  BY <1>1, <1>2, <1>3, SizeAssumption
     DEF TypeOK, RingInv, AvailableRead, Indices
<1>7. AvailableWrite' = Size - AvailableRead'
  BY <1>2, <1>3, <1>5, SizeAssumption
     DEF TypeOK, RingInv, AvailableRead, AvailableWrite, Indices
<1>8. AvailableRead \in 0..Size /\ AvailableWrite = Size - AvailableRead
  BY Available
<1>9. AvailableWrite' = AvailableWrite - 1
  BY <1>6, <1>7, <1>8, SizeAssumption
<1>10. buf' \in [Indices -> Byte]
  BY <1>3 DEF TypeOK
<1> QED
  BY <1>3, <1>4, <1>5, <1>6, <1>9, <1>10 DEF TypeOK

------------------------------------------------------------------------------
\* The ring is new and empty, nobody is inside a call.
LEMMA InitInv == Init => IInv
<1> SUFFICES ASSUME Init PROVE IInv
  OBVIOUS
<1>1. TypeOK
  <2>1. rfd \in [Proc -> BOOLEAN] /\ wfd \in [Proc -> BOOLEAN]
    BY Zenon DEF Init
  <2>2. /\ head \in Indices /\ tail \in Indices
        /\ left \in [Proc -> 0..Size] /\ need \in [Proc -> Nat]
    BY SizeAssumption DEF Init, Indices
  <2> QED
    BY <2>1, <2>2, ByteAssumption, Zenon DEF Init, TypeOK
<1>2. RingInv /\ LockInv /\ LoopInv
  BY ProcAssumption DEF Init, RingInv, LockInv, LoopInv
<1>3. NoFault /\ EofFinal /\ CutFinal
  BY DEF Init, NoFault, EofFinal, CutFinal
<1> QED
  BY <1>1, <1>2, <1>3 DEF IInv

\* An end once closed stays closed when the ring and the results are left
\* alone: only a process that has the end passes it on or starts a call.
LEMMA EndsInv ==
    ASSUME TypeOK, EofFinal, CutFinal, UNCHANGED <<ring, eof, cut>>,
           IsWriteEndClosed => IsWriteEndClosed',
           IsReadEndClosed => IsReadEndClosed'
    PROVE  EofFinal' /\ CutFinal'
<1>1. AvailableRead' = AvailableRead /\ AvailableWrite' = AvailableWrite
  BY DEF ring, AvailableRead, AvailableWrite
<1> QED
  BY <1>1 DEF EofFinal, CutFinal

\* sys_read and sys_write up to the loop.
LEMMA SysCallInv ==
    ASSUME IInv, NEW p \in Proc, NEW n \in Count,
           SysRead(p, n) \/ SysWrite(p, n)
    PROVE  IInv'
<1> USE DEF IInv
<1>1. PICK o \in {"read", "write"} :
        /\ pc[p] = "idle"
        /\ IF o = "read" THEN rfd[p] ELSE wfd[p]
        /\ pc' = [pc EXCEPT ![p] = "loop"]
        /\ op' = [op EXCEPT ![p] = o]
        /\ need' = [need EXCEPT ![p] = n]
        /\ UNCHANGED <<ring, lock, left, fds, results>>
  BY DEF SysRead, SysWrite
<1>2. TypeOK'
  BY <1>1, SizeAssumption DEF TypeOK, ring, fds, results
<1>3. AvailableRead' = AvailableRead /\ AvailableWrite' = AvailableWrite
  BY <1>1 DEF ring, AvailableRead, AvailableWrite
<1>4. RingInv' /\ NoFault'
  BY <1>1 DEF RingInv, NoFault, ring, results
<1>5. LockInv'
  BY <1>1 DEF TypeOK, LockInv
<1>6. LoopInv'
  BY <1>1, <1>3, SizeAssumption DEF TypeOK, LoopInv
<1>7. IsWriteEndClosed => IsWriteEndClosed'
  BY <1>1 DEF TypeOK, IsWriteEndClosed, InCall, fds
<1>8. IsReadEndClosed => IsReadEndClosed'
  BY <1>1 DEF TypeOK, IsReadEndClosed, InCall, fds
<1>9. EofFinal' /\ CutFinal'
  BY <1>1, <1>7, <1>8, EndsInv DEF results
<1> QED
  BY <1>2, <1>4, <1>5, <1>6, <1>9

\* Entering the for loop.
LEMMA LockStepInv ==
    ASSUME IInv, NEW p \in Proc, NEW o,
           \/ o = "read" /\ Lock(p, o, AvailableRead)
           \/ o = "write" /\ Lock(p, o, AvailableWrite)
    PROVE  IInv'
<1> USE DEF IInv
<1>1. /\ pc[p] = "loop" /\ op[p] = o
      /\ lock = NoProc /\ lock' = p
      /\ pc' = [pc EXCEPT ![p] = "copy"]
      /\ UNCHANGED <<ring, op, need, fds, results>>
  BY DEF Lock
<1>2. \/ /\ o = "read" /\ AvailableRead > 0
         /\ left' = [left EXCEPT ![p] = AvailableRead]
      \/ /\ o = "write" /\ AvailableWrite > 0
         /\ left' = [left EXCEPT ![p] = AvailableWrite]
  BY DEF Lock
<1>3. AvailableRead \in 0..Size /\ AvailableWrite \in 0..Size
  BY Available, SizeAssumption
<1>4. AvailableRead' = AvailableRead /\ AvailableWrite' = AvailableWrite
  BY <1>1 DEF ring, AvailableRead, AvailableWrite
<1>5. TypeOK'
  BY <1>1, <1>2, <1>3 DEF TypeOK, ring, fds, results
<1>6. RingInv' /\ NoFault'
  BY <1>1 DEF RingInv, NoFault, ring, results
<1>7. LockInv'
  BY <1>1, ProcAssumption DEF TypeOK, LockInv
<1>8. LoopInv'
  BY <1>1, <1>2, <1>3, <1>4 DEF TypeOK, LoopInv
<1>9. IsWriteEndClosed => IsWriteEndClosed'
  BY <1>1 DEF TypeOK, IsWriteEndClosed, InCall, fds
<1>10. IsReadEndClosed => IsReadEndClosed'
  BY <1>1 DEF TypeOK, IsReadEndClosed, InCall, fds
<1>11. EofFinal' /\ CutFinal'
  BY <1>1, <1>9, <1>10, EndsInv DEF results
<1> QED
  BY <1>5, <1>6, <1>7, <1>8, <1>11

\* Returning with a short count: the ends are as the call found them.
LEMMA ShortInv ==
    ASSUME IInv, NEW p \in Proc, ReadShort(p) \/ WriteShort(p)
    PROVE  IInv'
<1> USE DEF IInv
<1>1. /\ pc[p] = "loop" /\ lock = NoProc
      /\ pc' = [pc EXCEPT ![p] = "return"]
      /\ UNCHANGED <<ring, lock, op, need, left, fds, got, fault>>
  BY DEF ReadShort, WriteShort
<1>2. \/ /\ AvailableRead = 0 /\ IsWriteEndClosed
         /\ eof' = TRUE /\ cut' = cut
      \/ /\ AvailableWrite = 0 /\ IsReadEndClosed
         /\ cut' = TRUE /\ eof' = eof
  BY DEF ReadShort, WriteShort
<1>3. AvailableRead' = AvailableRead /\ AvailableWrite' = AvailableWrite
  BY <1>1 DEF ring, AvailableRead, AvailableWrite
<1>4. TypeOK'
  BY <1>1, <1>2, Zenon DEF TypeOK, ring, fds
<1>5. RingInv' /\ NoFault'
  BY <1>1 DEF RingInv, NoFault, ring
<1>6. LockInv'
  BY <1>1, ProcAssumption DEF TypeOK, LockInv
<1>7. LoopInv'
  BY <1>1, <1>3 DEF TypeOK, LoopInv
<1>8. IsWriteEndClosed => IsWriteEndClosed'
  BY <1>1 DEF TypeOK, IsWriteEndClosed, InCall, fds
<1>9. IsReadEndClosed => IsReadEndClosed'
  BY <1>1 DEF TypeOK, IsReadEndClosed, InCall, fds
<1>10. EofFinal' /\ CutFinal'
  BY <1>2, <1>3, <1>8, <1>9 DEF EofFinal, CutFinal
<1> QED
  BY <1>4, <1>5, <1>6, <1>7, <1>10

\* The counters after one byte: the lock is given up exactly when the for
\* loop is left, and what is left of the loop is one less.
LEMMA AdvanceFacts ==
    ASSUME TypeOK, LockInv, LoopInv, NEW p \in Proc, pc[p] = "copy", Advance(p)
    PROVE  /\ lock' \in Proc \cup {NoProc}
           /\ pc' \in [Proc -> {"idle", "loop", "copy", "return"}]
           /\ need' \in [Proc -> Nat]
           /\ left' \in [Proc -> 0..Size]
           /\ UNCHANGED <<op, rfd, wfd>>
           /\ LockInv'
           /\ pc'[p] # "idle"
           /\ pc'[p] \in {"loop", "copy"} => need'[p] >= 1
           /\ pc'[p] = "copy" => left'[p] >= 1
           /\ left'[p] = left[p] - 1
           /\ \A q \in Proc \ {p} :
                  /\ pc'[q] = pc[q] /\ pc[q] # "copy"
                  /\ need'[q] = need[q]
<1>1. lock = p /\ need[p] >= 1 /\ left[p] >= 1
  BY DEF LockInv, LoopInv
<1>2. /\ need' = [need EXCEPT ![p] = need[p] - 1]
      /\ left' = [left EXCEPT ![p] = left[p] - 1]
      /\ pc' = [pc EXCEPT ![p] = IF need[p] = 1 THEN "return"
                                 ELSE IF left[p] = 1 THEN "loop" ELSE "copy"]
      /\ lock' = IF pc'[p] = "copy" THEN lock ELSE NoProc
      /\ UNCHANGED <<op, rfd, wfd>>
  BY DEF Advance, fds
<1>3. need' \in [Proc -> Nat] /\ left' \in [Proc -> 0..Size]
  BY <1>1, <1>2, SizeAssumption DEF TypeOK
<1>4. /\ pc' \in [Proc -> {"idle", "loop", "copy", "return"}]
      /\ lock' \in Proc \cup {NoProc}
  BY <1>1, <1>2 DEF TypeOK
<1>5. \A q \in Proc \ {p} :
         pc'[q] = pc[q] /\ pc[q] # "copy" /\ need'[q] = need[q]
  BY <1>1, <1>2 DEF TypeOK, LockInv
<1>6. LockInv'
  BY <1>1, <1>2, <1>5, ProcAssumption DEF TypeOK, LockInv
<1>7. /\ pc'[p] # "idle"
      /\ pc'[p] \in {"loop", "copy"} => need'[p] >= 1
      /\ pc'[p] = "copy" => left'[p] >= 1
      /\ left'[p] = left[p] - 1
  BY <1>1, <1>2, SizeAssumption DEF TypeOK
<1> QED
  BY <1>2, <1>3, <1>4, <1>5, <1>6, <1>7

\* One byte to a reader.  The ring is not empty and the reader holds its end.
LEMMA CopyOutInv ==
    ASSUME IInv, NEW p \in Proc, CopyOut(p)
    PROVE  IInv'
<1> USE DEF IInv
<1>1. pc[p] = "copy" /\ op[p] = "read" /\ ReadByte /\ Advance(p)
  BY DEF CopyOut
<1>2. left[p] >= 1 /\ left[p] <= AvailableRead /\ left[p] \in 0..Size
  BY <1>1 DEF LoopInv, TypeOK
<1>3. AvailableRead \in 0..Size /\ AvailableRead > 0
  BY <1>2, Available, SizeAssumption
<1>4. /\ buf' \in [Indices -> Byte]
      /\ status' \in {"Empty", "HasSome", "Full"}
      /\ head' \in Indices /\ tail' \in Indices
      /\ RingInv'
      /\ AvailableRead' = AvailableRead - 1
      /\ got' \in Byte
      /\ UNCHANGED <<eof, cut, fault>>
  BY <1>1, <1>3, ReadByteFacts
<1>5. /\ lock' \in Proc \cup {NoProc}
      /\ pc' \in [Proc -> {"idle", "loop", "copy", "return"}]
      /\ need' \in [Proc -> Nat]
      /\ left' \in [Proc -> 0..Size]
      /\ UNCHANGED <<op, rfd, wfd>>
      /\ LockInv'
      /\ pc'[p] # "idle"
      /\ pc'[p] \in {"loop", "copy"} => need'[p] >= 1
      /\ pc'[p] = "copy" => left'[p] >= 1
      /\ left'[p] = left[p] - 1
      /\ \A q \in Proc \ {p} :
             /\ pc'[q] = pc[q] /\ pc[q] # "copy"
             /\ need'[q] = need[q]
  BY <1>1, AdvanceFacts
<1>6. TypeOK'
  BY <1>4, <1>5 DEF TypeOK
<1>7. LoopInv'
  <2> SUFFICES ASSUME NEW q \in Proc
               PROVE  /\ pc'[q] \in {"loop", "copy"} => need'[q] >= 1
                      /\ pc'[q] = "copy" =>
                            /\ left'[q] >= 1
                            /\ op'[q] = "read" => left'[q] <= AvailableRead'
                            /\ op'[q] = "write" => left'[q] <= AvailableWrite'
    BY DEF LoopInv
  <2>1. CASE q = p
    BY <2>1, <1>1, <1>2, <1>3, <1>4, <1>5
  <2>2. CASE q # p
    BY <2>2, <1>5 DEF LoopInv
  <2> QED
    BY <2>1, <2>2
<1>8. NoFault'
  BY <1>4 DEF NoFault
<1>9. ~eof
  BY <1>3 DEF EofFinal
<1>10. ~cut
  BY <1>1 DEF CutFinal, IsReadEndClosed, InCall
<1> QED
  BY <1>4, <1>5, <1>6, <1>7, <1>8, <1>9, <1>10 DEF EofFinal, CutFinal

\* One byte from a writer.  The ring is not full and the writer holds its end.
LEMMA CopyInInv ==
    ASSUME IInv, NEW p \in Proc, NEW b \in Byte, CopyIn(p, b)
    PROVE  IInv'
<1> USE DEF IInv
<1>1. pc[p] = "copy" /\ op[p] = "write" /\ WriteByte(b) /\ Advance(p)
  BY DEF CopyIn
<1>2. left[p] >= 1 /\ left[p] <= AvailableWrite /\ left[p] \in 0..Size
  BY <1>1 DEF LoopInv, TypeOK
<1>3. AvailableWrite \in 0..Size /\ AvailableWrite > 0
  BY <1>2, Available, SizeAssumption
<1>4. /\ buf' \in [Indices -> Byte]
      /\ status' \in {"Empty", "HasSome", "Full"}
      /\ head' \in Indices /\ tail' \in Indices
      /\ RingInv'
      /\ AvailableWrite' = AvailableWrite - 1
      /\ UNCHANGED <<got, eof, cut, fault>>
  BY <1>1, <1>3, WriteByteFacts DEF results
<1>5. /\ lock' \in Proc \cup {NoProc}
      /\ pc' \in [Proc -> {"idle", "loop", "copy", "return"}]
      /\ need' \in [Proc -> Nat]
      /\ left' \in [Proc -> 0..Size]
      /\ UNCHANGED <<op, rfd, wfd>>
      /\ LockInv'
      /\ pc'[p] # "idle"
      /\ pc'[p] \in {"loop", "copy"} => need'[p] >= 1
      /\ pc'[p] = "copy" => left'[p] >= 1
      /\ left'[p] = left[p] - 1
      /\ \A q \in Proc \ {p} :
             /\ pc'[q] = pc[q] /\ pc[q] # "copy"
             /\ need'[q] = need[q]
  BY <1>1, AdvanceFacts
<1>6. TypeOK'
  BY <1>4, <1>5 DEF TypeOK
<1>7. LoopInv'
  <2> SUFFICES ASSUME NEW q \in Proc
               PROVE  /\ pc'[q] \in {"loop", "copy"} => need'[q] >= 1
                      /\ pc'[q] = "copy" =>
                            /\ left'[q] >= 1
                            /\ op'[q] = "read" => left'[q] <= AvailableRead'
                            /\ op'[q] = "write" => left'[q] <= AvailableWrite'
    BY DEF LoopInv
  <2>1. CASE q = p
    BY <2>1, <1>1, <1>2, <1>3, <1>4, <1>5
  <2>2. CASE q # p
    BY <2>2, <1>5 DEF LoopInv
  <2> QED
    BY <2>1, <2>2
<1>8. NoFault'
  BY <1>4 DEF NoFault
<1>9. ~cut
  BY <1>3 DEF CutFinal
<1>10. ~eof
  BY <1>1 DEF EofFinal, IsWriteEndClosed, InCall
<1> QED
  BY <1>4, <1>5, <1>6, <1>7, <1>8, <1>9, <1>10 DEF EofFinal, CutFinal

\* Leaving the call, closing a descriptor, fork.
LEMMA ReferenceInv ==
    ASSUME IInv, NEW p \in Proc,
           \/ Return(p) \/ CloseRead(p) \/ CloseWrite(p)
           \/ \E q \in Proc : Inherit(p, q)
    PROVE  IInv'
<1> USE DEF IInv
<1>1. UNCHANGED <<ring, lock, op, got, eof, cut, fault>>
  BY DEF Return, CloseRead, CloseWrite, Inherit, call, results
<1>2. \/ /\ pc[p] = "return" /\ pc' = [pc EXCEPT ![p] = "idle"]
         /\ need' = [need EXCEPT ![p] = 0] /\ left' = [left EXCEPT ![p] = 0]
         /\ UNCHANGED <<rfd, wfd>>
      \/ UNCHANGED <<pc, need, left>>
  BY DEF Return, CloseRead, CloseWrite, Inherit, call, fds
<1>3. /\ rfd' \in [Proc -> BOOLEAN]
      /\ wfd' \in [Proc -> BOOLEAN]
      /\ (\E q \in Proc : rfd'[q]) => \E q \in Proc : rfd[q]
      /\ (\E q \in Proc : wfd'[q]) => \E q \in Proc : wfd[q]
  BY Zenon DEF TypeOK, Return, CloseRead, CloseWrite, Inherit, fds
<1>4. AvailableRead' = AvailableRead /\ AvailableWrite' = AvailableWrite
  BY <1>1 DEF ring, AvailableRead, AvailableWrite
<1>5. TypeOK'
  BY <1>1, <1>2, <1>3, SizeAssumption DEF TypeOK, ring
<1>6. RingInv' /\ NoFault'
  BY <1>1 DEF RingInv, NoFault, ring
<1>7. LockInv'
  BY <1>1, <1>2, ProcAssumption DEF TypeOK, LockInv
<1>8. LoopInv'
  BY <1>1, <1>2, <1>4 DEF TypeOK, LoopInv
<1>9. \A q \in Proc, o \in {"read", "write"} : InCall(q, o)' => InCall(q, o)
  BY <1>1, <1>2 DEF TypeOK, InCall
<1>10. IsWriteEndClosed => IsWriteEndClosed'
  BY <1>3, <1>9 DEF IsWriteEndClosed
<1>11. IsReadEndClosed => IsReadEndClosed'
  BY <1>3, <1>9 DEF IsReadEndClosed
<1>12. EofFinal' /\ CutFinal'
  BY <1>1, <1>10, <1>11, EndsInv
<1> QED
  BY <1>5, <1>6, <1>7, <1>8, <1>12

\* A step that leaves everything as it is.
LEMMA StutterInv == IInv /\ UNCHANGED vars => IInv'
BY DEF vars, ring, call, fds, results, IInv, TypeOK, RingInv, LockInv, LoopInv,
       NoFault, EofFinal, CutFinal, AvailableRead, AvailableWrite,
       IsWriteEndClosed, IsReadEndClosed, InCall

\* Every step preserves the inductive invariant.
LEMMA NextInv == IInv /\ [Next]_vars => IInv'
<1> SUFFICES ASSUME IInv, [Next]_vars PROVE IInv'
  OBVIOUS
<1>1. CASE UNCHANGED vars
  BY <1>1, StutterInv
<1>2. CASE Next
  <2>1. PICK p \in Proc :
          \/ \E n \in Count : SysRead(p, n) \/ SysWrite(p, n)
          \/ Step(p) \/ CloseRead(p) \/ CloseWrite(p)
          \/ \E q \in Proc : Inherit(p, q)
    BY <1>2 DEF Next
  <2>2. CASE \E n \in Count : SysRead(p, n) \/ SysWrite(p, n)
    BY <2>2, SysCallInv
  <2>3. CASE ReadStep(p)
    BY <2>3, LockStepInv, StutterInv, ShortInv, CopyOutInv
       DEF ReadStep, Suspend
  <2>4. CASE WriteStep(p)
    BY <2>4, LockStepInv, StutterInv, ShortInv, CopyInInv
       DEF WriteStep, Suspend
  <2>5. CASE \/ Return(p) \/ CloseRead(p) \/ CloseWrite(p)
             \/ \E q \in Proc : Inherit(p, q)
    BY <2>5, ReferenceInv
  <2> QED
    BY <2>1, <2>2, <2>3, <2>4, <2>5 DEF Step
<1> QED
  BY <1>1, <1>2

\* The inductive invariant holds in every reachable state.
THEOREM Invariance == Spec => []IInv
BY InitInv, NextInv, PTL DEF Spec

\* The fields of the ring stay in range: the two indices never leave the
\* buffer.
THEOREM TypeCorrect == Spec => []TypeOK
<1>1. IInv => TypeOK
  BY DEF IInv
<1> QED
  BY <1>1, Invariance, PTL

\* read_byte().unwrap() never panics and write_byte never drops a byte, for
\* any number of readers and writers.
THEOREM LoopsSafe == Spec => []NoFault
<1>1. IInv => NoFault
  BY DEF IInv
<1> QED
  BY <1>1, Invariance, PTL

\* The end of the stream, once reported, is final.
THEOREM EndOfStreamFinal == Spec => []EofFinal
<1>1. IInv => EofFinal
  BY DEF IInv
<1> QED
  BY <1>1, Invariance, PTL

\* A short write is reported only when nobody can read the rest.
THEOREM ShortWriteFinal == Spec => []CutFinal
<1>1. IInv => CutFinal
  BY DEF IInv
<1> QED
  BY <1>1, Invariance, PTL

------------------------------------------------------------------------------
\* Where the i-th byte of the pipe is in the ring.
Place(h, i) == IF h + i - 1 < Size THEN h + i - 1 ELSE h + i - 1 - Size

\* The contents are a sequence of the bytes between head and tail.
ContentsFact ==
    /\ Contents \in Seq(Byte)
    /\ Len(Contents) = AvailableRead
    /\ \A i \in 1..AvailableRead :
           Place(head, i) \in Indices /\ Contents[i] = buf[Place(head, i)]

\* They are one in every state the ring can be in.
LEMMA ContentsSeq == TypeOK /\ RingInv => ContentsFact
<1> SUFFICES ASSUME TypeOK, RingInv PROVE ContentsFact
  OBVIOUS
<1>1. AvailableRead \in 0..Size
  BY Available
<1>2. \A i \in 1..AvailableRead : Place(head, i) \in Indices
  BY <1>1, SizeAssumption DEF TypeOK, Indices, Place
<1>3. Contents = [i \in 1..AvailableRead |-> buf[Place(head, i)]]
  BY DEF Contents, Place
<1>4. \A i \in 1..AvailableRead : buf[Place(head, i)] \in Byte
  BY <1>2 DEF TypeOK
<1> HIDE DEF Contents, AvailableRead, Place
<1> QED
  BY <1>1, <1>2, <1>3, <1>4 DEF ContentsFact

\* read_byte returns the first byte of the contents and removes it.
LEMMA ContentsGet ==
    ASSUME TypeOK, RingInv, TypeOK', AvailableRead > 0, ReadByte
    PROVE  /\ Contents # <<>>
           /\ got' = Head(Contents)
           /\ Contents' = Tail(Contents)
<1>1. RingInv' /\ AvailableRead' = AvailableRead - 1
  BY ReadByteFacts
<1>2. AvailableRead \in 0..Size
  BY Available
<1>3. /\ got' = buf[head]
      /\ buf' = buf
      /\ head' = IF head + 1 = Size THEN 0 ELSE head + 1
  BY Available, Wrap DEF ReadByte, TypeOK
<1>4. /\ Contents \in Seq(Byte)
      /\ Len(Contents) = AvailableRead
      /\ \A i \in 1..AvailableRead : Contents[i] = buf[Place(head, i)]
  BY ContentsSeq DEF ContentsFact
<1>5. /\ Contents' \in Seq(Byte)
      /\ Len(Contents') = AvailableRead'
      /\ \A i \in 1..AvailableRead' : Contents'[i] = buf'[Place(head', i)]
  <2>1. ContentsFact'
    BY <1>1, ContentsSeq, PTL
  <2> QED
    BY <2>1 DEF ContentsFact
<1>6. Place(head, 1) = head
  BY SizeAssumption DEF TypeOK, Indices, Place
<1>7. \A i \in 1..(AvailableRead - 1) : Place(head', i) = Place(head, i + 1)
  BY <1>2, <1>3, SizeAssumption DEF TypeOK, Indices, Place
<1> HIDE DEF Contents, AvailableRead, Place
<1>8. Contents # <<>> /\ Head(Contents) = buf[head]
  BY <1>2, <1>4, <1>6
<1>9. Contents' = Tail(Contents)
  <2>1. Tail(Contents) \in Seq(Byte) /\ Len(Tail(Contents)) = AvailableRead - 1
    BY <1>4, <1>8
  <2>2. \A i \in 1..(AvailableRead - 1) : Tail(Contents)[i] = Contents[i + 1]
    BY <1>2, <1>4, <1>8
  <2>3. \A i \in 1..(AvailableRead - 1) : Contents'[i] = Contents[i + 1]
    BY <1>1, <1>2, <1>3, <1>4, <1>5, <1>7
  <2> QED
    BY <1>1, <1>2, <1>5, <2>1, <2>2, <2>3
<1> QED
  BY <1>3, <1>8, <1>9

\* write_byte appends its byte to the contents.
LEMMA ContentsPut ==
    ASSUME TypeOK, RingInv, TypeOK', AvailableWrite > 0,
           NEW b \in Byte, WriteByte(b)
    PROVE  /\ Len(Contents) < Size
           /\ Contents' = Append(Contents, b)
<1>1. RingInv' /\ AvailableRead' = AvailableRead + 1
  BY WriteByteFacts
<1>2. AvailableRead \in 0..Size /\ AvailableRead < Size
  BY Available, SizeAssumption
<1>3. /\ buf' = [buf EXCEPT ![tail] = b]
      /\ head' = head
  BY Available, SizeAssumption DEF WriteByte
<1>4. /\ Contents \in Seq(Byte)
      /\ Len(Contents) = AvailableRead
      /\ \A i \in 1..AvailableRead :
             Place(head, i) \in Indices /\ Contents[i] = buf[Place(head, i)]
  BY ContentsSeq DEF ContentsFact
<1>5. /\ Contents' \in Seq(Byte)
      /\ Len(Contents') = AvailableRead'
      /\ \A i \in 1..AvailableRead' : Contents'[i] = buf'[Place(head', i)]
  <2>1. ContentsFact'
    BY <1>1, ContentsSeq, PTL
  <2> QED
    BY <2>1 DEF ContentsFact
<1>6. Place(head, AvailableRead + 1) = tail
  BY <1>2, SizeAssumption
     DEF TypeOK, RingInv, Indices, Place, AvailableRead
<1>7. \A i \in 1..AvailableRead : Place(head, i) # tail
  BY <1>2, SizeAssumption
     DEF TypeOK, RingInv, Indices, Place, AvailableRead
<1> HIDE DEF Contents, AvailableRead, Place
<1>8. \A i \in 1..AvailableRead : Contents'[i] = Contents[i]
  <2> TAKE i \in 1..AvailableRead
  <2>1. i \in 1..AvailableRead'
    BY <1>1, <1>2
  <2>2. Contents'[i] = buf'[Place(head, i)]
    BY <1>3, <1>5, <2>1
  <2>3. buf'[Place(head, i)] = buf[Place(head, i)]
    BY <1>3, <1>4, <1>7 DEF TypeOK
  <2> QED
    BY <1>4, <2>2, <2>3
<1>9. Contents'[AvailableRead + 1] = b
  BY <1>1, <1>2, <1>3, <1>5, <1>6 DEF TypeOK
<1>10. Contents' = Append(Contents, b)
  <2>1. /\ Append(Contents, b) \in Seq(Byte)
        /\ Len(Append(Contents, b)) = AvailableRead + 1
        /\ \A i \in 1..AvailableRead : Append(Contents, b)[i] = Contents[i]
        /\ Append(Contents, b)[AvailableRead + 1] = b
    BY <1>2, <1>4
  <2> QED
    BY <1>1, <1>2, <1>5, <1>8, <1>9, <2>1
<1> QED
  BY <1>2, <1>4, <1>10

\* Whether an end is closed depends on who holds it.
LEMMA SameEnds ==
    ASSUME \A q \in Proc : rfd'[q] = rfd[q] /\ wfd'[q] = wfd[q],
           \A q \in Proc, o \in {"read", "write"} : InCall(q, o)' <=> InCall(q, o)
    PROVE  /\ IsReadEndClosed' <=> IsReadEndClosed
           /\ IsWriteEndClosed' <=> IsWriteEndClosed
BY DEF IsReadEndClosed, IsWriteEndClosed

\* The new pipe is a new channel.
LEMMA InitSim == Init => Chan!ChannelInit
<1> SUFFICES ASSUME Init PROVE Chan!ChannelInit
  OBVIOUS
<1>1. TypeOK /\ RingInv
  BY InitInv DEF IInv
<1>2. AvailableRead = 0
  BY DEF Init, AvailableRead
<1>3. Contents = <<>>
  BY <1>1, <1>2, ContentsSeq DEF ContentsFact
<1>4. ~IsReadEndClosed /\ ~IsWriteEndClosed
  BY ProcAssumption, Zenon DEF Init, IsReadEndClosed, IsWriteEndClosed
<1>5. got \in Byte /\ eof = FALSE /\ cut = FALSE
  BY ByteAssumption DEF Init
<1> QED
  BY <1>3, <1>4, <1>5 DEF Chan!ChannelInit

\* Steps that the channel does not see.
LEMMA QuietSim ==
    ASSUME IInv, UNCHANGED <<ring, got, eof, cut>>,
           IsReadEndClosed' <=> IsReadEndClosed,
           IsWriteEndClosed' <=> IsWriteEndClosed
    PROVE  UNCHANGED Chan!cvars
<1>1. Contents' = Contents
  BY DEF ring, Contents, AvailableRead
<1>2. (~IsReadEndClosed)' = ~IsReadEndClosed
  OBVIOUS
<1>3. (~IsWriteEndClosed)' = ~IsWriteEndClosed
  OBVIOUS
<1> QED
  BY <1>1, <1>2, <1>3 DEF Chan!cvars

\* Starting a call and entering a for loop.
LEMMA StartSim ==
    ASSUME IInv, NEW p \in Proc,
           \/ \E n \in Count : SysRead(p, n) \/ SysWrite(p, n)
           \/ Lock(p, "read", AvailableRead)
           \/ Lock(p, "write", AvailableWrite)
    PROVE  UNCHANGED Chan!cvars
<1>1. UNCHANGED <<ring, got, eof, cut>>
  BY DEF SysRead, SysWrite, Lock, results
<1>2. IsReadEndClosed' <=> IsReadEndClosed
  BY DEF IInv, TypeOK, SysRead, SysWrite, Lock, fds, IsReadEndClosed, InCall
<1>3. IsWriteEndClosed' <=> IsWriteEndClosed
  BY DEF IInv, TypeOK, SysRead, SysWrite, Lock, fds, IsWriteEndClosed, InCall
<1> QED
  BY <1>1, <1>2, <1>3, QuietSim

\* A short count is the end of the stream, or a write cut short.
LEMMA ShortSim ==
    ASSUME IInv, NEW p \in Proc, ReadShort(p) \/ WriteShort(p)
    PROVE  Chan!EndOfStream \/ Chan!CutShort
<1>1. /\ pc[p] = "loop" /\ pc' = [pc EXCEPT ![p] = "return"]
      /\ UNCHANGED <<buf, status, head, tail, op, rfd, wfd, got>>
  BY DEF ReadShort, WriteShort, ring, fds
<1>2. /\ IsReadEndClosed' <=> IsReadEndClosed
      /\ IsWriteEndClosed' <=> IsWriteEndClosed
  <2>1. \A q \in Proc, o \in {"read", "write"} :
           InCall(q, o)' <=> InCall(q, o)
    BY <1>1 DEF IInv, TypeOK, InCall
  <2> QED
    BY <1>1, <2>1, SameEnds
<1>3. Contents' = Contents
  BY <1>1 DEF Contents, AvailableRead
<1>4. /\ Contents \in Seq(Byte) /\ Len(Contents) = AvailableRead
      /\ AvailableRead \in 0..Size
      /\ AvailableWrite = Size - AvailableRead
  BY ContentsSeq, Available DEF IInv, ContentsFact
<1>5. CASE ReadShort(p)
  <2>1. /\ AvailableRead = 0 /\ IsWriteEndClosed
        /\ eof' = TRUE /\ cut' = cut /\ op[p] = "read"
    BY <1>5 DEF ReadShort
  <2>2. ~IsReadEndClosed
    BY <1>1, <2>1 DEF IsReadEndClosed, InCall
  <2>3. Contents = <<>>
    BY <1>4, <2>1
  <2> QED
    BY <1>1, <1>2, <1>3, <2>1, <2>2, <2>3 DEF Chan!EndOfStream
<1>6. CASE WriteShort(p)
  <2>1. /\ AvailableWrite = 0 /\ IsReadEndClosed
        /\ cut' = TRUE /\ eof' = eof /\ op[p] = "write"
    BY <1>6 DEF WriteShort
  <2>2. ~IsWriteEndClosed
    BY <1>1, <2>1 DEF IsWriteEndClosed, InCall
  <2>3. Len(Contents) = Size
    BY <1>4, <2>1, SizeAssumption
  <2> QED
    BY <1>1, <1>2, <1>3, <2>1, <2>2, <2>3 DEF Chan!CutShort
<1> QED
  BY <1>5, <1>6

\* A copied byte is a Get or a Put: the caller still holds its end.
LEMMA CopySim ==
    ASSUME IInv, IInv', NEW p \in Proc,
           CopyOut(p) \/ \E b \in Byte : CopyIn(p, b)
    PROVE  Chan!ChannelNext
<1>1. pc[p] = "copy" /\ Advance(p)
  BY DEF CopyOut, CopyIn
<1>2. /\ UNCHANGED <<op, rfd, wfd>>
      /\ pc'[p] # "idle"
      /\ \A q \in Proc \ {p} : pc'[q] = pc[q]
  BY <1>1, AdvanceFacts DEF IInv
<1>3. /\ IsReadEndClosed' <=> IsReadEndClosed
      /\ IsWriteEndClosed' <=> IsWriteEndClosed
  <2>1. \A q \in Proc, o \in {"read", "write"} :
           InCall(q, o)' <=> InCall(q, o)
    BY <1>1, <1>2 DEF InCall
  <2> QED
    BY <1>2, <2>1, SameEnds
<1>4. CASE CopyOut(p)
  <2>1. op[p] = "read" /\ ReadByte
    BY <1>4 DEF CopyOut
  <2>2. AvailableRead > 0
    BY <1>1, <2>1, Available, SizeAssumption DEF IInv, LoopInv, TypeOK
  <2>3. UNCHANGED <<eof, cut>>
    BY <2>1, <2>2, ReadByteFacts DEF IInv
  <2>4. Contents # <<>> /\ got' = Head(Contents) /\ Contents' = Tail(Contents)
    BY <2>1, <2>2, ContentsGet DEF IInv
  <2>5. ~IsReadEndClosed
    BY <1>1, <2>1 DEF IsReadEndClosed, InCall
  <2>6. Chan!Get
    BY <1>3, <2>3, <2>4, <2>5 DEF Chan!Get
  <2> QED
    BY <2>6 DEF Chan!ChannelNext
<1>5. CASE \E b \in Byte : CopyIn(p, b)
  <2>1. PICK b \in Byte : op[p] = "write" /\ WriteByte(b)
    BY <1>5 DEF CopyIn
  <2>2. AvailableWrite > 0
    BY <1>1, <2>1, Available, SizeAssumption DEF IInv, LoopInv, TypeOK
  <2>3. UNCHANGED <<got, eof, cut>>
    BY <2>1, <2>2, WriteByteFacts DEF IInv, results
  <2>4. Len(Contents) < Size /\ Contents' = Append(Contents, b)
    BY <2>1, <2>2, ContentsPut DEF IInv
  <2>5. ~IsWriteEndClosed
    BY <1>1, <2>1 DEF IsWriteEndClosed, InCall
  <2>6. Chan!Put(b)
    BY <1>3, <2>3, <2>4, <2>5 DEF Chan!Put
  <2> QED
    BY <2>6 DEF Chan!ChannelNext
<1> QED
  BY <1>4, <1>5

\* Dropping a reference closes an end, or changes nothing the channel sees.
LEMMA DropSim ==
    ASSUME IInv, NEW p \in Proc,
           \/ Return(p) \/ CloseRead(p) \/ CloseWrite(p)
           \/ \E q \in Proc : Inherit(p, q)
    PROVE  Chan!ChannelNext \/ UNCHANGED Chan!cvars
<1>1. UNCHANGED <<buf, status, head, tail, got, eof, cut>>
  BY DEF Return, CloseRead, CloseWrite, Inherit, ring, results
<1>2. Contents' = Contents
  BY <1>1 DEF Contents, AvailableRead
<1>3. /\ IsReadEndClosed => IsReadEndClosed'
      /\ IsWriteEndClosed => IsWriteEndClosed'
  BY DEF IInv, TypeOK, Return, CloseRead, CloseWrite, Inherit, call, fds,
         IsReadEndClosed, IsWriteEndClosed, InCall
<1>4. \/ IsReadEndClosed' <=> IsReadEndClosed
      \/ IsWriteEndClosed' <=> IsWriteEndClosed
  <2>1. CASE Return(p)
    <3>1. /\ pc' = [pc EXCEPT ![p] = "idle"]
          /\ UNCHANGED <<op, rfd, wfd>>
      BY <2>1 DEF Return, fds
    <3>2. CASE op[p] = "read"
      BY <3>1, <3>2 DEF IInv, TypeOK, IsWriteEndClosed, InCall
    <3>3. CASE op[p] = "write"
      BY <3>1, <3>3 DEF IInv, TypeOK, IsReadEndClosed, InCall
    <3> QED
      BY <3>2, <3>3 DEF IInv, TypeOK
  <2>2. CASE CloseRead(p)
    BY <2>2 DEF CloseRead, call, IsWriteEndClosed, InCall
  <2>3. CASE CloseWrite(p)
    BY <2>3 DEF CloseWrite, call, IsReadEndClosed, InCall
  <2>4. CASE \E q \in Proc : Inherit(p, q)
    BY <2>4 DEF IInv, TypeOK, Inherit, call, IsReadEndClosed, InCall
  <2> QED
    BY <2>1, <2>2, <2>3, <2>4
<1>5. CASE /\ IsReadEndClosed' <=> IsReadEndClosed
           /\ IsWriteEndClosed' <=> IsWriteEndClosed
  BY <1>1, <1>5, QuietSim DEF ring
<1>6. CASE ~IsReadEndClosed /\ IsReadEndClosed'
  <2>1. Chan!CloseReadEnd
    BY <1>1, <1>2, <1>4, <1>6 DEF Chan!CloseReadEnd
  <2> QED
    BY <2>1 DEF Chan!ChannelNext
<1>7. CASE ~IsWriteEndClosed /\ IsWriteEndClosed'
  <2>1. Chan!CloseWriteEnd
    BY <1>1, <1>2, <1>4, <1>7 DEF Chan!CloseWriteEnd
  <2> QED
    BY <2>1 DEF Chan!ChannelNext
<1> QED
  BY <1>3, <1>5, <1>6, <1>7

\* Every step of the pipe is a step of the channel or is invisible to it.
LEMMA StepSim ==
    IInv /\ IInv' /\ [Next]_vars => [Chan!ChannelNext]_Chan!cvars
<1> SUFFICES ASSUME IInv, IInv', [Next]_vars
             PROVE  Chan!ChannelNext \/ UNCHANGED Chan!cvars
  OBVIOUS
<1>1. CASE UNCHANGED vars
  <2>1. /\ UNCHANGED <<ring, got, eof, cut>>
        /\ IsReadEndClosed' <=> IsReadEndClosed
        /\ IsWriteEndClosed' <=> IsWriteEndClosed
    BY <1>1 DEF vars, call, fds, results, IsReadEndClosed, IsWriteEndClosed,
                InCall
  <2> QED
    BY <2>1, QuietSim
<1>2. CASE Next
  <2>1. PICK p \in Proc :
          \/ \E n \in Count : SysRead(p, n) \/ SysWrite(p, n)
          \/ Step(p) \/ CloseRead(p) \/ CloseWrite(p)
          \/ \E q \in Proc : Inherit(p, q)
    BY <1>2 DEF Next
  <2>2. CASE \E n \in Count : SysRead(p, n) \/ SysWrite(p, n)
    BY <2>2, StartSim
  <2>3. CASE ReadStep(p)
    BY <2>3, <1>1, StartSim, ShortSim, CopySim
       DEF ReadStep, Suspend, Chan!ChannelNext
  <2>4. CASE WriteStep(p)
    BY <2>4, <1>1, StartSim, ShortSim, CopySim
       DEF WriteStep, Suspend, Chan!ChannelNext
  <2>5. CASE \/ Return(p) \/ CloseRead(p) \/ CloseWrite(p)
             \/ \E q \in Proc : Inherit(p, q)
    BY <2>5, DropSim
  <2> QED
    BY <2>1, <2>2, <2>3, <2>4, <2>5 DEF Step
<1> QED
  BY <1>1, <1>2

\* The pipe implements the bounded first-in first-out channel: bytes arrive
\* unchanged and in order, whatever the capacity and the number of readers
\* and writers.
THEOREM PipeImplementsChannel == Spec => ImplementsChannel
<1>1. Init => Chan!ChannelInit
  BY InitSim
<1>2. IInv /\ IInv' /\ [Next]_vars => [Chan!ChannelNext]_Chan!cvars
  BY StepSim
<1> QED
  BY <1>1, <1>2, Invariance, PTL DEF Spec, ImplementsChannel, Chan!ChannelSpec
==============================================================================
