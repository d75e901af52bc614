------------------------------ MODULE MCLibrary ------------------------------
(* One run for the parts the rest of the kernel is built on: the mutexes,    *)
(* the disk cursor, the bitmap allocator, the stack of a new program, the    *)
(* FAT time stamps and the rights of a page.  They do not interact; part     *)
(* says which one moves, so their states add up instead of multiplying.      *)
EXTENDS SpinLock, Disk, BitmapAllocator, UserStack, FatTime, PageRights

VARIABLE part

Buffer(s) == [len |-> Len(s), data |-> [i \in 0 .. Len(s) - 1 |-> s[i + 1]]]

SomeBuffers ==
    {Buffer(s) : s \in {<<>>, <<1>>, <<1, 0, 1>>, <<0, 1, 1, 0>>}}
SomeOffsets == {-1, 0, 1, 3}
SomeStrings == {<<>>, <<0>>, <<7, 3>>, <<15>>, <<1, 16, 0>>}
SomeHeaders ==
    {<<[load |-> FALSE, vaddr |-> 64], [load |-> TRUE, vaddr |-> 4096]>>}
SomeTimes == {[hr |-> 23, min |-> 59, sec |-> 29, tenth |-> 199],
              [hr |-> 0, min |-> 1, sec |-> 1, tenth |-> 0]}
FirstStamp == CHOOSE s \in Stamps : TRUE

Init ==
    /\ part \in {"locks", "disk", "bitmap", "stack", "time", "rights"}
    /\ LockInit /\ (part # "locks" => sie = [h \in Harts |-> FALSE])
    /\ DiskInit
    /\ BitmapInit
    /\ StackInit
    /\ RightsInit
    /\ stamp \in Stamps
    /\ part # "time" => stamp = FirstStamp

Next ==
    \/ /\ part = "locks" /\ LockNext
       /\ UNCHANGED <<part, diskVars, bitmapVars, stackVars, rightsVars, stamp>>
    \/ /\ part = "disk" /\ DiskNext
       /\ UNCHANGED <<part, lockVars, bitmapVars, stackVars, rightsVars, stamp>>
    \/ /\ part = "bitmap" /\ BitmapNext
       /\ UNCHANGED <<part, lockVars, diskVars, stackVars, rightsVars, stamp>>
    \/ /\ part = "stack" /\ StackNext
       /\ UNCHANGED <<part, lockVars, diskVars, bitmapVars, rightsVars, stamp>>
    \/ /\ part = "rights" /\ RightsNext
       /\ UNCHANGED <<part, lockVars, diskVars, bitmapVars, stackVars, stamp>>

Spec ==
    Init /\ [][Next]_<<part, lockVars, diskVars, bitmapVars, stackVars, rightsVars, stamp>>

\* The variables of every part keep their shape.
TypeOK == LockTypeOK /\ DiskTypeOK /\ BitmapTypeOK /\ StackTypeOK /\ RightsTypeOK
==============================================================================
