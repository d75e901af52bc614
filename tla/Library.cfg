CONSTANTS
    h1 = h1
    h2 = h2
    a = a
    b = b
    c = c
    Harts = {h1, h2}
    Locks = {a, b, c}
    NoIrq = {a, b}
    SectorSize = 2
    Sectors = 3
    Byte = {0, 1}
    Blank = 0
    Buffers <- SomeBuffers
    Lengths = {0, 1, 2, 4}
    Offsets <- SomeOffsets
    Word = 16
    Width = 3
    Cap = 3
    Sizes = {1, 2, 4}
    Aligns = {1, 2}
    Strings <- SomeStrings
    Headers <- SomeHeaders
    Bases = {0, 65536}
    StackTop = 8192
    PhOffset = 64
    PhEntrySize = 56
    EntryPoint = 4242
    TableSize = 13
    Reads = {0, 1, 9}
    Years = {0, 20, 21, 119, 120, 121, 127}
    Months = {0, 1, 2, 3, 8, 12, 13, 15}
    Days = {0, 1, 28, 29, 31}
    Times <- SomeTimes
    Prots = {0, 1, 2, 3, 4, 5, 6, 7, 8, 15, 16}
    Ppns = {1, 2, 4095}
    PpnBits = 12
SPECIFICATION Spec
CHECK_DEADLOCK FALSE
INVARIANTS TypeOK MutualExclusion NoSelfDeadlock TransferRight StackReadable FatTimeRight 
PROPERTY KeepsPromise
