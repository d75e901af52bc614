CONSTANTS
    c = c
    p = p
    Proc = {c, p}
    Creator = c
    NoProc = none
    Zero = 0
    Byte = {0, 1}
    Size = 2
    Count = {1, 3}
SPECIFICATION FairSpec
CHECK_DEADLOCK FALSE
INVARIANTS NoFault EofFinal
PROPERTIES ImplementsChannel CallsReturn
