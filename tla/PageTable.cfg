CONSTANTS
    Space = {s1, s2}
    Frame = {1, 2, 3, 4, 5, 6, 7, 8, 9, 10, 11}
    Levels = 3
    Fanout = 3
    KernelPos = 2
    KernelMmioPos = 1
    KernelPages = {13, 22}
    UserPages = {0, 1, 3}
    None = None
SPECIFICATION Spec
SYMMETRY SpaceSymmetry
CHECK_DEADLOCK FALSE
INVARIANTS  TablesOwnedOnce 
PROPERTY ImplementsTranslation
