CONSTANTS
    root = root
    k = k
    t1 = t1
    t2 = t2
    i = i
    Task = {root, k}
    Root = root
    Table = {t1, t2}
    NoTable = none
    Inode = {i}
    MaxFd = 4
    NewFds = {1, 4}
    OpenAccess = {"r"}
    CountLimit = 2
SPECIFICATION Spec
CHECK_DEADLOCK FALSE
INVARIANT AllocatorInv
