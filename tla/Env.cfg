CONSTANTS
    root = root
    a = a
    b = b
    Task = {root, a, b}
    Root = root
    NoTask = none
    Syscalls = {"copy", "stdout", "pipe", "wait4", "yield", "clone", "exec", "exit"}
    Width = 16
SPECIFICATION Spec
SYMMETRY TaskSymmetry
INVARIANTS NoKernelFault UserSumClear
