CONSTANTS
    Task = {o, a, b}
    Origin = o
    NoTask = NoTask
    MaxPid = 5
    Testcases = 0
    WaitArgs <- FewWaitArgs
    NoWait = NoWait
    HeapLimit = 3
SPECIFICATION FairSpec
PROPERTY ExitCompletes
