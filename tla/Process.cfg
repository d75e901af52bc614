CONSTANTS
    Task = {o, a, b}
    Origin = o
    NoTask = NoTask
    MaxPid = 5
    Testcases = 2
    WaitArgs <- MCWaitArgs
    NoWait = NoWait
    HeapLimit = 2
SPECIFICATION FairSpec
INVARIANTS ArcInv BlockedWaitInv TestcaseIsolation
PROPERTIES EventuallyScheduled WaitReturns
