CONSTANTS
    NProc = 4
    Cpus = {bsp}
    Bsp = bsp
    Idle = 0
    KernelTasks = {0}
    BspOnly = {0}
    Boot = {0, 1, 2}
    Limited = {1}
    WaitsFor <- MCOneWaiter
    NoProc = NoProc
    Stale = Stale
SPECIFICATION FairSpec
INVARIANTS ThrottledDoesNotRun
PROPERTIES NoStarvation WaitReturns
