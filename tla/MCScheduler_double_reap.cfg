CONSTANTS
    NProc = 4
    Cpus = {bsp, ap}
    Bsp = bsp
    Idle = 0
    KernelTasks = {0}
    BspOnly = {0}
    Boot = {0, 1, 2}
    Limited = {}
    WaitsFor <- MCTwoWaiters
    NoProc = NoProc
    Stale = Stale
SPECIFICATION Spec
INVARIANT FreedOnce
