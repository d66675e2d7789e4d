CONSTANTS
    NProc = 3
    Cpus = {bsp, ap}
    Bsp = bsp
    Idle = 0
    KernelTasks = {0, 1}
    BspOnly = {0}
    Boot = {0, 1}
    Limited = {2}
    WaitsFor <- MCParentWaits
    NoProc = NoProc
    Stale = Stale
SPECIFICATION Spec
INVARIANT OneCpuPerStack
