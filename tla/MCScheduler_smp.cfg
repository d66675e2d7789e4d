CONSTANTS
    NProc = 3
    Cpus = {bsp, ap}
    Bsp = bsp
    Idle = 0
    KernelTasks = {0}
    BspOnly = {0}
    Boot = {0, 1}
    Limited = {1, 2}
    WaitsFor <- MCParentWaits
    NoProc = NoProc
    Stale = Stale
SPECIFICATION Spec
INVARIANTS OneCpuPerStack SavedContext ReapSafe
PROPERTY DeadStaysDead
