CONSTANTS
    NSectors = 3
    Values = {0, 1}
    Zero = 0
    MaxTxn = 2
    HeadTargets = 1
    MaxCall = 1
    Files = {f1}
    Updaters = {}
    Boot = Boot
    NoOne = NoOne
    IoFails = FALSE
SPECIFICATION Spec

INVARIANTS ReadYourWrites
PROPERTIES AtomicTransactions
