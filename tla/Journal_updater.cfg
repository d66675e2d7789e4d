CONSTANTS
    NSectors = 2
    Values = {0, 1}
    Zero = 0
    MaxTxn = 2
    HeadTargets = 1
    MaxCall = 2
    Files = {f1}
    Updaters = {u1}
    Boot = Boot
    NoOne = NoOne
    IoFails = FALSE
SPECIFICATION Spec
PROPERTIES SuccessMeansDurable

