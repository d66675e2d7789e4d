CONSTANTS
    NSectors = 2
    Values = {0, 1}
    Zero = 0
    MaxTxn = 2
    HeadTargets = 1
    MaxCall = 2
    Files = {}
    Updaters = {u1}
    Boot = Boot
    NoOne = NoOne
    IoFails = TRUE
SPECIFICATION Spec
PROPERTIES SuccessMeansDurable
