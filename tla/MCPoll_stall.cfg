SPECIFICATION FairSpec
CONSTANTS
    NDev = 2
    Addr = {1, 2}
    NoAddr = NoAddr
    Plan <- OneEach
    Addressable = {1, 2}
    Faults = {"lose"}
    MaxOps = 1
    MaxLate = 2
    MaxWrites = 1
PROPERTY PollingProgress
CHECK_DEADLOCK FALSE
