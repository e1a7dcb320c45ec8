SPECIFICATION FairSpec
CONSTANTS
    NDev = 2
    Addr = {1, 2}
    NoAddr = NoAddr
    Plan <- OneEach
    Addressable = {1, 2}
    Faults = {"lose", "exception", "silent"}
    MaxOps = 0
    MaxLate = 2
    MaxWrites = 1
PROPERTIES PollingProgress PollThreadEnds
CHECK_DEADLOCK FALSE
