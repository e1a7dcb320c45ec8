SPECIFICATION Spec
CONSTANTS
    NDev = 2
    Addr = {1, 2}
    NoAddr = NoAddr
    Plan <- MixedPlan
    Addressable = {1, 2}
    Faults = {"lose"}
    MaxOps = 0
    MaxLate = 2
    MaxWrites = 1
INVARIANT CommentReplyInSync
CHECK_DEADLOCK FALSE
