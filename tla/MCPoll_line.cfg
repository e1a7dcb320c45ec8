SPECIFICATION Spec
CONSTANTS
    NDev = 2
    Addr = {1, 2}
    NoAddr = NoAddr
    Plan <- MixedPlan
    Addressable = {1, 2}
    Faults = {"lose", "exception"}
    MaxOps = 1
    MaxLate = 1
    MaxWrites = 1
INVARIANTS TypeOK LineDiscipline ReplyInSync ValuesTrue
PROPERTIES ReportSpec UploadFaithful
CHECK_DEADLOCK FALSE
