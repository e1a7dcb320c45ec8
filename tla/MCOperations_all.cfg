SPECIFICATION FairSpec
CONSTANTS
    c1 = c1
    NSess = 2
    NDtu = 2
    Child <- Children
    Owner <- OwnerOf
    Early = {}
    Refused = {}
    Rates = {5, 10}
    Default = 5
    Absent = Absent
    MaxOps = 2
INVARIANTS TypeOK HandlerHasHttp SuccessTrue RatesAgree ChildrenKnown
PROPERTY Answered
CHECK_DEADLOCK FALSE
