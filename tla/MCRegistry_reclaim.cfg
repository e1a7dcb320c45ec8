SPECIFICATION FairSpec
CONSTANTS
    NSess = 1
    Dtu = {d1}
    Absent = Absent
    Null = Null
    Workers = 2
    MaxBytes = 3
    MaxSweeps = 2
    Onward = {"send", "gate", "sleep"}
    Faults = {"drop", "refuse", "slowStart", "accept"}
PROPERTY Reclaimed
CHECK_DEADLOCK FALSE
