SPECIFICATION Spec
CONSTANTS
    NSess = 1
    Dtu = {d1}
    Absent = Absent
    Null = Null
    Workers = 2
    MaxBytes = 1
    MaxSweeps = 1
    Onward = {"send", "gate", "sleep"}
    Faults = {}
INVARIANTS NoDangling
CHECK_DEADLOCK FALSE
