SPECIFICATION Spec
CONSTANTS
    NSess = 2
    Dtu = {d1}
    Absent = Absent
    Null = Null
    Workers = 2
    MaxBytes = 2
    MaxSweeps = 1
    Onward = {"sleep"}
    Faults = {"drop", "refuse", "overlap"}
INVARIANTS TypeOK Watched MapsOwned Reachable
CHECK_DEADLOCK FALSE
