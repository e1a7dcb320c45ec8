SPECIFICATION Spec
CONSTANTS
    Templates <- All
    Limit = 3
    MaxDevices = 2
INVARIANTS TypeOK CoilsExact RegsExact CountsComplete LimitNearly PointsTrue CoilsTrue WrittenIsRead CrcTrue
CHECK_DEADLOCK FALSE
