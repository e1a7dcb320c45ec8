SPECIFICATION FairSpec
CONSTANTS
    Frames <- Sent
    Altered <- AnyBytes
    Buffer = 20
    MaxFrames = 3
    Faults = {"early", "noise"}
INVARIANTS TypeOK OneFrame
PROPERTIES QueueSpec Drained
CHECK_DEADLOCK FALSE
