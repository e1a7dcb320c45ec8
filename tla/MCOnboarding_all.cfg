SPECIFICATION FairSpec
CONSTANTS
    d1 = d1
    d2 = d2
    Dtu = {d1, d2}
    Agent = agent
    Conns <- Twice
    Workers = 2
    MaxTroubles = 2
INVARIANTS TypeOK SameObject OrphansFew
PROPERTY Registers
CHECK_DEADLOCK FALSE
