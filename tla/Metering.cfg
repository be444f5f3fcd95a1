SPECIFICATION FairSpec
CONSTANTS
    Conns = {1}
    Instances <- MeteringInstances
    ChunkSize = 1
    MaxUnacked = 1
INVARIANTS
    BilledOnce
    MeteringConsistent
PROPERTIES
    LogDrains
CHECK_DEADLOCK FALSE
