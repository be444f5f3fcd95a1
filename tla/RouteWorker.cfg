SPECIFICATION FairSpec
CONSTANTS
    Backends = {1, 2}
    Sessions = {1, 2, 3}
    Capacity = 8
    Instances <- WorkerInstances
INVARIANTS
    RouterConsistent
PROPERTIES
    EvacuationCompletes
    LoadSettles
CHECK_DEADLOCK FALSE
