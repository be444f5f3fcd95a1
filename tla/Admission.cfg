SPECIFICATION LiveSpec
CONSTANTS
    Listeners = {1, 2}
    Conns = {1, 2, 3}
    Instances <- AdmissionInstances
INVARIANTS AdmissionConsistent MemoryIsGuarded
PROPERTY ShutdownReleasesAll
CHECK_DEADLOCK FALSE
