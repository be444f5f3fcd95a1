SPECIFICATION FairSpec
CONSTANTS
    a = a
    b = b
    Members = {a, b}
    MaxLeases = 2
    Instances <- ElectionInstances
INVARIANT ElectionConsistent
PROPERTY WritesFollowSuccession NoStalePublication SomebodyLeads
CHECK_DEADLOCK FALSE
