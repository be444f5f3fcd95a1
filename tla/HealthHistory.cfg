SPECIFICATION HistorySpec
CONSTANTS
    Observers = {o1, o2}
    Addresses = {a, b}
    WatchedSets = {{}, {a, b}}
    MaxDials = 3
    Capacity = 1
INVARIANT HistoryConsistent
PROPERTIES PingNeverGoesBack
CHECK_DEADLOCK FALSE
SYMMETRY Symmetry
