SPECIFICATION StreamFairSpec
CONSTANTS
    Capacity = 2
    MaxSeq = 4
    MaxTimers = 2
    MaxBreaks = 2
    MaxEpoch = 2
CHECK_DEADLOCK FALSE
INVARIANTS
    DeliveredInOrder
    StreamComplete
PROPERTIES
    ImplementsFeed
    CatchesUp
