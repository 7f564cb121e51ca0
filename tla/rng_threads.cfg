SPECIFICATION FairSpec
CONSTANTS
    t1 = t1
    t2 = t2
    NoThread = NoThread
    Threads <- TwoThreads
    Requests = {0, 1, 2, 3}
    MaxRequest = 2
    Interval = 3
    MaxCalls = 2
    MaxFailures = 1
    MaxInstances = 2
INVARIANTS
    FreshBlocks
    OneGenerator
PROPERTIES
    IntervalExact
    EveryCallEnds
    ImplementsSerialRng
