SPECIFICATION FairSpec
CONSTANTS
    HwByteCount = 3
    Required = 4
    Answers = {1, 2}
    w1 = w1
    w2 = w2
    Workers <- TwoWorkers
    Rounds = 2
    TimerSamples = 2
    AllocSamples = 1
    Skips <- SomeSkips
INVARIANTS
    HardwareAccounted
    EverySourceMixed
PROPERTIES
    EverythingEnds
CHECK_DEADLOCK FALSE
