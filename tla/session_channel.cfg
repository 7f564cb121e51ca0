SPECIFICATION CallsSpec
CONSTANTS
    PerSecond = 2
    Bump = 1
    Past = 1
    Future = 1
    MaxCache = 2
    Bodies = {8}
    ForeignShapes <- Shapes
    Trails = {0}
    Cuts = {0, 32}
    ClockSteps <- Steps
    MaxClock = 4
    MaxSent = 2
    MaxForeign = 1
    MaxAccepted = 3
    MaxRestarts = 1
    WordMod = 10
    Constructor = 9
    FormatIds = {4, 14, 21}
    SeqNos = {1}
    FormatBodies <- BodyData
    OuterIds <- Outers
    MaxContained = 2
    MaxContainer = 14
    MaxBatch = 3
    SeenLimits = {1, 2, 3, 4}
    Seeable = {1, 2, 3, 4, 5}
    MaxSeen = 6
INVARIANTS
    AtMostOnce
    OnlyAcceptedIdsBurn
    FromThePeer
    GenuineTaken
    IdsIncrease
    IdsNearClock
    FormatsExact
    SeenRecent
