SPECIFICATION Spec
CONSTANTS
    MaxFrame = 20
    ExtendedFrom = 3
    ErrorByte = 1
    RetainedLimits = {6, 24}
    Payloads = {0, 4, 12}
    Paddings = {0, 2}
    Quick = {TRUE, FALSE}
    Marks = {TRUE, FALSE}
    Fates = {"intact", "corrupt", "lost"}
    ServerFrames <- AnyServer
    Inner <- InnerHeads
    Chunks = {1, 4, 13}
    MaxFrames = 2
    MaxResets = 1
INVARIANTS
    FramesInOrder
    NothingHeldBack
    OneFrameRetained
    MarkerOnce
    FullStrict
