SPECIFICATION Spec
CONSTANTS
    MaxFrame = 20
    ExtendedFrom = 3
    ErrorByte = 1
    RetainedLimits = {24}
    Payloads = {12}
    Paddings = {0}
    Quick = {FALSE}
    Marks = {FALSE}
    Fates = {"intact"}
    ServerFrames <- AnyServer
    Inner <- InnerHeads
    Chunks = {4, 13}
    MaxFrames = 3
    MaxResets = 0
INVARIANTS
    BufferBounded
