SPECIFICATION FairSpec
CONSTANTS
    MaxFrame = 20
    ExtendedFrom = 2
    ErrorByte = 1
    RetainedLimits = {24}
    Payloads = {4, 8}
    Paddings = {0, 2}
    Quick = {FALSE}
    Marks = {FALSE}
    Fates = {"intact"}
    ServerFrames <- PlainServer
    Inner <- InnerHeads
    Chunks = {1, 7, 16}
    MaxFrames = 3
    MaxResets = 0
PROPERTIES
    ImplementsChannel
