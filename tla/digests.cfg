SPECIFICATION Spec
CONSTANTS
    Base = 16
    XorByte <- HalfByteXor
    Width = 4
    MdFunctions <- SmallMd
    Sponges <- SmallSponges
    HashLen = 2
    IPad = 3
    OPad = 5
    Texts <- SmallTexts
    Keys <- SmallKeys
    Messages <- SmallMessages
    OutputLengths = {0, 1, 4, 6, 7, 13}
    HkdfCalls <- SmallHkdf
    Pbkdf2Calls <- SmallPbkdf2
    CounterLen = 1
    Entropies <- SmallEntropies
    Personalizations <- SmallPersonalizations
    Nonces <- SmallNonces
    Additional <- SmallAdditional
    SeedLen = 2
    NonceTag <- SmallTag
    Requests = {0, 3}
    ReseedInterval = 1
    MaxCalls = 3
INVARIANTS
    StandardButAtBoundary
    PaddingUndone
    MacOpens
    DerivedFresh
    InputsInState
    OutputNotState
CHECK_DEADLOCK FALSE
