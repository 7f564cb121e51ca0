SPECIFICATION CallsSpec
CONSTANTS
    Base = 4
    XorByte <- SmallXor
    BlockLen = 2
    PolyLen = 1
    NonceLen = 1
    EncryptBlock <- Permuted
    MulH <- TimesX
    ChaChaBlock <- SmallStream
    CounterMod = 4
    Messages <- SmallMessages
    Aads <- SmallAads
    Ivs <- SmallIvs
    WordMod = 16
    XorWord <- HalfByteXor
    Delta = 9
    ShiftUp = 2
    ShiftDown = 4
    RotUp = 2
    RotDown = 8
    SBox <- SmallSBox
    Poly = 3
    CipherKeys <- SmallKeys
    RoundCounts = {0, 1, 3}
    CipherBlocks <- SmallCipherBlocks
INVARIANTS
    RoundTrip
    DamageContained
    KeyStreamFresh
    AuthenticBeforeDecrypt
    RoundsUndone
CHECK_DEADLOCK FALSE
