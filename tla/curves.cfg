SPECIFICATION Spec
CONSTANTS
    Base = 16
    XorByte <- HalfByteXor
    Curves <- SmallCurves
    P = 61
    D = 2
    L = 7
    B <- EdBase
    PBits = 6
    A24 = 2
    SeqTag = 3
    IntTag = 2
    PrivateKeys = {1, 2, 9, 16, 50, 127}
    Hashes = {0, 5, 20, 255, 256}
    MaxCandidate = 14
    Challenges = {0, 1, 4, 6}
    UBase = 5
    Scalars = {0, 1, 2, 3, 16, 17, 18, 34, 55, 56, 57, 127}
    ThirdPoints <- SmallThird
INVARIANTS
    GroupLaw
    LoopsMultiply
    AcceptsExactly
CHECK_DEADLOCK FALSE
