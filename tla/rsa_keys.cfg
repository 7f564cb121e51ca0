SPECIFICATION RsaSpec
CONSTANTS
    LastSmall = 7
    NotListed = {}
    Candidates <- SmallCandidates
    MaxD = 10000
    Base = 4
    XorByte <- SmallXor
    Width = 2
    MinModulus = 14
    Moduli <- SmallModuli
    Exponents = {3, 4, 9}
    MinPadding = 1
    DigestInfo <- SmallInfo
    Hash <- SmallHash
    HashLen = 1
    SaltLen = 1
    Trailer = 3
    Texts <- SmallTexts
INVARIANTS
    ChainIsLucas
    AnswersRight
    RsaRoundTrip
    VerifyAnswers
CHECK_DEADLOCK FALSE
