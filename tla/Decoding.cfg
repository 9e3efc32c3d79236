SPECIFICATION Spec
CONSTANTS
    MaxInt = 1011
    NoNumber = NoNumber
    kMaxJsonDepth = 4
    nullopt = nullopt
    Decoded <- MCDecoded
    Uint64 <- MCUint64
    Uint32Modulus = 8
    Alphabets <- MCAlphabets
    Messages <- MCMessages
    Slices <- MCSlices
CHECK_DEADLOCK FALSE
INVARIANTS
    NumberGrammar EscapesAreUtf8 FixedExact PriceRoundTrip
    DecodersAgree NestingBounded AnswerIsFirst
