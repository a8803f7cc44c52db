SPECIFICATION Spec
CONSTANTS
    ANY = ANY
    UTF8 = UTF8
    UTF16LE = UTF16LE
    UTF16BE = UTF16BE
    Inputs <- MCInputs
    RawSize = 4
    BufferSize = 12
    Lengths <- MCLengths
    MaxFileSize = 13
    MaxText = 3
    MaxBroken = 2
    LongText = 24
INVARIANTS
    DeliversText
    BuffersFit
    OffsetIsBounded
PROPERTIES
    LookaheadIsThere
    CallsReturn
CHECK_DEADLOCK FALSE
