SPECIFICATION Spec
CONSTANTS
    ANY = ANY
    UTF8 = UTF8
    UTF16LE = UTF16LE
    UTF16BE = UTF16BE
    LineBreak <- MCCRLF
    BufferSize = 8
    RawSize = 18
    Indicators <- MCIndicators
    Characters <- MCCharacters
    Breaks <- MCBreaks
    MaxPut = 5
INVARIANTS
    OutputIsTheStream
    BuffersFit
CHECK_DEADLOCK FALSE
