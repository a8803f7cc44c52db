SPECIFICATION FairSpec
CONSTANTS
    CustomHandles = {}
    Alphabet <- StructureTokens
    MaxTokens = 8
    AllocMayFail = FALSE
INVARIANTS
    StatesWellFormed
    MarksMatchCollections
    FirstStateSeesOpening
    StreamEndEndsParsing
PROPERTIES
    ProducesEventStream
    ParsingEnds
