SPECIFICATION Spec
CONSTANTS
    CustomHandles = {"!e!"}
    Alphabet <- AllTokens
    MaxTokens = 6
    AllocMayFail = TRUE
INVARIANTS
    TypeOK
    DirectivesOfTheDocument
