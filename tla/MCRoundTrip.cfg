SPECIFICATION Spec
CONSTANTS
    Texts <- MCTexts
    Styles <- MCStyles
    Places <- MCPlaces
    Bodies <- MCBodies
    Documents <- MCDocuments
    BestIndent = 2
    BestWidth = 5
    Unicode = TRUE
    LineBreak <- MCCRLF
    MaxMixed = 3
    MaxLines = 7
    MaxBody = 5
    MaxTag = 3
    MaxPrefix = 2
INVARIANTS
    TextIsReadBack
    LinesAreFolded
    TagIsReadBack
