SPECIFICATION Spec
CONSTANTS
    Texts = {}
    Styles <- MCStyles
    Places <- MCPlaces
    Bodies = {}
    Documents <- MCDocuments
    BestIndent = 2
    BestWidth = 5
    Unicode = TRUE
    LineBreak <- MCLF
    MaxMixed = 1
    MaxLines = 1
    MaxBody = 1
    MaxTag = 2
    MaxPrefix = 1
INVARIANT
    ShorthandIsReadBack
