SPECIFICATION Spec
CONSTANTS
    Texts <- MCTexts
    Styles <- MCStyles
    Places <- MCPlaces
    Bodies = {}
    Documents = {}
    BestIndent = 2
    BestWidth = 5
    Unicode = TRUE
    LineBreak <- MCLF
    MaxMixed = 1
    MaxLines = 4
    MaxBody = 1
    MaxTag = 1
    MaxPrefix = 1
INVARIANT
    FoldedIsReadBack
