SPECIFICATION Spec
CONSTANTS
    MaxNodes = 3
    MaxItems = 2
INVARIANTS
    GraphIsPreserved
    AnchorsAreNeeded
    OwnedOnce
PROPERTIES
    DumpReturns
    
CHECK_DEADLOCK FALSE
