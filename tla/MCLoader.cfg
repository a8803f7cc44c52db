SPECIFICATION Spec
CONSTANTS
    Anchors = {"a"}
    Tags = {"!", "given"}
    StackLimit = 4
    MaxEvents = 9
    AllocMayFail = TRUE
INVARIANTS
    ContextFollowsStream
    LoadedWhole
    OwnedOnce
