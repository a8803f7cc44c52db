SPECIFICATION Spec
CONSTANTS
    BestIndent = 2
    Sessions <- MCSessions
    StructureLength = 9
    DocumentLength = 6
    ScalarLength = 5
INVARIANTS
    IndentsFollowNesting
    FlowLevelCounts
    LookaheadSuffices
    NothingOutlivesDocument
    OpenEndedIsClosed
    ScalarsAreFaithful
PROPERTIES
    AcceptsEventStream
