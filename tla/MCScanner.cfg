SPECIFICATION Spec
CONSTANTS
    MaxIndex = 6
    KeyLimit = 3
    IntMax = 2
INVARIANTS
    TypeOK
    StacksAgree
    KeysAwaitInQueue
    TokensInOrder
    StreamEndIsLast
    BlocksBalance
PROPERTIES
    RequiredKeyIsResolved
