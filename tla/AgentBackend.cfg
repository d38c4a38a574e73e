\* Two calls of each kind of backend. The system stops when they are over.
SPECIFICATION FairSpec
CONSTANTS
    Kinds = {"claude", "codex", "generic"}
    Ids = {i1, i2}
    NoId = NoId
    PipeSize = 2
    MaxCalls = 2
    MaxLines = 3
INVARIANTS
    TypeOK
    AnswerComplete
    WedgedOnlyByLongLine
    CancelledOnlySo
    UnshownOnlySo
PROPERTIES
    ImplementsContract
    OneConversation
    KilledReturns
CHECK_DEADLOCK FALSE
