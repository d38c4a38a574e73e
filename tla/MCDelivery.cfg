\* Replies on all three topics, each up to its length.
SPECIFICATION SpecTopic
CONSTANTS
    Threshold = 6
    Chunks <- AllChunks
    MaxText = 16
    LongBlock = 1
    MaxRunes = 3
    MaxFailures = 1
INVARIANTS
    TypeOK
    NothingLost
    SegmentsFit
    ReplyRebuilt
    MessagesFit
PROPERTIES
    HeldIsFinal
    TurnsShorten
