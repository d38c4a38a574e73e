\* A wide character is cut in two.
SPECIFICATION SpecTopic
CONSTANTS
    Threshold = 7
    Chunks <- AllChunks
    MaxText = 10
    LongBlock = 1
    MaxRunes = 3
    MaxFailures = 0
INVARIANT WholeCharacters
