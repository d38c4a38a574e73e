\* Two bots, of which the first has a web server and the second an exchange in
\* work. The process ends.
SPECIFICATION FairSpec
CONSTANTS
    NumBots = 2
    WebBots = {1}
    BusyBots = {2}
INVARIANTS
    TypeOK
    OutlivedOnlyIfOverlooked
    GracefulStopsAll
PROPERTIES
    NoAnswerForNothing
    LostOnlyAtTheEnd
    SignalEnds
    ReturnEnds
CHECK_DEADLOCK FALSE
