SPECIFICATION FairSpec
CONSTANTS
    MaxStarts = 2
    MaxInputs = 1
    MaxBeats = 1
    MaxFrames = 1
    GatewayDoes = {"ack", "frame", "notice", "close", "reset"}
INVARIANTS
    TypeOK
    OneSessionPerConnection
    WireNotTorn
    StoppedIsClean
    RepaintComes
PROPERTIES
    NothingAfterStop
    StopReturns
