SPECIFICATION FairAppSpec
CONSTANTS
    Reader = reader
    Workers = {w1}
    MaxInputs = 2
    MaxWork = 2
    HeaderSize = 2
    MaxBody = 1
    ConnectAttempts = 2
    MaxSent = 2
INVARIANTS
    TypeOK
    OneDrain
    NoStrandedInput
    NoLostWakeup
    StreamParsed
PROPERTIES
    InputsBeforeClose
    QuitEndsProcess
    ImplementsFifo
    CloseEndsProcess
CHECK_DEADLOCK FALSE
