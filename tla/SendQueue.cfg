SPECIFICATION FairStopSpec
CONSTANTS
    MaxConns = 2
    Nodes = {n1}
    MaxPackets = 2
    MaxChunks = 2
    PromptCallback = TRUE
    None = None
INVARIANTS
    StopTypeOK
    SentInOrder
    QueueServed
PROPERTIES
    DrainsItsOwn
    EnqueuedIsSent
    StopWaitsForDrains
CHECK_DEADLOCK FALSE
