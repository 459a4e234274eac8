SPECIFICATION FairSpec
CONSTANTS
    MaxConns = 1
    Nodes = {n1}
    MaxPackets = 2
    MaxChunks = 1
    PromptCallback = FALSE
    None = None
PROPERTY EnqueuedIsSent
CHECK_DEADLOCK FALSE
