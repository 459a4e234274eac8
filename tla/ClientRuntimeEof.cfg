SPECIFICATION FairSpec
CONSTANTS
    MaxStarts = 1
    MaxInputs = 1
    MaxBeats = 1
    MaxFrames = 1
    GatewayDoes = {"close"}
PROPERTY EofDisconnects
