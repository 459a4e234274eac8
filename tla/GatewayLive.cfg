SPECIFICATION FairGatewaySpec
CONSTANTS
    Clients = {c1}
    AppHosts = {p1}
    Pids = {p1}
    MaxSessions = 2
    MaxSpawns = 2
    Monitor = monitor
    None = None
    Events <- LossAndTimeout
INVARIANTS
    IndexComplete
    OneSessionPerClient
PROPERTIES
    DeadAppHostEndsSession
    SpawningEnds
