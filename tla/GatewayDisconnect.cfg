SPECIFICATION GatewaySpec
CONSTANTS
    Clients = {c1}
    AppHosts = {p1}
    Pids = {p1}
    MaxSessions = 1
    MaxSpawns = 1
    Monitor = monitor
    None = None
    Events <- ClientLeaves
INVARIANT DisconnectStopsAppHost
