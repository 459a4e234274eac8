SPECIFICATION GatewaySpec
CONSTANTS
    Clients = {c1, c2}
    AppHosts = {p1, p2}
    Pids = {p1, p2}
    MaxSessions = 2
    MaxSpawns = 1
    Monitor = monitor
    None = None
    Events <- ForwardAndLeave
SYMMETRY PeerSymmetry
INVARIANT RoutedToOwnPeer
