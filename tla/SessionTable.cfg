SPECIFICATION TableSpec
CONSTANTS
    Clients = {c1, c2}
    AppHosts = {a1, a2}
    Pids = {p1, p2}
    MaxSessions = 2
    None = None
SYMMETRY HandleSymmetry
INVARIANTS
    TableTypeOK
    IndexSound
PROPERTY
    IdsNotReused
CHECK_DEADLOCK FALSE
