CONSTANTS
    c1 = c1
    c2 = c2
    c3 = c3
    c4 = c4
    Conns <- ThreeConns
    MaxDescriptor = 8
    Backlog = 2
    MaxClients = 3
    Arrivals = "crowded"
    Logouts = FALSE
    AcceptErrors = FALSE
SPECIFICATION Spec
INVARIANTS
    OneWorkerEach
CHECK_DEADLOCK FALSE
