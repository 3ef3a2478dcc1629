CONSTANTS
    c1 = c1
    c2 = c2
    c3 = c3
    c4 = c4
    Conns <- ThreeConns
    MaxDescriptor = 4
    Backlog = 2
    MaxClients = 2
    Arrivals = "crowded"
    Logouts = TRUE
    AcceptErrors = TRUE
SPECIFICATION Spec
INVARIANTS
    TypeOK
    ListenerStays
PROPERTIES
    ThreadsEnd
CHECK_DEADLOCK FALSE
