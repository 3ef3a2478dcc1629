CONSTANTS
    c1 = c1
    c2 = c2
    c3 = c3
    c4 = c4
    Conns <- FourConns
    MaxDescriptor = 6
    Backlog = 2
    MaxClients = 2
    Arrivals = "spaced"
    Logouts = FALSE
    AcceptErrors = FALSE
SPECIFICATION Spec
INVARIANTS
    OwnDescriptors
    NothingLeft
PROPERTIES
    ClosesOwn
CHECK_DEADLOCK FALSE
