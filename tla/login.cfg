CONSTANTS
    anna = anna
    ben = ben
    carl = carl
    key1 = key1
    key2 = key2
    Names <- MCNames
    Users <- MCUsers
    Enrolled <- MCEnrolled
    Ephemeral <- MCEphemeral
    None = None
    Server = Server
    MayFail = {"clientKilled", "serverKilled", "cryptoFails", "noMaterial", "badCertificate"}
SPECIFICATION Spec
INVARIANTS
    TypeOK
    Agreement
    InOrder
PROPERTIES
    GetsIn
    LoginEnds
CHECK_DEADLOCK FALSE
