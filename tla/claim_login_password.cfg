CONSTANTS
    anna = anna
    ben = ben
    carl = carl
    key1 = key1
    key2 = key2
    Names <- MCNames
    Users <- MCUsers
    Enrolled <- MCEnrolled
    Ephemeral <- MCEphemeral
    None = None
    Server = Server
    MayFail = {}
SPECIFICATION Spec
INVARIANTS
    MistypingEndsNoServer
CHECK_DEADLOCK FALSE
