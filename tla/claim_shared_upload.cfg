CONSTANTS
    home = home
    office = office
    a = a
    b = b
    c = c
    p = p
    q = q
    r = r
    Sessions <- MCSessions
    Names <- MCNames
    Chunks <- MCChunks
    Hole = Hole
    Absent = Absent
    Local <- MCLocal
    MaxInodes = 5
    InitialDirs <- MCInitialDirs
    InitialData <- MCInitialData
    MaxCommands = 2
    Sharings <- MCSharings
SPECIFICATION Spec
PROPERTIES
    UploadsEnd
CHECK_DEADLOCK FALSE
