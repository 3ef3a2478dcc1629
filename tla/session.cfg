CONSTANTS
    Names <- MCNames
    NameLength = 1
    Byte = {1, 2, 3, 4, 5, 6, 7, 8, 9}
    Overhead = 30
    ChunkSize = 2
    RequestLength = 70
    MaxFileSize = 10
    MaxCounter = 4
    Absent = Absent
    Junk = Junk
    Local <- MCLocal
    InitialFolders <- MCFolders
    Faults = {"clientKilled", "serverKilled", "syscallFails"}
SPECIFICATION Spec
INVARIANTS
    TypeOK
    CountersUsedOnce
    OutcomesTrue
    InStep
    NoFalseReplay
    NoMutualWait
PROPERTIES
    OnlyAsAsked
    Answered
    WorkerEnds
CHECK_DEADLOCK FALSE
