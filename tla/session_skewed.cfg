CONSTANTS
    Names <- MCNames
    NameLength = 1
    Byte = {1, 2, 3, 4, 5, 6, 7, 8, 9}
    Overhead = 30
    ChunkSize = 2
    RequestLength = 70
    MaxFileSize = 10
    MaxCounter = 4
    Absent = Absent
    Junk = Junk
    Local <- MCEdgeLocal
    InitialFolders <- MCEdgeFolders
    Faults = {"clientKilled", "noDownloads", "noFolder", "diskFull", "cryptoFails",
              "downloadsFull", "listFails", "syscallFails"}
SPECIFICATION Spec
INVARIANTS
    CountersUsedOnce
    OutcomesTrue
PROPERTIES
    WorkerEnds
CHECK_DEADLOCK FALSE
