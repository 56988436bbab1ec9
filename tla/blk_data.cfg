\* Data integrity of even-offset reads and one- and two-sector writes on an NCQ port
CONSTANTS
    SectorSize = 4
    SectorCount = 3
    NumSlots = 3
    QueueCapable = TRUE
    ErrorsPossible = FALSE
    BufName = {"user", "tmp", "sector", "start", "end"}
    None = None
    MaxOps = 1
    Requests <- DataRequests
SPECIFICATION Spec
INVARIANT
    NoBufferOverrun
PROPERTIES
    ReadCorrect
    WriteCorrect
