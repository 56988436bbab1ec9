\* A PxSERR bit set while a multi-sector read is in flight (not a run; ReturnsQuiescent fails)
CONSTANTS
    SectorSize = 4
    SectorCount = 3
    NumSlots = 3
    QueueCapable = TRUE
    ErrorsPossible = TRUE
    BufName = {"user", "tmp", "sector", "start", "end"}
    None = None
    MaxOps = 1
    Requests <- EvenReads
SPECIFICATION Spec
PROPERTY
    ReturnsQuiescent
