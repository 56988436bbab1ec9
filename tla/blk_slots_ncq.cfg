\* Slot ownership on an NCQ port with errors, every request
CONSTANTS
    SectorSize = 4
    SectorCount = 3
    NumSlots = 3
    QueueCapable = TRUE
    ErrorsPossible = TRUE
    BufName = {"user", "tmp", "sector", "start", "end"}
    None = None
    MaxOps = 1
    Requests <- AllRequests
SPECIFICATION Spec
INVARIANTS
    TypeOK
    ReqOwnsSlot
PROPERTY
    OpTerminates
