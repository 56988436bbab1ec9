\* A task-file error on an NCQ port: the waits never see it (not a run; OpReturns fails)
CONSTANTS
    SectorSize = 4
    SectorCount = 3
    NumSlots = 3
    QueueCapable = TRUE
    ErrorsPossible = TRUE
    BufName = {"user", "tmp", "sector", "start", "end"}
    None = None
    MaxOps = 1
    Requests <- AllRequests
SPECIFICATION Spec
PROPERTY
    OpReturns
