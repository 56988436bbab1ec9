\* AP bring-up of three application processors, each of which may miss one SIPI
CONSTANTS
    Cores <- MadtCoreCount
    ApicId <- ApicIds
    BspIndex = 0
    TicksPerMs = 1
    MaxTimerTicks = 32
    MaxLost = 1
SPECIFICATION Spec
INVARIANTS
    TypeOK
    OwnStack
PROPERTIES
    BringUpCompletes
