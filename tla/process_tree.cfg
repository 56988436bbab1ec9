SPECIFICATION Spec
CONSTANTS
    MaxProcs = 4
    MaxEntries = 1
    Numbers = {0}
    MaxCallArgs = 9
INVARIANTS
    TypeOK
    UniqueOwner
    PendingHeldByAdopter
    CallIndirectMarshals
