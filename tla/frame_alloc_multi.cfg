CONSTANTS
    None = None
    Regions <- TwoRegions
    Reserved <- TwoRegionsReserved
    Counts = {1, 2}
SPECIFICATION Spec
INVARIANTS
    TypeOK
    FramesExclusive
PROPERTIES
    AllocFailsOnlyWhenExhausted
