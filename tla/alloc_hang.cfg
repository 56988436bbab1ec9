CONSTANTS
    None = None
    Regions <- OneRegion
    Reserved <- OneRegionReserved
    Counts = {1, 2}
SPECIFICATION Spec
PROPERTIES
    AllocTerminates
