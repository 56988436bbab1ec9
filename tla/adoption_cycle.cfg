SPECIFICATION Spec
CONSTANTS
    MaxProcs = 4
    MaxEntries = 1
    Numbers = {}
    MaxCallArgs = 9
INVARIANT
    OwnedFromRoot
