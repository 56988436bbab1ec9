SPECIFICATION Spec
CONSTANTS
    MaxProcs = 3
    MaxEntries = 1
    Numbers = {}
INVARIANT
    NoDoubleFree
