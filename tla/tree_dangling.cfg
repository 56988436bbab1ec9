SPECIFICATION Spec
CONSTANTS
    MaxProcs = 3
    MaxEntries = 1
    Numbers = {2}
    MaxCallArgs = 9
INVARIANT
    NoDanglingReference
