\* btree_map under callers that insert keys they do not hold and remove
\* keys they hold, in any order: M = 2 (nodes of 1 to 3 keys), six keys.
CONSTANTS
    M = 2
    Keys = {1, 2, 3, 4, 5, 6}
    MaxNodes = 10
SPECIFICATION Spec
INVARIANT
    BTreeIsMap
