\* Every call sequence, up to one call after the heap has gone bad; the run
\* stops there, hence no deadlock check.
SPECIFICATION Spec
CHECK_DEADLOCK FALSE
SYMMETRY HandleSymmetry
CONSTANTS
    NPages = 10
    MaxOrder = 2
    Handle = {h1, h2, h3}
    None = None
    MaxAfter = 1
INVARIANTS
    ListsOfBlocks
    MarksTrue
PROPERTIES
    PoolImplemented
