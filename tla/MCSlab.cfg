SPECIFICATION Spec
SYMMETRY HandleSymmetry
CONSTANTS
    NCache = 2
    Unit = 3
    PageSize = 8
    Waste = 3
    MaxOrder = 1
    NPages = 6
    Request = {2, 5, 6}
    Handle = {h1, h2, h3}
    None = None
INVARIANTS
    ObjectsAccounted
    BlocksStrung
PROPERTIES
    HeapImplemented
