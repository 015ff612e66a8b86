SPECIFICATION Spec
CHECK_DEADLOCK FALSE
SYMMETRY DescSymmetry
CONSTANTS
    f1 = f1
    f2 = f2
    File = {f1, f2}
    Order <- FileOrder
    Desc = {d1, d2}
    None = None
    S = 3
    FileSects = 2
    MaxCount = 4
    MaxWrites = 2
    MaxReads = 2
INVARIANTS
    WritesLand
    SizeTrue
PROPERTIES
    ReadBack
