SPECIFICATION RomSpec
SYMMETRY TaskSymmetry
CHECK_DEADLOCK FALSE
CONSTANTS
    romfs = romfs
    simple_ext2 = simple_ext2
    Fs = {romfs, simple_ext2}
    Fops <- Operations
    Task = {t1, t2, t3}
    None = None
    ListHead = ListHead
    RomFs = romfs
    SectorUnits = 8
    VolumeUnits = 1
    Header <- Image
    Root = 2
    NameUnits = 3
    Rooms = {16, 64}
    Paths <- SomePaths
INVARIANTS
    TypeOK
    ServedRight
    NeverWild
    RomfsTrue
