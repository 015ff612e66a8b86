SPECIFICATION Spec
CHECK_DEADLOCK FALSE
SYMMETRY TaskSymmetry
CONSTANTS
    a = a
    long = long
    Task = {t1, t2}
    Name = {a, long}
    None = None
    Dot = Dot
    NameLen <- Lengths
    NumFiles = 1
    NumFileDesc = 2
    NumInode = 3
    ImapBits = 4
    SmapSects = 3
    SectBits = 4
    FileSects = 2
    SectEntries = 2
    MaxSize = 1
    MaxBoots = 2
    MaxAfter = 0
INVARIANTS
    CardSound
    TablesSound
    TableOnCard
PROPERTIES
    FilesImplemented
