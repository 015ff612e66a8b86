\* One machine works in a behaviour, and stops when it is done.
SPECIFICATION AloneSpec
CHECK_DEADLOCK FALSE
CONSTANTS
    PageSize = 4096
    Waste = 410
    MaxOrder = 5
    Sizes <- CheckedSizes
    WordBits = 10
    DividendWords <- SomeWords
    Divisors <- SomeDivisors
    Cells = 5
    Bytes = 3
    Lower <- LowerTable
    Addresses = 64
    ShortBits = 4
    IntBits = 8
    LongLongBits = 10
    Buffers <- SomeBuffers
    Numbers = {0, 9, 1000}
    Words <- Texts
    MaxFormat = 5
    Bus = {"platform", "mmc"}
    Device = {"mmc 0", "mmc 1", "serial", "card"}
    Driver = {"mmc driver", "other mmc driver", "uart driver", "card driver"}
    BusOf <- SomeBusOf
    NameOf <- SomeNameOf
    Probing = {"mmc driver", "other mmc driver", "uart driver"}
    NoDriver = "none"
    Shell = "shell"
    Reader = {"fs 1", "fs 2"}
    ReaderText <- Said
    OutSize = 3
    CommandSize = 3
    Keys = {"l", "x"}
    FileCommands <- SomeCommands
    MaxTyped = 4
INVARIANTS
    CountsWholeObjects
    QuotientExact
    StringsRight
    BufferHolds
    NumberTrue
    DriversBound
    PrintedWhole
    LinesServed
PROPERTIES
    LinksInside
    LoopsEnd
