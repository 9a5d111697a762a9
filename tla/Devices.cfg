SPECIFICATION Spec
CONSTANTS
    MouseBits = {0, 1}
    AckBits = {1}
    RxBufSize = 32
    RxLengths = {5, 8, 9}
    TxSlots = 3
    Descriptors = 4
    Step = 2
    Alignment = 4
    FrameLengths = {9, 10}
    Callers = {1, 2}
    Durations = {0, 1, 2}
    TickWidth = 4
    Modulus <- TimeModulus
    PciDevices = {0, 1}
    Functions = {0, 1}
    Cards <- TwoCards
    Roots <- UpToTwoRoots
    Tables <- UpToTwoTables
    Polls = 2
    Limits <- Edges
    Bases <- Edges
    VectorsTaken <- AllVectors
    bytesPerSector = 4
    Sectors = {0, 1}
    Counts = {0, 1, 3, 4, 5}
    MaxCalls = 3
    SectorSize = 2
    sectorsPerCluster = 2
    Entries = 2
    PartitionTypes <- PartitionTables
    Directories <- UpToThreeFiles
    ScreenWidth = 12
    ScreenHeight = 30
    Glyphs <- SpaceAndLetter
    MaxLine = 2
    CanvasSize = 8
    Endless = 40
    PictureWidth = 3
    PictureHeight = 2
    Spares = {0, 1}
    Sides = {1, 2, 3, 4, 5}
    BlockBytes = 4
    Cells = 7
    CopyLengths = {0, 1, 2, 3, 4, 5}
    ShownNumbers <- EdgeNumbers
    Longs = 65536
INVARIANTS
    MouseRight
    CardRight
    TimeRight
    StartAndStop
    VectorsRight
    DiskRight
    OutputRight
