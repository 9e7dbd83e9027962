CONSTANTS
    ByteBits = 2
    PageSize = 16
    NumPhysPages = 2
    LinkReg = 3
    MemOffset = 16
    SectorSize = 3
    TransferSize = 2
    SectorsPerTrack = 3
    RotationTime = 2
    SeekTime = 3
    NoffHeaderSize = 4
    UserStackSize = 6
    FlatStackSize = 5
    MaxElements = 3
SPECIFICATION Spec
CHECK_DEADLOCK FALSE
INVARIANTS
    SimulatorIsR2000
    ToolsMatchR2000
    TranslationExact
    FilesAreByteArrays
    DiskTimingExact
    ProgramsLoad
    StartupExact
    ListsAreSequences
