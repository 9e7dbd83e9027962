CONSTANTS
    NumSectors = 8
    SectorSize = 2
    NumDirEntries = 2
    Split = 1
    Name = {a, b, c}
    NoName = NoName
    FileSize = {0, 1, 3}
    Value = {v, w}
    MaxHandles = 1
SPECIFICATION FSSpec
SYMMETRY NamesAndValues
INVARIANTS
    SystemFilesSurvive
    CrashHarmsOneFile
    ConsistentBetweenOperations
    DataIntact
