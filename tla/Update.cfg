SPECIFICATION FairSpec
CONSTANTS
    Items <- MCItems
    RomSize <- MCRomSize
    MaxItems = 2
    BinSize <- MCBinSize
    Unlisted = {}
    Dirs <- MCDirs
    Starts <- MCStarts
    SectorSize = 2
    NGet = 1
    NSet = 1
    Model <- MCModel
    Version <- MCVersion
    Polls = 2
    SecInfo = TRUE
    FirstSector = 1
    AppSectors = 3
    Linux = TRUE
    MaxRuns = 2
    MaxPowerLoss = 1
INVARIANTS
    TypeOK
    RunsWhole
    ParamsKept
    PlanFits
    EndTold
CHECK_DEADLOCK FALSE
PROPERTIES
    KeepsPromise
    UpdateEnds
