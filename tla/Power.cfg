SPECIFICATION StorageSpec
CONSTANTS
    Parts = {"power"}
    FRAM_TLC_MAX = 2
    Base = 3
    Commands <- Cmds
    Length <- Lengths
    Deploys <- DeployBy
    Block <- Stored
    Times <- Seconds
    Calls = 2
    MaxTime = 5
    MaxOps = 2
    MaxCuts = 1
    MaxBlocks = 2
    BlockLength = 2
    Numbers = 2
    Actions = 3
    Chosen = {1}
    Wrap = 4
    MaxPackets = 3
    SbcMaxOps = 4
    CutOps = 1
    Recorders <- MCRecorders
    Sectors = 3
    Pages = 3
    Thr = 1
    Counts = {0, 2}
    ReplayFrom = {2}
    Filled <- Empty
    RecMaxOps = 3
    MaxRecords = 2
    Loads <- MCLoads
    Channels <- MCChannels
    Home <- MCHome
    PwrMaxOps = 3
    MaxMishaps = 1
INVARIANTS SavedAsSwitched StraysHeal CompositesComplete
