SPECIFICATION AppsSpec
CONSTANTS
    Requested = {1, 2, 3, 4, 5, 7, 8, 9, 60, 61, 62, 63, 64}
    MissionIds = {16}
    Forwards = {{}, {2, 16}}
    ListMax = 2
    Wrap = 3
    MaxMade = 3
    MaxOps = 3
    DetCount = 1
    Delay <- MCDelay
    Elsewhere = {8}
    Size = 6
    MaxMoves = 1
    MaxMeets = 1
    MaxJumps = 0
    UvcMaxOps = 1
    MaxBlocks = 2
    MaxLength = 3
    MaxMaster = 4
    MaxRegistered = 3
    BctMaxOps = 2
    Word = 64
    CycleMs = 5
    SecondMs = 10
    MaxCycle = 60
    Start = 2
    Ahead = 8
    MaxNow = 32
    MaxCommands = 1
    ClkMaxOps = 3
    FirstYear = 2021
    LastYear = 2031
INVARIANTS PacketsWhole RecordedOnce RecordNumbered ReturnNotLost ReturnUndoes
    ClockAccurate CommandsOnTime RTCWithinADay
PROPERTIES Protected NoStaleCommand
CHECK_DEADLOCK FALSE
