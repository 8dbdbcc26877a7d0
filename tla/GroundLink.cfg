SPECIFICATION Spec
CONSTANTS
    STX1 = 20
    STX2 = 21
    ETX1 = 22
    ETX2 = 23
    MaxLength = 15
    Data <- MCData
    Noise = {0, 8, 9, 20, 21}
    Waiting = 32
    TlmListMax = 2
    OBCT_MAX_CYCLE = 8
    Wrap = 9
    CyclesPerSec = 1
    FirstInterval = 2
    Intervals = {1, 5}
    Clocks = {1}
    Restored = {0, 2}
    MaxDamages = 1
    MaxEvents = 2
CHECK_DEADLOCK FALSE
INVARIANTS FewLost
PROPERTIES SilenceBounded
