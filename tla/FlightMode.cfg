SPECIFICATION FairSpec
CONSTANTS
    SAFE = "SAFE"
    BC_TL_NORMAL = "BC_TL_NORMAL"
    TaskList = {"BC_TL_NORMAL", "NEW"}
    Mode <- MCMode
    Block <- MCBlock
    MM_NOT_DEFINED = "none"
    DefaultTable <- MCDefaultTable
    Erased = "erased"
    Horizon = 4
    MaxMoves = 1
    TL_CMD_LIST_MAX = 4
    GroundCommands <- MCGroundCommands
    Responses = {"BC_UVC_LV2_ACTION"}
INVARIANTS
    FinishIsPending
    RestartKeepsMode
PROPERTIES
    TransitionEnds
