SPECIFICATION FairSpec
CONSTANTS
  Byte = 2
  AdjLimit = 2
  TL_CMD_LIST_MAX = 3
  OBCT_MAX_CYCLE = 12
  RebootCycle = 13
  Block <- Blocks
  Other <- OneCode
  Immediate <- ImmediateCmds
  Watched <- WatchedLive
  Registered <- RegisteredCmds
  RegisteredFor <- Cycles
INVARIANTS TypeOK TimelineInOrder BacklogOfSettings DeployKeepsCommands
PROPERTIES EveryCommandLeaves
