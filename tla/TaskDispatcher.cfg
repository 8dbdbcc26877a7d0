SPECIFICATION Spec
CONSTANTS
  Byte = 2
  AdjLimit = 2
  TDSP_TASK_MAX = 3
  OBCT_MAX_CYCLE = 5
  OBCT_STEPS_PER_CYCLE = 4
  Block <- TaskLists
  BC_TL_NORMAL = 1
  RebootCycle <- AnyCycle
  Operations <- AllOperations
  PassSteps = 9
  SchedulePassSteps = 1
INVARIANTS TasksStartInOrder NoOverrunOnSchedule NoCycleLost
