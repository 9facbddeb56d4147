SPECIFICATION FairSpec
CONSTANTS
  MaxPid = 3
  MaxDepth = 2
  MaxPending = 1
  TASK_TIME_SLICE = 2
  Signals = {"SIGSEGV", "unsupported"}
INVARIANTS
  RescheduleIsImmediate
PROPERTIES
  KillTakesEffect
  EveryTaskRuns
  WaitReturns
