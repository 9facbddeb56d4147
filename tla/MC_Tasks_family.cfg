SPECIFICATION Spec
CONSTANTS
  MaxPid = 5
  MaxDepth = 4
  MaxPending = 1
  TASK_TIME_SLICE = 1
  Signals = {}
INVARIANTS
  OwnedOnce
  FamilyConsistent
  NeverUnmasksInKernel
  IInv
  RunnableIsFound
