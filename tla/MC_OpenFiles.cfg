SPECIFICATION Spec
CONSTANTS
    Tasks = {t1, t2}
    Stable = {"tmp"}
    Fresh = {"disk", "lost/disk"}
    NoParent = {"lost/disk"}
    ExecNames = {"disk"}
    NR_TASK_FD_LIMITS = 4
    Closable = {0, 3}
    Lens = {1}
    MaxFiles = 3
    MaxPos = 1
SYMMETRY Interchangeable
INVARIANTS
  TableExact
PROPERTIES
  ClosedIsForgotten
