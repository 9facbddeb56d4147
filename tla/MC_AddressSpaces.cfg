SPECIFICATION Spec
CONSTANTS
    Tasks = {init, t2, t3}
    Pages = {stack, data}
    Frames = {f1, f2, f3, f4, f5}
    Values = {v1, v2}
    USER_STACK_PAGE = stack
    init = init
    None = None
    KernelStores = FALSE
SYMMETRY Interchangeable
INVARIANTS
  AInv
  RefCountExact
  SharedIsReadOnly
  FramesAccounted
PROPERTIES
  MemoryIsPrivate
