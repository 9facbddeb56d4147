SPECIFICATION Spec
CONSTANTS
    NrClusters = 5
    EntriesPerCluster = 4
    FileNames = {"a", "long"}
    DirNames = {"d"}
    LongNames = {"long"}
    Deleted = 1
    Short = FALSE
    Handles = {h1, h2}
    Values = {v1, v2}
    Lens = {1, 2}
SYMMETRY Interchangeable
INVARIANT
    WrittenIsRead
