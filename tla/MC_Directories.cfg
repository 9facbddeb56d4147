SPECIFICATION DirectoriesSpec
CONSTANTS
  Tasks = {t1}
  Names = {"a", "b", "f"}
  FileNames = {"f"}
  MaxFs = 2
  MaxDepth = 2
  MaxNodes = 3
  MountAnywhere = FALSE
  BusyUmount = FALSE
  MaxPid = 4
  MaxZeros = 1
INVARIANTS
  PathsResolve
  ProcSound
PROPERTIES
  MountCovers
  ListsEveryTask
