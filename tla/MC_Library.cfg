SPECIFICATION LibrarySpec
CONSTANTS
  SharedVars = {s1, s2}
  WeakVars = {w1, w2}
  MaxObjects = 2
  MaxBlocks = 4
  Lists = {1, 2}
  ListValues = {"a", "b"}
  MaxListNodes = 4
  Events = {"a", "b", "c"}
  Timeouts = {0, 1, 2}
  Periods = {0, 1, 2}
  DEFAULT_SIZE = 2
  Capacity = 4
  MaxTasklets = 9
  Alphabet = {32, 43, 45, 46, 49, 50, 56, 97}
  MaxTyped = 4
  INT_MAX = 127
  UcsChars = {65, 127, 233, 2048, 20013, 65535}
  MaxNameChars = 4
  EntryChars = 2
  Letters = {97, 98}
  LineSizes = {0, 1, 3}
  MaxKeys = 5
  MaxColumns = 2
  UniqueVars = {u1, u2, u3}
  MaxOwned = 3
  NrBlocks = 6
  Table <- FourEntries
  BlockValues = {"a", "b"}
  MAX_ORDER = 3
  PAGE_SIZE = 4096
  Sizes = {100, 4096, 8000}
  KASAN_SLOTS = 5
  CHUNK_HEADER_SIZE = 16
  NumChunks = 1
SYMMETRY Interchangeable
INVARIANTS
  
  ListIsSequence
  TimersExact
  RunOnceInOrder
  StringsAgree
  FormatsReadBack
  LineIsShown
  BlocksAreStored
  DoubleFreeStopped
