SPECIFICATION AllocatorsSpec
CONSTANTS
  PAGE_SIZE = 4096
  MAX_ORDER = 4
  Sizes = {4096, 4097, 12000, 20000, 40000}
  SLOB_PAGE_SIZE = 96
  NumPages = 2
  largest_chunk_size = 48
  ChunkSizes = {8, 30, 44}
  ExactFit = TRUE
INVARIANT
  HeapTiled
