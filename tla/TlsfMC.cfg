SPECIFICATION MCSpec
CONSTANTS
  BLOCK_ALIGN = 2
  MIN_BLOCK_SIZE = 2
  BHDR_OVERHEAD = 2
  AREA_INFO_SIZE = 2
  MAX_LOG2_SLI = 2
  SMALL_BLOCK = 8
  FLI_OFFSET = 2
  MAX_FLI = 7
  DEFAULT_AREA_SIZE = 20
  BRK = 46
  BRK_LIMIT = 82
  NULL = NULL
  Nil = Nil
  Keys = {1, 2}
  TraceSizes = {1, 5}
  POOL_SIZE = 30
  RECORD_SIZE = 4
  FIRST_SIZE = 2
  Sizes = {3, 17}
  Pool <- MiddlePool
  NewAreas <- BeforeAndAfter
  MaxLive = 3
  TreeKeys = {1, 2, 3, 4, 5, 6, 7}
CHECK_DEADLOCK FALSE
INVARIANTS
  HeapTiled
  FreeBlocksIndexed
  TreeBalanced
  ObjectsHeld
