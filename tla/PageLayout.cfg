SPECIFICATION Spec
CONSTANTS
  MINPAGEBLOCKSIZE = 16
  LARGESTSC = 8000
  PAGEDATASIZE = 16200
  SIZECLASSES = 51
  Bits = 4
  Requests <- AllRequests
  PagedSizes = {1300, 2500, 9000}
  Increments = {0, 32, 1024}
CHECK_DEADLOCK FALSE
INVARIANTS
  BlockHoldsRequest
  FieldsApart
  LevelsAgree
PROPERTIES
  ActsOnASet
