SPECIFICATION ReadSpec
CONSTANTS
  TERM = TERM
  Other = Other
  MaxFile = 4
  BufSizes = {0, 1, 3}
  GoodSize = 2
INVARIANTS
  CacheIsWhole
CHECK_DEADLOCK FALSE
