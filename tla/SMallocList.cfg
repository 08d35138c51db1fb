SPECIFICATION Spec
CONSTANTS
  PoolStart = 2
  PoolEnd = 15
  MemoryEnd = 18
  MAXINT = 100
  OVERHEAD = 2
  MINNODE = 2
  AlignSize = 2
  Sizes = {1, 3}

INVARIANT ListsSorted
PROPERTY ImplementsSets
CHECK_DEADLOCK FALSE
