SPECIFICATION Spec
CONSTANTS
  PoolStart = 2
  PoolEnd = 21
  MemoryEnd = 21
  OVERHEAD = 2
  MINNODE = 2
  AlignSize = 2
  Sizes = {0, 1, 4, 7}
INVARIANTS TypeOK NoOverlap NoGap Coalesced RequestFits Accounting HeldIsAllocated
PROPERTIES NoLeak ImplementsContract
CHECK_DEADLOCK FALSE
