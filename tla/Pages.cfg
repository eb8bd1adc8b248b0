SPECIFICATION PageFairSpec
CONSTANTS
  Tasks = {t1, t2}
  MaxTicks = 2
  MaxLost = 1
  Pages = 3
  MaxCount = 2
INVARIANTS
  PageTypeOK
  MutexRight
  Accounted
PROPERTIES
  Pool
  AllocationReturns
CHECK_DEADLOCK FALSE
