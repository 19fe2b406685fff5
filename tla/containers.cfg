CONSTANTS
  a = a
  b = b
  e = e
  Keys = {a, b, e}
  Hash <- CollidingHash
  Data = {1, 2}
  None = None
  UNUSED = UNUSED
  DUMMY = DUMMY
  MinShift = 2
  MaxShift = 3
  Limit = 4
  Reinsert = {e}
  PoolSize = 3
  PoolData = {1, 2}
  NoIndex = NoIndex
  HeapSize = 4
  HeapKeys = {1, 2, 3}
  HeapValues = {1}
  NoNode = NoNode
  t1 = t1
  t2 = t2
  t3 = t3
  t4 = t4
  Threads = {t1, t2, t3, t4}
  PidOf <- Small
  PidMod = 8
  NoOne = NoOne
  NoPid = NoPid
SPECIFICATION Spec
INVARIANTS CountersExact ProbesEnd ResizeSuffices IterationComplete Mutex LockedByNamed
PROPERTIES RefinesDictionary RefinesRing RefinesQueue ComesFree
CHECK_DEADLOCK FALSE
