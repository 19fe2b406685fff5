CONSTANTS
  Nodes = {n1, n2, n3, n4}
  Size = 2
  Names = {a, b, c}
  Threads = {t1}
  RefMod = 64
  MaxRefs = 2
  OnInitFails = FALSE
  NoEntry = NoEntry
  NoName = NoName
  NoThread = NoThread
  MaxTime = 4
SPECIFICATION CacheSpec
SYMMETRY Symmetry
INVARIANT OldestEvicted
CHECK_DEADLOCK FALSE
