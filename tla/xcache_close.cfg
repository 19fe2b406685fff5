CONSTANTS
  Nodes = {n1, n2, n3, n4}
  Size = 2
  Names = {a, b, c}
  Threads = {t1, t2}
  RefMod = 64
  MaxRefs = 2
  OnInitFails = FALSE
  NoEntry = NoEntry
  NoName = NoName
  NoThread = NoThread
SPECIFICATION CloseSpec
SYMMETRY Symmetry
CHECK_DEADLOCK FALSE
INVARIANT HeldNotFreed
