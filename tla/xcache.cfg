CONSTANTS
  Nodes = {n1, n2, n3, n4}
  Size = 2
  Names = {a, b, c}
  Threads = {t1, t2}
  RefMod = 64
  MaxRefs = 2
  OnInitFails = TRUE
  NoEntry = NoEntry
  NoName = NoName
  NoThread = NoThread
SPECIFICATION Spec
SYMMETRY Symmetry
CHECK_DEADLOCK FALSE
INVARIANT RefExact
INVARIANT FreeIsFree
INVARIANT OneEntryPerName
INVARIANT InsertNeverFails
INVARIANT NoLostNode
