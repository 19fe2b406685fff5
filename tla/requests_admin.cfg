CONSTANTS
  Ports = {0, 1, 2, 3}
  Bound = {0, 1, 2}
  Usable = {0, 1}
  NoPort = NoPort
  Reqs = {r1, r2}
  NoReq = NoReq
  t0 = t0
  t1 = t1
  Threads = {t0, t1}
  PortOf <- Shared
  NoThread = NoThread
  Dsts = {1, NoPort}
  StaleSrc = {0}
  QueueSize = 1
  MaxQueueSize = 2
  MAX_PATH_LEN = 2
  DefMaxReqs = 2
  AllocMod = 4
  AdminOps = {"alloc", "free", "resize", "limit"}
  Counts = {1, 2}
  Hops <- NoHop
  Resubmit = FALSE
SPECIFICATION Spec
INVARIANTS TypeOK NoSharing NoneForgotten
PROPERTY FqLockExcludes
SYMMETRY AnyRequest
CHECK_DEADLOCK FALSE
