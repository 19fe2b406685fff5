CONSTANTS
  Ports = {0, 1, 2, 3}
  Bound = {0, 1, 2}
  Usable = {0, 1}
  NoPort = NoPort
  Reqs = {r1, r2}
  NoReq = NoReq
  t0 = t0
  t1 = t1
  Threads = {t0, t1}
  PortOf <- Apart
  NoThread = NoThread
  Dsts = {0, 1}
  StaleSrc = {0}
  QueueSize = 1
  MaxQueueSize = 2
  MAX_PATH_LEN = 2
  DefMaxReqs = 2
  AllocMod = 4
  AdminOps = {}
  Counts = {}
  Hops <- NextHop
  Resubmit = FALSE
SPECIFICATION Spec
INVARIANTS ReplyHasItsPort PathIsSubmitters EndsAtItsSource AllocReqsExact
SYMMETRY AnyRequest
