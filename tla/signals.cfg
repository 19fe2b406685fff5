CONSTANTS
  Waiters <- OneOrTwo
  Producers = {p1, p2}
  Reqs = {r1, r2, r3}
  NoReq = NoReq
  QueueSize = 2
  PrepareFirst = TRUE
  Queues = {1, 2}
  Callers = {t1, t2}
  Values = {0, 1}
  Sizes = {1, 2}
  IdxMod = 4
  Noneidx = Noneidx
  NoCaller = NoCaller
SPECIFICATION MCSpec
INVARIANTS NoLostWakeup NoWaitCycle
PROPERTIES EachIsTaken RefinesDeque
