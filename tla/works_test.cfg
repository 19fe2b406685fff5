CONSTANTS
  Threads = {t1, t2}
  NoThread = NoThread
  Jobs = {j1, j2}
  NoJob = NoJob
  QueueSize = 8
  Kinds = {"workq"}
SPECIFICATION TestSpec
INVARIANT TestsExpectation
CHECK_DEADLOCK FALSE
