CONSTANTS
  Threads = {t1, t2, t3}
  NoThread = NoThread
  Jobs = {j1, j2, j3}
  NoJob = NoJob
  QueueSize = 1
  Kinds = {"workq", "workq_nolock", "waitq", "waitq_one"}
SPECIFICATION Spec
INVARIANTS EachJobOnce NoJobStranded
PROPERTY JobsRun
CHECK_DEADLOCK FALSE
