CONSTANTS
  p1 = p1
  p2 = p2
  p3 = p3
  posix = posix
  pthread = pthread
  posixfd = posixfd
  Procs = {p1, p2, p3}
  DriverOf <- Peers
  Enables <- Named
  Drivers = {posix, pthread, posixfd}
  MaxTypes = 3
  nr_ports = 3
  dynports = 1
  PortObjs = {o1, o2}
  MaxCrashes = 1
  NULL = NULL
SPECIFICATION Spec
INVARIANTS DynportOwnedOnce PublishedOnce SignalsItsDriver LockGivenUp
SYMMETRY AnyPort
CHECK_DEADLOCK FALSE
