CONSTANTS
  NULL = NULL
  object_handlers = object_handlers
  request_h = request_h
  port_h = port_h
  sd_h = sd_h
  HeapSize = 24100
  alignment_unit = 9
  HeaderSize = 24
  PtrSize = 8
  XhashSize = 64
  HashSlots = 2
  AllocNr = 2
  ObjSize <- Sizes
  Root = object_handlers
  RequestH = request_h
  PortH = port_h
  QueueBytes = 4000
  Lens <- Lengths
  MaxRequests = 3
  MaxPorts = 1
SPECIFICATION Spec
INVARIANTS ChunksOnce ObjectsOnce BuffersApart
