\* Two transfers, a queue that is full at once, watermarks that one or two buffers reach.
SPECIFICATION FairSpec
CONSTANTS
  HandleCount = 2
  RangeCount = 3
  WindowBytes = 3
  PacketBytes = 2
  ChunkBytes = 2
  Overhead = 1
  Capacity = 1
  Slack = 0
  Watermarks <- MCWatermarks
  Overruns = TRUE
  MayFail = TRUE
INVARIANTS
  TypeOK
  DeliveryIInv
  MemoryAccounted
  MemoryBounded
  QueuedPacketsExact
  DeliveredInOrder
  PausedForAReason
  SuccessIsComplete
PROPERTIES
  EndsOrStalls
  ResumeReleases
CHECK_DEADLOCK FALSE
