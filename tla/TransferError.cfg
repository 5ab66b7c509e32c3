\* Everything in order but the disk: is a failed write noticed?
SPECIFICATION FairSpec
CONSTANTS
  HandleCount = 2
  RangeCount = 2
  WindowBytes = 3
  PacketBytes = 2
  ChunkBytes = 2
  Overhead = 1
  Capacity = 1
  Slack = 1
  Watermarks <- MCAmpleMemory
  Overruns = FALSE
  MayFail = TRUE
PROPERTY
  ErrorStopsNetwork
CHECK_DEADLOCK FALSE
