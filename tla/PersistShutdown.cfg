\* stop() while a packet is queued.
SPECIFICATION Spec
CONSTANTS
  BlockSize <- MCBlockSize
  TotalSize = 8
  RangeIds <- OneRange
  RangeFirst <- OneRangeFirst
  RangeLast <- OneRangeLast
  Packets <- OneRangePackets
  Reordered = FALSE
  IoAlignment <- MCIoAlignment
  MaxGapBytes = 1
  MayFail = FALSE
INVARIANTS
  ShutdownComesLast
CHECK_DEADLOCK FALSE
