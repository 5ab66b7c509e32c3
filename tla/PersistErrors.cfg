\* A flush that fails while packets keep arriving.
SPECIFICATION Spec
CONSTANTS
  BlockSize <- MCBlockSize
  TotalSize = 8
  RangeIds <- OneRange
  RangeFirst <- OneRangeFirst
  RangeLast <- OneRangeLast
  Packets <- OneRangePackets
  Reordered = FALSE
  IoAlignment <- MCIoAlignment
  MaxGapBytes = 1
  MayFail = TRUE
INVARIANTS
  FlushErrorsReported
CHECK_DEADLOCK FALSE
