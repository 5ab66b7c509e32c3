\* A file that ends inside a unit of io_alignment.
SPECIFICATION Spec
CONSTANTS
  BlockSize <- MCBlockSize
  TotalSize = 7
  RangeIds <- OneRange
  RangeFirst <- OneRangeFirst
  RangeLast <- OneRangeLast
  Packets <- OneRangePackets
  Reordered = FALSE
  IoAlignment <- MCIoAlignment
  MaxGapBytes = 1
  MayFail = FALSE
INVARIANTS
  SavedBlocksAreDurable
CHECK_DEADLOCK FALSE
