\* A resumed file that ends inside a unit of io_alignment.
SPECIFICATION Spec
CONSTANTS
  BlockSize <- MCBlockSize
  TotalSize = 15
  RangeIds <- TwoRanges
  RangeFirst <- TwoRangesFirst
  RangeLast <- TwoRangesLast
  Packets <- TwoRangesPackets
  Reordered = FALSE
  IoAlignment <- MCIoAlignment
  MaxGapBytes = 1
  MayFail = TRUE
INVARIANTS
  RecoverySafe
PROPERTIES
  MetadataOnlyGrows
CHECK_DEADLOCK FALSE
