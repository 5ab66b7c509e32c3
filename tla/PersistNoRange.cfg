\* A resumed file, fetched again as a whole.
SPECIFICATION Spec
CONSTANTS
  BlockSize <- MCBlockSize
  TotalSize = 7
  RangeIds <- OneHole
  RangeFirst <- OneHoleFirst
  RangeLast <- OneHoleLast
  Packets <- WholeFilePackets
  Reordered = FALSE
  IoAlignment = 2
  MaxGapBytes = 1
  MayFail = FALSE
INVARIANTS
  FinishedRangesComplete
CHECK_DEADLOCK FALSE
