\* Any order of delivery, a file that ends inside a unit of io_alignment.
SPECIFICATION FairSpec
CONSTANTS
  BlockSize <- MCBlockSize
  TotalSize = 7
  RangeIds <- OneRange
  RangeFirst <- OneRangeFirst
  RangeLast <- OneRangeLast
  Packets <- OneRangePackets
  Reordered = TRUE
  IoAlignment <- MCIoAlignment
  MaxGapBytes = 1
  MayFail = TRUE
INVARIANTS
  TypeOK
  FinishedBytesAreHeld
  NoPacketStranded
  GapFlagSound
  FinishedRangesComplete
  IInv
  AlignedIInv
PROPERTIES
  StopsWhenAsked
  ProgressIsSaved
CHECK_DEADLOCK FALSE
