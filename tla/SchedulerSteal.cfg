\* Two handles on at most four ranges, the most that splits and steals can make of the file.
\* The temporal property is the reason for the fairness; the others hold without.
SPECIFICATION FairSpec
CONSTANTS
  BlockSize <- MCBlockSize
  TotalSize <- MCTotalSize
  MaxConnections = 2
  WindowBytes = 3
  AcceptRanges = TRUE
  WideConnections = 16
  MaxRanges = 4
  NoRange = NoRange
INVARIANTS
  TypeOK
  RangesPartition
  RangesAlignedToBlocks
  LeasesExclusive
  FetchedIsAccounted
  EveryRangeOwnedOnce
  CompletionSound
  DownloadsEverything
  IInv
PROPERTIES
  DistributesWork
  Terminates
CHECK_DEADLOCK FALSE
