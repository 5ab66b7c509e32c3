\* Crashes, power failures, failing calls and a changing server, between any two steps.
SPECIFICATION MCFairSpec
CONSTANTS
  BlockSize = 4
  TotalSize = 7
  IoAlignment = 2
  Requests <- MCOneRequest
  Versions <- MCVersions
  Validators <- MCValidators
  r1 = r1
  r2 = r2
  v1 = v1
  v2 = v2
  v3 = v3
  OverwriteExisting = TRUE
  MayFail = TRUE
  MaxFaults = 2
INVARIANTS
  TypeOK
  MetadataBacksUnits
  FinishedUnitsAreCurrent
  IInv
PROPERTIES
  KeepsPromise
  DownloadsInTheEnd
CONSTRAINT
  Explored
CHECK_DEADLOCK FALSE
