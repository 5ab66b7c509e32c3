\* Two requests into one output path: is the metadata of one ever taken for the other's?
SPECIFICATION Spec
CONSTANTS
  BlockSize = 4
  TotalSize = 7
  IoAlignment = 2
  Requests <- MCRequests
  Versions <- MCOneVersion
  Validators <- MCValidators
  r1 = r1
  r2 = r2
  v1 = v1
  v2 = v2
  v3 = v3
  OverwriteExisting = TRUE
  MayFail = TRUE
  MaxFaults = 2
INVARIANT
  ResumesItsOwnPart
CHECK_DEADLOCK FALSE
