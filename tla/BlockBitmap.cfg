\* Every interval of a file of four blocks, with a scan beside the marks.
SPECIFICATION Spec
CONSTANTS
  BlockSize <- MCBlockSize
  TotalSize <- MCTotalSize
INVARIANTS
  MarksComputed
PROPERTIES
  VdlOfOneMoment
