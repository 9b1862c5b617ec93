SPECIFICATION FairSpec
CONSTANTS
  MaxIndex = 3
  GapLimit = 2
  BatchSize = 3
  RpcBudget = 3
  MaxSlices = 2
  ProbeSize = 1
  RefreshBesideScan = FALSE
  UsesCoreHdPaths = TRUE
  BatchLimitError = "indexing budget exhausted"
  Faults = {"network", "timeout", "crash"}
  MaxFaults = 1
  MaxRescans = 1
  MaxCalls = 1
INVARIANT TypeOK
INVARIANT ScanCompleteFoundAll
INVARIANT SavedProgressCovers
INVARIANT ReceiveIndexPastUsed
PROPERTY ScanCompletes
PROPERTY CacheFilled
CHECK_DEADLOCK FALSE
