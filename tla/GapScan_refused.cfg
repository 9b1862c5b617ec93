SPECIFICATION FairSpec
CONSTANTS
  MaxIndex = 4
  GapLimit = 2
  BatchSize = 2
  RpcBudget = 3
  MaxSlices = 2
  ProbeSize = 1
  RefreshBesideScan = FALSE
  UsesCoreHdPaths = FALSE
  BatchLimitError = "indexing batch limit reached"
  Faults = {}
  MaxFaults = 0
  MaxRescans = 0
  MaxCalls = 0
PROPERTY ScanCompletes
CHECK_DEADLOCK FALSE
