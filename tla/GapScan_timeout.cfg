SPECIFICATION Spec
CONSTANTS
  MaxIndex = 2
  GapLimit = 2
  BatchSize = 2
  RpcBudget = 3
  MaxSlices = 2
  ProbeSize = 1
  RefreshBesideScan = FALSE
  UsesCoreHdPaths = FALSE
  BatchLimitError = "indexing batch limit reached"
  Faults = {"timeout"}
  MaxFaults = 1
  MaxRescans = 0
  MaxCalls = 0
INVARIANT LimitsClearedAfterScan
CHECK_DEADLOCK FALSE
