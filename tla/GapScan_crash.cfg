SPECIFICATION Spec
CONSTANTS
  MaxIndex = 2
  GapLimit = 2
  BatchSize = 2
  RpcBudget = 8
  MaxSlices = 2
  ProbeSize = 1
  RefreshBesideScan = FALSE
  UsesCoreHdPaths = FALSE
  BatchLimitError = "indexing batch limit reached"
  Faults = {"crash"}
  MaxFaults = 1
  MaxRescans = 0
  MaxCalls = 0
INVARIANT AlwaysAdvanced
CHECK_DEADLOCK FALSE
