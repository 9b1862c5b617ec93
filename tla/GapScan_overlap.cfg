SPECIFICATION Spec
CONSTANTS
  MaxIndex = 2
  GapLimit = 2
  BatchSize = 2
  RpcBudget = 8
  MaxSlices = 2
  ProbeSize = 1
  RefreshBesideScan = TRUE
  UsesCoreHdPaths = FALSE
  BatchLimitError = "indexing batch limit reached"
  Faults = {}
  MaxFaults = 0
  MaxRescans = 0
  MaxCalls = 1
INVARIANT SettledWalletFoundAll
CHECK_DEADLOCK FALSE
