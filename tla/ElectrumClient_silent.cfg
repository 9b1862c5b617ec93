SPECIFICATION FairSpec
CHECK_DEADLOCK FALSE
CONSTANTS
  c1 = c1
  Callers = {c1}
  N = 2
  Retries = 2
  Kinds = {"gated"}
  Behaviours = {"up", "silent"}
  MaxChanges = 0
PROPERTY CallsAlwaysReturn
