SPECIFICATION Spec
CONSTANTS
  c1 = c1
  Callers = {c1}
  N = 2
  Retries = 2
  Kinds = {"script"}
  Behaviours = {"up", "excessive"}
  MaxChanges = 0
PROPERTY ExcessiveUsagePauses
