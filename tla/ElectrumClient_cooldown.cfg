SPECIFICATION Spec
CONSTANTS
  c1 = c1
  Callers = {c1}
  N = 2
  Retries = 2
  Kinds = {"gated", "script"}
  Behaviours = {"up", "limiting"}
  MaxChanges = 0
PROPERTY QuietDuringCooldown
