SPECIFICATION Spec
CONSTANTS
  c1 = c1
  c2 = c2
  Callers = {c1, c2}
  N = 2
  Retries = 2
  Kinds = {"lookup"}
  Behaviours = {"up", "lacking"}
  MaxChanges = 0
INVARIANT LookupAsksEveryServer
