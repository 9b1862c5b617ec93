SPECIFICATION Spec
CONSTANTS
  c1 = c1
  Callers = {c1}
  N = 3
  Retries = 2
  Kinds = {"critical", "script", "lookup", "status"}
  Behaviours = {"up", "dead", "lacking", "mute"}
  MaxChanges = 2
INVARIANT LookupAsksEveryServer
