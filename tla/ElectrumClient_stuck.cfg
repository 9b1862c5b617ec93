SPECIFICATION BusySpec
CONSTANTS
  c1 = c1
  Callers = {c1}
  N = 2
  Retries = 2
  Kinds = {"gated"}
  Behaviours = {"up", "mute"}
  MaxChanges = 0
PROPERTY FailoverReachesServer
