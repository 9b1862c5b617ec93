SPECIFICATION FairSpec
CHECK_DEADLOCK FALSE
CONSTANTS
  c1 = c1
  c2 = c2
  Callers = {c1, c2}
  N = 2
  Retries = 2
  Kinds = {"gated", "lookup"}
  Behaviours = {"up", "dead", "silent", "limiting"}
  MaxChanges = 1
INVARIANT TypeOK
INVARIANT ReachableServerAnswers
PROPERTY CallsReturn
