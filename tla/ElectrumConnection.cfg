CONSTANTS
    Callers = {c1, c2, c3}
    MaxCalls = 6
    MaxSlow = 2
SPECIFICATION Spec
CHECK_DEADLOCK FALSE
INVARIANTS TypeOK AnswerIsMine LockIsHeld HarmIsBounded
