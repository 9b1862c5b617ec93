CONSTANTS
    a = a
    b = b
    d = d
    s1 = s1
    s2 = s2
    s3 = s3
    Callers = {x}
    Coins = {a, b, d}
    Payments = {p1, p2}
    Scripts = {s1, s2, s3}
    Owner <- MCOwner
    PaidTo <- MCPaidTo
    Mined = {a, d}
    MaxWallet = 2
    Faults = {"stale"}
    CrashIn = {"refresh", "send", "balance"}
    MaxFaults = 1
SPECIFICATION Spec
INVARIANT NeverCountedTwice
