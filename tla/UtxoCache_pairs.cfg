CONSTANTS
    a = a
    b = b
    d = d
    s1 = s1
    s2 = s2
    s3 = s3
    Callers = {x, y}
    Coins = {a, b}
    Payments = {p1}
    Scripts = {s1, s3}
    Owner <- MCOwnerTwo
    PaidTo <- MCPaidToTwo
    Mined = {a, b}
    MaxWallet = 2
    Faults = {"crash"}
    CrashIn = {"refresh", "send", "balance", "import"}
    MaxFaults = 1
SYMMETRY CallersAlike
SPECIFICATION Spec
INVARIANT OnlyOwnRows
