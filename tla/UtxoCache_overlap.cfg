CONSTANTS
    a = a
    b = b
    d = d
    s1 = s1
    s2 = s2
    s3 = s3
    Callers = {x, y}
    Coins = {a}
    Payments = {p1}
    Scripts = {s1}
    Owner <- MCOwnerOne
    PaidTo <- MCPaidToOne
    Mined = {a}
    MaxWallet = 1
    Faults = {"crash", "stale"}
    CrashIn = {"refresh", "send", "balance"}
    MaxFaults = 1
SPECIFICATION Spec
PROPERTY Converges
