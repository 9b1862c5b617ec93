CONSTANTS
    in1 = in1
    out = out
    self = self
    coinbase = coinbase
    a1 = a1
    a2 = a2
    x = x
    Refreshers = {c1}
    Senders = {c2}
    Txs = {in1, self}
    Own = {a1, a2}
    Other = {x}
    Coinbase = {}
    Spends <- MCSpends
    Pays <- MCPays
    ChangeTo <- MCChangeTo
    PageSize = 2
    Limit = 4
    ExpandLimit = 4
    Faults = {"stale"}
    MaxFaults = 1
SPECIFICATION Spec
INVARIANTS TypeOK StillPagesMissNothing
PROPERTIES ConfirmedNeverDemoted QuietRefreshIsExact
