CONSTANTS
    in1 = in1
    out = out
    self = self
    coinbase = coinbase
    a1 = a1
    a2 = a2
    x = x
    Refreshers = {c1}
    Senders = {c1}
    Txs = {in1, self, coinbase}
    Own = {a1, a2}
    Other = {x}
    Coinbase = {coinbase}
    Spends <- MCSpends
    Pays <- MCPays
    ChangeTo <- MCChangeTo
    PageSize = 2
    Limit = 1
    ExpandLimit = 4
    Faults = {}
    MaxFaults = 1
SPECIFICATION Spec
PROPERTY QuietRefreshIsComplete
