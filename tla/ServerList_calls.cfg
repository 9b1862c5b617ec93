CONSTANTS
    Users = {c1}
    Senders = {c2, c3}
    Setters = {c3}
    Default <- MCDefault
    Lists <- MCLists
    Parses <- MCParses
SPECIFICATION Spec
INVARIANTS TypeOK ClientIsOfList RetryAsksAnother
PROPERTY EveryoneGetsTheClient
