CONSTANTS
    Users = {c1, c2}
    Senders = {}
    Setters = {c3}
    Default <- MCDefault
    Lists <- MCLists
    Parses <- MCParses
SPECIFICATION Spec
PROPERTY EveryoneAlwaysGetsTheClient
