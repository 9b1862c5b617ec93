CONSTANTS
    Users = {}
    Senders = {}
    Setters = {c1, c2}
    Default <- MCDefault
    Lists <- MCTwoLists
    Parses <- MCParses
SPECIFICATION Spec
INVARIANT ClientIsAlwaysOfList
