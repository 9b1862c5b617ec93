CONSTANTS
    Users = {}
    Senders = {}
    Setters = {c1}
    Default <- MCDefault
    Lists <- MCLists
    Parses <- MCParses
SPECIFICATION Spec
INVARIANT ClientIsAlwaysOfList
