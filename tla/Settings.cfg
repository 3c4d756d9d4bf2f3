\* Two changes at a time, three in all, and deaths of the service.
SPECIFICATION Spec
CONSTANTS
    Requests = {r1, r2}
    Users = {admin, other}
    Admin = admin
    Hashes = {p1, p2}
    NoHash = NoHash
    Missing = Missing
    Empty = Empty
    Proxy = FALSE
    Torn = Torn
    MaxChanges = 3
INVARIANTS
    MemoryIsStored
    EveryoneLogsInAgain

    
SYMMETRY RequestSymmetry
CHECK_DEADLOCK FALSE
