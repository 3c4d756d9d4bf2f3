\* Two requests at a time, three in all, a share that keeps its name and one
\* that does not.
SPECIFICATION Spec
CONSTANTS
    Requests = {r1, r2}
    Names = {backup, homes}
    HomesName = homes
    Reserved = {homes}
    Paths = {p1}
    Groups = {g, h}
    Unsafe = {h}
    DefaultGroup = g
    None = None
    MaxRequests = 3
INVARIANTS
    NoChangeIsLost
    SmbdIsCurrent
    WsddFollows
SYMMETRY RequestSymmetry
