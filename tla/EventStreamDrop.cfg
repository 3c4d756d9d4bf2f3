\* Two topics, one asked for twice too, buffers of one, a new connection while the old one ends.
SPECIFICATION Spec
CONSTANTS
    kept = kept
    passing = passing
    Topics = {kept, passing}
    Transient = {passing}
    Conns = {a, b}
    Places = {1, 2}
    Chans <- MCChans
    Requests <- SomeTwice
    Cap = 1
    MergedCap = 1
    MaxPublishes = 2
    MaxBreaks = 1
INVARIANTS
    ReturnedIsReleased
PROPERTIES
    StreamNeverGoesBack
SYMMETRY ConnSymmetry
CHECK_DEADLOCK FALSE
