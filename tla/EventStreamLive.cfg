\* One connection at a time, two topics, a break and drops, fair goroutines.
SPECIFICATION FairSpec
CONSTANTS
    kept = kept
    passing = passing
    Topics = {kept, passing}
    Transient = {passing}
    Conns = {a}
    Places = {1, 2}
    Chans <- MCChans
    Requests <- BothTopics
    Cap = 1
    MergedCap = 1
    MaxPublishes = 2
    MaxBreaks = 1
INVARIANTS
    Gapless
PROPERTIES
    ImplementsLog
    StreamCatchesUp
    ForwardersEnd
CHECK_DEADLOCK FALSE
