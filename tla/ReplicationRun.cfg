\* Two runs at a time in two seconds, after an undisturbed one; one snapshot is
\* kept.
SPECIFICATION Spec
CONSTANTS
    Runs = {r1, r2}
    ByHand = TRUE
    Retain = 1
    Before = 1
    MaxClock = 3
INVARIANTS
    HeldHasOwner
    TargetKeepsUp
PROPERTIES
    RollbackSparesShared
SYMMETRY RunSymmetry
CHECK_DEADLOCK FALSE
