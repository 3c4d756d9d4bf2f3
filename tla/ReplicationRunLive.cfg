\* One run at a time in three seconds; one snapshot is kept.
SPECIFICATION FairSpec
CONSTANTS
    Runs = {r1}
    ByHand = TRUE
    Retain = 1
    Before = 1
    MaxClock = 3
PROPERTIES
    HoldIsSettled
CHECK_DEADLOCK FALSE
