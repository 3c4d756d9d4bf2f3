\* One task, two requests at a time, minutes that are even or odd.
SPECIFICATION FairSpec
CONSTANTS
    even = even
    odd = odd
    None = None
    Ids = {t1}
    Regs = {r1, r2}
    Schedules = {even, odd}
    Period = 2
    FiresAt <- MCFiresAt
    Clients = {c1}
    MaxRunHistory = 1
    MaxTransfers = 1
PROPERTIES
    EnabledTaskKeepsRunning
    StopEnds
CHECK_DEADLOCK FALSE
