\* One task, two requests at a time, minutes that are even or odd.
SPECIFICATION Spec
CONSTANTS
    even = even
    odd = odd
    None = None
    Ids = {t1}
    Regs = {r1, r2, r3}
    Schedules = {even, odd}
    Period = 2
    FiresAt <- MCFiresAt
    Clients = {c1, c2}
    MaxRunHistory = 1
    MaxTransfers = 1
INVARIANTS
    SchedulerMatchesStore
PROPERTIES
    DeletedStaysDeleted
    TickOncePerMinute
SYMMETRY TaskSymmetry
CHECK_DEADLOCK FALSE
