\* Two jobs, one death of the service, one storage fault.
SPECIFICATION Spec
CONSTANTS
    Jobs = {j1, j2}
    Kinds = {"run"}
    Retain = 1
    MaxCrashes = 1
    MaxFaults = 1
    ChildrenDieWithService = TRUE
SYMMETRY JobSymmetry
INVARIANTS
    AnnouncedIsRecorded
    Bounded
PROPERTIES
    RunningIsKept
    ImplementsLifecycle
CHECK_DEADLOCK FALSE
