\* Cancel after the left child of a pipeline.
SPECIFICATION Spec
CONSTANTS
    Jobs = {j1}
    Kinds = {"pipeline"}
    Retain = 1
    MaxCrashes = 0
    MaxFaults = 0
    ChildrenDieWithService = TRUE
INVARIANT CancelReachesChildren
CHECK_DEADLOCK FALSE
