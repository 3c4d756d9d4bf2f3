\* One job of either kind, two deaths of the service that its children survive,
\* one storage fault, fair goroutines.
SPECIFICATION FairSpec
CONSTANTS
    Jobs = {j1}
    Kinds = {"pipeline", "run"}
    Retain = 1
    MaxCrashes = 2
    MaxFaults = 1
    ChildrenDieWithService = FALSE
INVARIANTS
    FinishedHasNoChild
    OutcomeIsPipefail
    ToldEndStands
    RunningIsSupervised
PROPERTIES
    TerminalIsFinal
    RecordedOutcomeStable
    CancelledJobEnds
    ExitIsReported
    StaleRecordIsSettled
CHECK_DEADLOCK FALSE
