\* A caller and a thread it calls, workers that die, cancellations and reviews.
SPECIFICATION LiveSpec
CONSTANTS
    Run = {1, 2}
    MaxSeq = 3
    MaxClaims = 4
    MaxReviews = 1
    MaxCalls = 2
    WorkerKind = {"server"}
    KindOf <- MCKindOf
    Slot = {"server"}
    SlotsOf <- MCSlotsOf
    SlotLimit <- MCTwoSlots
    SandboxRuns = {}
    BackgroundRuns = {}
    EnvironmentRuns = {}
    SameWait = TRUE
PROPERTIES LostRunIsRecovered AgentCallAnswered CancelReachesWorker
CHECK_DEADLOCK FALSE
