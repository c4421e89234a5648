\* One run that parks for a revision and is cancelled there.
SPECIFICATION LiveSpec
CONSTANTS
    Run = {1}
    MaxSeq = 3
    MaxClaims = 4
    MaxReviews = 1
    MaxCalls = 2
    WorkerKind = {"server"}
    KindOf <- MCKindOf
    Slot = {"server"}
    SlotsOf <- MCSlotsOf
    SlotLimit <- MCTwoSlots
    SandboxRuns = {}
    BackgroundRuns = {}
    EnvironmentRuns = {}
    SameWait = TRUE
PROPERTY CancelTakesEffect
CHECK_DEADLOCK FALSE
