\* One run whose worker dies before it reads a cancel request.
SPECIFICATION Spec
CONSTANTS
    Run = {1}
    MaxSeq = 3
    MaxClaims = 3
    MaxReviews = 0
    MaxCalls = 2
    WorkerKind = {"server"}
    KindOf <- MCKindOf
    Slot = {"server"}
    SlotsOf <- MCSlotsOf
    SlotLimit <- MCTwoSlots
    SandboxRuns = {}
    BackgroundRuns = {}
    EnvironmentRuns = {}
PROPERTY CancelNotForgotten
CHECK_DEADLOCK FALSE
