\* Caller and called run share a slot class with a capacity of one.
SPECIFICATION LiveSpec
CONSTANTS
    Run = {1, 2}
    MaxSeq = 3
    MaxClaims = 3
    MaxReviews = 0
    MaxCalls = 2
    WorkerKind = {"server"}
    KindOf <- MCKindOf
    Slot = {"server"}
    SlotsOf <- MCSlotsOf
    SlotLimit <- MCOneSlot
    SandboxRuns = {}
    BackgroundRuns = {}
    EnvironmentRuns = {}
    SameWait = TRUE
PROPERTY AgentCallAnswered
CHECK_DEADLOCK FALSE
