\* A thread created without wait is called again with wait.
SPECIFICATION LiveSpec
CONSTANTS
    Run = {1, 2}
    MaxSeq = 3
    MaxClaims = 4
    MaxReviews = 0
    MaxCalls = 2
    WorkerKind = {"server"}
    KindOf <- MCKindOf
    Slot = {"server"}
    SlotsOf <- MCSlotsOf
    SlotLimit <- MCTwoSlots
    SandboxRuns = {}
    BackgroundRuns = {}
    EnvironmentRuns = {}
    SameWait = FALSE
PROPERTY AgentCallAnswered
CHECK_DEADLOCK FALSE
