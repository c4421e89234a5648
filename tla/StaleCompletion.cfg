\* One run continued under the lease of its previous activation.
SPECIFICATION Spec
CONSTANTS
    Run = {1}
    MaxSeq = 3
    MaxClaims = 3
    MaxReviews = 0
    MaxCalls = 2
    WorkerKind = {"server"}
    KindOf <- MCKindOf
    Slot = {"server"}
    SlotsOf <- MCSlotsOf
    SlotLimit <- MCTwoSlots
    SandboxRuns = {}
    BackgroundRuns = {}
    EnvironmentRuns = {}
PROPERTY StaleActivationRejected
CHECK_DEADLOCK FALSE
