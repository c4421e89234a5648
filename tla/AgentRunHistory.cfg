\* One sandboxed environment run with up to three claims and activations.
SPECIFICATION Spec
CONSTANTS
    Run = {1}
    MaxSeq = 3
    MaxClaims = 3
    MaxReviews = 1
    MaxCalls = 2
    WorkerKind = {"server"}
    KindOf <- MCKindOf
    Slot = {"server"}
    SlotsOf <- MCSlotsOf
    SlotLimit <- MCTwoSlots
    SandboxRuns = {1}
    BackgroundRuns = {}
    EnvironmentRuns = {1}
INVARIANTS EndedActivationsBehind
PROPERTIES ActivationEndsOnce ClosedRunReopensOnlyByContinue KeepsPromise
CHECK_DEADLOCK FALSE
