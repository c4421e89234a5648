\* A sandboxed caller and a run it may call, as a thread or ephemerally.
SPECIFICATION Spec
CONSTANTS
    Run = {1, 2}
    MaxSeq = 2
    MaxClaims = 2
    MaxReviews = 0
    MaxCalls = 2
    WorkerKind = {"server"}
    KindOf <- MCKindOf
    Slot = {"server"}
    SlotsOf <- MCSlotsOf
    SlotLimit <- MCTwoSlots
    SandboxRuns = {1}
    BackgroundRuns = {1, 2}
    EnvironmentRuns = {}
INVARIANTS TypeOK ActiveRunIsLeased ClosedRunReleased ExclusiveClaim
PROPERTIES ReportMissedOnlyByLateMark DesertedOnlyUnreported ThreadEndsWithTarget
CHECK_DEADLOCK FALSE
