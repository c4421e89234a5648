SPECIFICATION MCSpec
CONSTANTS
    Txn = {t1, t2}
    Handler = {g, h}
    Taskflow = {"a", "b"}
    Assignment = {"a", "b"}
    NoAssignment = "none"
    MaxSeq = 2
    MaxClaims = 2
    MaxCalls = 1
    MaxLapses = 1
    GiveUp = TRUE
    MaxDrafts = 2
    MaxDecisions = 1
    MaxMarks = 1
    MaxRuns = 1
    MaxRestarts = 1
SYMMETRY Symmetry
INVARIANTS TypeOK ClosedRunReleased OnlyConfirmedRuns CancelHolds
PROPERTIES LeaseLostOnlyToOverlap ReportMissedOnlyByLateMark
CHECK_DEADLOCK FALSE
