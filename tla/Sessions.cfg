CONSTANTS
    RequestId = {"q1", "q2"}  Handler = {"h1", "h2"}  MaxRuns = 2  MaxRestarts = 1
    Caller = {"c1"}  Poller = {"r1", "r2"}  MaxAct = 2  Silent = {}
    Clients = {"parent", "child"}  BranchOf <- BranchOfClient
    MaxEvents = 2  MaxLog = 4  MaxPieces = 2
    Input = {"i1", "i2"}  Window = {"w1", "w2"}  MaxSends = 2
    Branches = 2  Request = {"r1", "r2"}  MaxRetries = 1
SPECIFICATION MCSpec
INVARIANTS TypeOK RepeatedStartsOnce ShownOnceInOrder LossIsAnnounced ToldIsTrue FailedIsClosed
PROPERTIES ReportedEndIsShown
CHECK_DEADLOCK FALSE
