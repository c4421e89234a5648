CONSTANTS
    Peer = {"p1", "p2"}  Key = {"k1", "k2"}  Request = {"r1", "r2"}
    MaxActions = 4  MaxTimeouts = 2  MaxLapses = 1  MaxJobFailures = 2
    Session = {"chat", "package"}  PackageSession = {"package"}
    Ticket = {"t1", "t2"}  Canceller = {"c"}  MaxRepair = 1
    Task = {"t"}  Comment = {"c", "d"}  Handler = {"h"}  Reconciler = "r"  NoTask = "none"
    PageSize = 1
    MaxChanges = 2  MaxDeliveries = 4  MaxFailures = 1  MaxRestarts = 1
SPECIFICATION MCSpec
INVARIANTS DoneOnce
PROPERTIES InstalledOnce DisconnectEndsSessions ActionEnds MergedIsSeen
CHECK_DEADLOCK FALSE
