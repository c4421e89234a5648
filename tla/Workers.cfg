SPECIFICATION MCSpec
CONSTANTS
    Steer = {"s1", "s2"}
    MaxClaims = 3
    MaxLost = 1
    NEvents = 4
    ChannelSize = 2
    Continue = TRUE
    RetryEmpty = TRUE
    Fallbacks = 1
    QueueSize = 1
    MaxTokens = 2
    MaxBroken = 1
    Run = {"r1", "r2", "r3"}
    OnPeer = {"r3"}
    NoRun = "none"
    MissingStops = FALSE
    Faults = TRUE
    MaxEvents = 3
    MaxCancels = 1
    Draft = {"d1", "d2"}
    NoDraft = "none"
    MaxRounds = 2
    MaxCalls = 3
    MaxChats = 3
    Renewed = TRUE
    File = {"f", "g"}
    Call = {"a", "b"}
    Patches <- MCPatches
    FirstFiles <- MCFirstFiles
    MaxFaults = 3
INVARIANTS TypeOK SteersAreKept EventsAreKept ContentWasShown BusyIsHeld CallsAnswered PatchIsWhole
PROPERTY NothingHangs
CHECK_DEADLOCK FALSE
