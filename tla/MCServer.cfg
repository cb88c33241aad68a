SPECIFICATION Spec
CONSTANTS
    Addrs = {a1, a2}
    Names = {"A", "B"}
    FixedNames = {}
    MaxPlayer = 2
    MaxMonitors = 1
    Faults = TRUE
    MaxListed = 2
    Delta = 4
    SimStep = 40
    Steps <- MCSteps
    LcmStep = 120
    SeeOffset = 12
    SynchOffset = 24
    Slowest = 100
    Workers = {w1}
    Watchers = {c1}
    MaxWait = 2
    MaxMissed = 2
    MaxQueue = 2
    Started = {"l", "r"}
    Savers = {"csv"}
    MaxScore = 2
    MaxSignals = 2
    LogFormats <- MCLogFormats
    ScreenVersions = {1, 3, 4}
    Tiles = {t1, t2}
    SendBefore = 2
    SendInPlay = 1
    MaxScreens = 2
    MaxPoint = 1
    Files = {"a.conf", "server.conf"}
    Sizes = {1, 2}
    TeamNames = {"A", "B"}
    MaxItems = 4
    Keepers = {1, 2}
    Takers = {k1}
    KawayStart = TRUE
    TurnoverTime = 2
    MaxClock = 4
INVARIANTS
    EnabledIsServed
    CountersInStep
    LagIsMissed
    
    ShowsTellMatch
    StartsRight
    KeepawayEpisodes
PROPERTIES
    SentOffNotBack
CHECK_DEADLOCK FALSE
