\* The bounds end every behaviour: requests, events and faults are used up.
SPECIFICATION ServicesSpec
CONSTANTS
    c1 = c1
    c2 = c2
    c3 = c3
    Subscriber = {"s1"}
    Child = {c1, c2}
    Slots = 1
    ToolWaits = 1
    Root = "root"
    Sub = {"s1", "s2"}
    Limits = {9}
    SoftCalls = 8
    FinalTurns = 2
    Retries = 2
    SubTurns = 2
    MaxParallel = 2
    Peer = {"parent", "child"}
    MaxPerRoot = 3
    MaxHops = 1
    MaxLosses = 1
    Schedule = {"q1"}
    ClaimLimit = 1
    MaxPauses = 2
    Config = {"p1"}
    MaxAttempts = 2
    MaxFaults = 1
    Focus = {"stream", "coordination", "schedule", "push"}
    Policies <- TwoPolicies
    QueueSize = 1
    MaxSeq = 2
    MaxTransient = 1
    MaxConnect = 1
    MaxCuts = 1
    MaxPending = 1
    MaxRestarts = 1
    Server = {"x"}
    User = {"u", "v"}
    Fingerprint = {1}
    MaxEntries = 3
    MaxEdits = 1
    MaxBreaks = 1
    MaxLeaks = 1
    MaxEvents = 2
PROPERTIES
    RowsReachReaders
    StreamsEnd
    ParentSettles
    ScheduleSettles
    PushesSettle
CHECK_DEADLOCK FALSE
