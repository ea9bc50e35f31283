\* The bounds end every behaviour: requests, events and faults are used up.
SPECIFICATION ServicesSafe
CONSTANTS
    c1 = c1
    c2 = c2
    c3 = c3
    Subscriber = {"s1"}
    Child = {c1, c2, c3}
    Slots = 1
    ToolWaits = 1
    Root = "root"
    Sub = {"s1", "s2"}
    Limits = {1, 2, 4, 9}
    SoftCalls = 8
    FinalTurns = 2
    Retries = 2
    SubTurns = 2
    MaxParallel = 2
    Peer = {"parent", "child"}
    MaxPerRoot = 3
    MaxHops = 1
    MaxLosses = 1
    Schedule = {"q1", "q2"}
    ClaimLimit = 1
    MaxPauses = 1
    Config = {"p1", "p2"}
    MaxAttempts = 2
    MaxFaults = 1
    Focus = {"stream", "coordination", "loop", "mail", "schedule", "push", "mcp"}
    Policies <- AllPolicies
    QueueSize = 2
    MaxSeq = 3
    MaxTransient = 1
    MaxConnect = 2
    MaxCuts = 2
    MaxPending = 1
    MaxRestarts = 2
    Server = {"x"}
    User = {"u", "v"}
    Fingerprint = {1}
    MaxEntries = 3
    MaxEdits = 1
    MaxBreaks = 1
    MaxLeaks = 1
    MaxEvents = 1
CONSTRAINT Apart
INVARIANTS
    ServicesTypeOK
    OneInside
    OnlySurplusOutlives
    CompletedByPolicy
    FinalAnswerFits
    RetriesAreSilent
    ModelSeesItsMail
    ConversationsAreDense
    OneRunPerSchedule
    OutcomeIsTheRuns
    DeletedOwesNothing
    OnlySnapshotsSkip
    SessionsFollowUse
PROPERTIES
    NoGapNoDuplicate
    EndsComplete
CHECK_DEADLOCK FALSE
