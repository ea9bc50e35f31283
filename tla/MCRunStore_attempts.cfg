\* Every instance is bounded by MaxJobs, so behaviours end when no job can be added.
SPECIFICATION Spec
CONSTANTS
    r1 = r1
    r2 = r2
    r3 = r3
    r4 = r4
    r5 = r5
    t1 = t1
    t2 = t2
    w1 = w1
    w2 = w2
    q1 = q1
    q2 = q2
    NoRun = NoRun
    NoWorker = NoWorker
    Run = {r1}
    Tool = {t1, t2}
    ToolRun <- ToolsOfFirst
    Recoverable = {t2}
    Caller = {r1}
    Ask = {q1, q2}
    Parent <- FlatParent
    Deps <- FlatDeps
    CompletionMode <- FlatMode
    QuorumRequired = 1
    Thread <- OneThread
    Worker = {w1, w2}
    LeaseTicks = 1
    MaxJobs = 3
    MaxCycles = 2
    MaxStarts = 2
CONSTRAINT OneShape
SYMMETRY Alike
INVARIANTS
    TypeOK
    OneActiveJob
    JobMatchesStatus
    NoStrandedRun
    OneVerdict
    LedgersSettled
    NoStartAfterEnd
    LiveWorkIsOwned
    NoBlindRestart
PROPERTIES
    OnlyLateJobRevives
    ImplementsLifecycle
CHECK_DEADLOCK FALSE
