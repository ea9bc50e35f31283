\* Every instance is bounded by MaxJobs, so behaviours end when no job can be added.
SPECIFICATION WorkerSafe
CONSTANTS
    r1 = r1
    w1 = w1
    w2 = w2
    q1 = q1
    NoRun = NoRun
    NoWorker = NoWorker
    Run = {r1}
    Tool = {}
    ToolRun <- NoTools
    Recoverable = {}
    Caller = {}
    Ask = {q1}
    Parent <- FlatParent
    Deps <- FlatDeps
    CompletionMode <- FlatMode
    QuorumRequired = 1
    Thread <- OneThread
    Worker = {w1}
    LeaseTicks = 1
    MaxJobs = 1
    MaxCycles = 1
    MaxStarts = 0
    Slots = 1
INVARIANTS
    SlotIsReleased
CHECK_DEADLOCK FALSE
