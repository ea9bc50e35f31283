\* Every instance is bounded by MaxJobs, so behaviours end when no job can be added.
SPECIFICATION Spec
CONSTANTS
    r1 = r1
    r2 = r2
    r3 = r3
    r4 = r4
    r5 = r5
    t1 = t1
    t2 = t2
    w1 = w1
    w2 = w2
    q1 = q1
    q2 = q2
    NoRun = NoRun
    NoWorker = NoWorker
    Run = {r1, r2, r3, r4, r5}
    Tool = {}
    ToolRun <- NoTools
    Recoverable = {}
    Caller = {}
    Ask = {q1}
    Parent <- TreeParent
    Deps <- TreeDeps
    CompletionMode <- TreeMode
    QuorumRequired = 1
    Thread <- OneThread
    Worker = {w1}
    LeaseTicks = 1
    MaxJobs = 3
    MaxCycles = 1
    MaxStarts = 0
CONSTRAINT OneExtra
INVARIANTS
    DependenciesFirst
    NoUnawareChild
    OneTurnPerThread
CHECK_DEADLOCK FALSE
