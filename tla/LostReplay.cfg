\* A gate is cleared while the runner is about to leave.
SPECIFICATION Spec
CONSTANTS
    t1 = t1
    t2 = t2
    p1 = p1
    p2 = p2
    p3 = p3
    h1 = h1
    h2 = h2
    MaxGoals = 1
    Tasks = {t1}
    Bands = {"below_20k"}
    Plans <- OneToken
    Procs = {p1, p2}
    None = "none"
    NoTask = "no_task"
    ListedBand <- AllListed
    RenderedBands = {"below_20k"}
    Threads = {h1}
    RoleOf <- AllDifferent
    Requests = {"start", "clear"}
    MayRestart = FALSE
PROPERTIES
    ClearedGateIsReplayed
CHECK_DEADLOCK FALSE
