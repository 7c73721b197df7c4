\* Human gates are cleared, retried and approved while cycles run.
SPECIFICATION FairSpec
CONSTANTS
    t1 = t1
    t2 = t2
    p1 = p1
    p2 = p2
    p3 = p3
    h1 = h1
    h2 = h2
    MaxGoals = 1
    Tasks = {t1, t2}
    Bands = {"below_20k"}
    Plans <- OneToken
    Procs = {p1, p2}
    None = "none"
    NoTask = "no_task"
    ListedBand <- AllListed
    RenderedBands = {"below_20k"}
    Threads = {h1}
    RoleOf <- OneRoleForAll
    Requests = {"start", "confirm", "clear"}
    MayRestart = FALSE
PROPERTIES
    RunnersEnd
CHECK_DEADLOCK FALSE
