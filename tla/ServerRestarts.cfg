\* The control center restarts between any two steps.
SPECIFICATION FairSpec
CONSTANTS
    t1 = t1
    t2 = t2
    p1 = p1
    p2 = p2
    p3 = p3
    h1 = h1
    h2 = h2
    MaxGoals = 1
    Tasks = {t1}
    Bands = {"below_20k"}
    Plans <- OneToken
    Procs = {p1, p2}
    None = "none"
    NoTask = "no_task"
    ListedBand <- AllListed
    RenderedBands = {"below_20k"}
    Threads = {h1}
    RoleOf <- AllDifferent
    Requests = {"start", "confirm", "approve", "retry"}
    MayRestart = TRUE
PROPERTIES
    ReachedStopsRunner
CHECK_DEADLOCK FALSE
