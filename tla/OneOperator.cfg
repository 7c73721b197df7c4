\* One request at a time, two goals, one application.
SPECIFICATION Spec
CONSTANTS
    t1 = t1
    t2 = t2
    p1 = p1
    p2 = p2
    p3 = p3
    h1 = h1
    h2 = h2
    MaxGoals = 2
    Tasks = {t1}
    Bands = {"below_20k"}
    Plans <- OneToken
    Procs = {p1, p2, p3}
    None = "none"
    NoTask = "no_task"
    ListedBand <- AllListed
    RenderedBands = {"below_20k"}
    Threads = {h1}
    RoleOf <- AllDifferent
    Requests = {"start", "resume", "cancel", "confirm", "release"}
    MayRestart = FALSE
SYMMETRY ProcSymmetry
INVARIANTS
    TypeOK
    
PROPERTIES
    CancelledIsQuiet
    
CHECK_DEADLOCK FALSE
