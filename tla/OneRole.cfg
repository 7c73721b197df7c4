\* Two workers and a recorder race for one role over five days.
SPECIFICATION Spec
CONSTANTS
    w1 = w1
    w2 = w2
    r1 = r1
    MaxApps = 2
    MaxPostings = 1
    Titles = {"dev"}
    Jobs = {}
    NoJob = "no_job"
    NoTitle = "no_title"
    Variants = {}
    Window = 3
    Workers <- TwoWorkers
    Recorders = {r1}
    Horizon = 5
    MaxStall = 1
    MaxReportLag = 1
SYMMETRY WorkerSymmetry
INVARIANTS
    TypeOK
    ClicksAreSpaced
    ClickNeverForgotten
CHECK_DEADLOCK FALSE
