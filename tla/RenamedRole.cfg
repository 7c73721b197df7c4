\* One role whose posting is seen under two titles and with or without its id.
SPECIFICATION Spec
CONSTANTS
    w1 = w1
    w2 = w2
    r1 = r1
    MaxApps = 2
    MaxPostings = 2
    Titles = {"dev", "dev | remote"}
    Jobs = {"jk1"}
    NoJob = "no_job"
    NoTitle = "no_title"
    Variants <- TwoVariants
    Window = 1
    Workers = {w1}
    Recorders = {r1}
    Horizon = 0
    MaxStall = 0
    MaxReportLag = 0
INVARIANTS
    ClicksAreSpaced
CHECK_DEADLOCK FALSE
