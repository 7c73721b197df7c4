\* A manual confirmation recorded while a worker is at its final gate.
SPECIFICATION Spec
CONSTANTS
    w1 = w1
    w2 = w2
    r1 = r1
    MaxApps = 2
    MaxPostings = 1
    Titles = {"dev"}
    Jobs = {}
    NoJob = "no_job"
    NoTitle = "no_title"
    Variants = {}
    Window = 2
    Workers = {w1}
    Recorders = {r1}
    Horizon = 1
    MaxStall = 1
    MaxReportLag = 0
PROPERTIES
    ConfirmedMatchIsSkipped
CHECK_DEADLOCK FALSE
