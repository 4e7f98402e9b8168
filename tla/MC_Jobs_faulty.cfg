SYMMETRY SupSymmetry
SPECIFICATION Spec
CONSTANTS
    Jobs = {j1}
    Workers = {w1, w2}
    NoWorker = NoWorker
    Statuses = {"timeout"}
    Supervisors = {s1, s2}
    ExclusiveSupervisor = FALSE
    ProbeMayFail = TRUE
    MaxCrashes = 0
    WaitedJobs = {j1}
    Deadlines = {TRUE}
INVARIANT TypeOK
INVARIANT RowsConsistent
PROPERTY TerminalIsFinal
PROPERTY JobsKeepPromise
