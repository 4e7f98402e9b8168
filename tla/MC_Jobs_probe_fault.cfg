SPECIFICATION Spec
CONSTANTS
    Jobs = {j1}
    Workers = {w1, w2}
    NoWorker = NoWorker
    Statuses = {"matched"}
    Supervisors = {s1}
    ExclusiveSupervisor = TRUE
    ProbeMayFail = TRUE
    MaxCrashes = 0
    WaitedJobs = {}
    Deadlines = {FALSE}
PROPERTY OnlyOrphansRequeued
