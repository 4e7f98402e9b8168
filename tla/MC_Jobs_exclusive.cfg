SPECIFICATION Spec
CONSTANTS
    Jobs = {j1, j2}
    Workers = {w1, w2}
    NoWorker = NoWorker
    Statuses = {"matched"}
    Supervisors = {s1}
    ExclusiveSupervisor = TRUE
    ProbeMayFail = FALSE
    MaxCrashes = 1
    WaitedJobs = {}
    Deadlines = {FALSE}
SYMMETRY Symmetry
INVARIANT OwnershipInv
PROPERTY OnlyOrphansRequeued
PROPERTY ResultIsTheOwners
