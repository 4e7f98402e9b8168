SPECIFICATION FairSpec
CONSTANTS
    Jobs = {j1}
    Workers = {w1, w2}
    NoWorker = NoWorker
    Statuses = {"matched", "timeout"}
    Supervisors = {s1}
    ExclusiveSupervisor = TRUE
    ProbeMayFail = FALSE
    MaxCrashes = 1
    WaitedJobs = {j1}
    Deadlines = {TRUE, FALSE}
PROPERTY PendingIsTaken
PROPERTY LostJobIsRecovered
PROPERTY EndedJobStopsWatching
PROPERTY OverdueWaitReturns
