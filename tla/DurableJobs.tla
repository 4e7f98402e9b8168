---------------------------- MODULE DurableJobs ----------------------------
(***************************************************************************)
(* Durable jobs end to end: command-line clients (submit, wait, cancel),   *)
(* supervisors (jobs/daemon.py), one isolated worker process per attempt   *)
(* (jobs/worker.py) with its child watcher process, and the table they     *)
(* share (JobStore).  All of them are separate operating-system processes: *)
(* their steps interleave freely between any two transactions, and each of *)
(* them may be killed at any point.                                        *)
(*                                                                         *)
(* A worker process is identified by its pid and start fingerprint, which  *)
(* no two processes share; a member of Workers is therefore reused for a   *)
(* new process only once nothing refers to the old one (Fresh).            *)
(***************************************************************************)
EXTENDS JobStore, Naturals

CONSTANTS
    Supervisors,          \* supervisor processes that may be started
    ExclusiveSupervisor,  \* TRUE: the pid file admits one supervisor at a time
    ProbeMayFail,         \* TRUE: `ps` may time out, so a live process looks dead
    MaxCrashes,           \* bound: processes killed, and reboots, in a behaviour
    WaitedJobs,           \* bound: the jobs that clients wait for
    Deadlines             \* bound: FALSE in it: jobs without a deadline; TRUE: with

NoJob == "no_job"           \* workerJob of a slot without a process

ASSUME JobsAssumption ==
    /\ NoJob \notin Jobs
    /\ ExclusiveSupervisor \in BOOLEAN
    /\ ProbeMayFail \in BOOLEAN
    /\ MaxCrashes \in Nat
    /\ WaitedJobs \subseteq Jobs
    /\ Deadlines \subseteq BOOLEAN

VARIABLES
    supPc,      \* where each supervisor is in run_daemon's loop
    stopping,   \* its `stopping` flag, set by SIGTERM or SIGINT
    scan,       \* (job, worker) pairs read as running and not yet probed
    orphan,     \* the pair found dead, whose UPDATE has not run yet
    toSpawn,    \* job ids read as pending, whose worker is not yet spawned
    workerPc,   \* where each worker process is in run_job; "none": no process
    workerJob,  \* the job id on its command line
    watcher,    \* its child: "none", "running", or what it printed and exited
    submit,     \* where the client that created each job is
    waiting,    \* jobs that some client is waiting for in `jobs wait`
    told,       \* the outcomes those clients have printed, per job
    overdue,    \* jobs whose deadline the clock has passed
    crashes     \* how many kills and reboots so far

supVars    == <<supPc, stopping, scan, orphan, toSpawn>>
workerVars == <<workerPc, workerJob, watcher>>
clientVars == <<submit, waiting, told>>
envVars    == <<overdue, crashes>>
vars == <<rows, supVars, workerVars, clientVars, envVars>>

Garbled == "garbled"        \* output that is not one JSON object with a status
Owning == {"claimed", "watching", "stopping", "collected"}

Alive(w)  == workerPc[w] # "none"
Up(s)     == supPc[s] # "down"
SomeoneUp == \E s \in Supervisors : Up(s)

\* process_identity(worker_pid) == worker_identity, as the caller sees it.
SeenAlive(w) == Alive(w)

\* Mutant: a worker is judged by whether its child runs.
MutNoChildIsDead(w) == ~Alive(w) \/ watcher[w] = "none"

MaySeeDead(w) == ~Alive(w) \/ ProbeMayFail

\* No process, no orphaned child, and no reference left to the old identity.
Fresh(w) ==
    /\ ~Alive(w)
    /\ watcher[w] = "none"
    /\ \A j \in Jobs : rows[j].worker # w
    /\ \A s \in Supervisors : \A p \in scan[s] \cup orphan[s] : p[2] # w

\* The columns a waiting client prints, and its exit code comes from.
Outcome(j) == [state |-> rows[j].state, result |-> rows[j].result,
               error |-> rows[j].error, exit |-> rows[j].exit]

-----------------------------------------------------------------------------
(***************************************************************************)
(* Command-line clients.                                                   *)
(***************************************************************************)

\* submit_durable_job up to store.create; with autostart disabled it is done.
SubmitCreate(j) ==
    /\ submit[j] = "none"
    /\ \E d \in Deadlines : Create(j, d)
    /\ \E next \in {"ensuring", "done"} : submit' = [submit EXCEPT ![j] = next]
    /\ UNCHANGED <<supVars, workerVars, waiting, told, envVars>>

\* ensure_daemon sees a running supervisor before its poll deadline ...
SubmitEnsured(j) ==
    /\ submit[j] = "ensuring"
    /\ SomeoneUp
    /\ submit' = [submit EXCEPT ![j] = "done"]
    /\ UNCHANGED <<rows, supVars, workerVars, waiting, told, envVars>>

\* ... or its last look at the pid file finds none (or its ps fails) ...
SubmitGivesUp(j) ==
    /\ submit[j] = "ensuring"
    /\ ~SomeoneUp \/ ProbeMayFail
    /\ submit' = [submit EXCEPT ![j] = "failing"]
    /\ UNCHANGED <<rows, supVars, workerVars, waiting, told, envVars>>

\* ... and the job is failed, whatever a late supervisor has done meanwhile.
SubmitFails(j) ==
    /\ submit[j] = "failing"
    /\ Fail(j)
    /\ submit' = [submit EXCEPT ![j] = "done"]
    /\ UNCHANGED <<supVars, workerVars, waiting, told, envVars>>

\* `jobs wait`: an unfinished job needs a supervisor, checked once.
WaitStart(j) ==
    /\ j \in WaitedJobs
    /\ rows[j].state # "absent"
    /\ IsTerminal(j) \/ SomeoneUp
    /\ j \notin waiting
    /\ waiting' = waiting \cup {j}
    /\ UNCHANGED <<rows, supVars, workerVars, submit, told, envVars>>

\* The poll that finds the job terminal prints its event and exits.
WaitReport(j) ==
    /\ j \in waiting
    /\ IsTerminal(j)
    /\ waiting' = waiting \ {j}
    /\ told' = [told EXCEPT ![j] = @ \cup {Outcome(j)}]
    /\ UNCHANGED <<rows, supVars, workerVars, submit, envVars>>

\* `jobs cancel` of a job that is not terminal.
ClientCancel(j) ==
    /\ Cancel(j)
    /\ UNCHANGED <<supVars, workerVars, clientVars, envVars>>

-----------------------------------------------------------------------------
(***************************************************************************)
(* The supervisor: run_daemon.                                             *)
(***************************************************************************)

\* A supervisor process whose _claim_daemon_pid succeeded (see SupervisorPid).
SupervisorStart(s) ==
    /\ ~Up(s)
    /\ ExclusiveSupervisor => ~SomeoneUp
    /\ supPc' = [supPc EXCEPT ![s] = "top"]
    /\ stopping' = [stopping EXCEPT ![s] = FALSE]
    /\ UNCHANGED <<rows, scan, orphan, toSpawn, workerVars, clientVars, envVars>>

\* request_stop: SIGTERM from `daemon stop`, or SIGINT.
SupervisorStop(s) ==
    /\ Up(s)
    /\ stopping' = [stopping EXCEPT ![s] = TRUE]
    /\ UNCHANGED <<rows, supPc, scan, orphan, toSpawn, workerVars, clientVars, envVars>>

\* while not stopping: the flag is read here only; leaving releases the pid file.
SupervisorExit(s) ==
    /\ supPc[s] = "top"
    /\ stopping[s]
    /\ supPc' = [supPc EXCEPT ![s] = "down"]
    /\ UNCHANGED <<rows, stopping, scan, orphan, toSpawn, workerVars, clientVars, envVars>>

\* requeue_orphans, first transaction: the list of running jobs.
SupervisorScan(s) ==
    /\ supPc[s] = "top"
    /\ ~stopping[s]
    /\ scan' = [scan EXCEPT ![s] =
                  {<<j, rows[j].worker>> : j \in {i \in Jobs : rows[i].state = "running"}}]
    /\ supPc' = [supPc EXCEPT ![s] = "requeue"]
    /\ UNCHANGED <<rows, stopping, orphan, toSpawn, workerVars, clientVars, envVars>>

\* process_identity of the next job's worker: still the recorded process.
SupervisorSeesAlive(s) ==
    /\ supPc[s] = "requeue"
    /\ orphan[s] = {}
    /\ \E p \in scan[s] :
          /\ SeenAlive(p[2])
          /\ scan' = [scan EXCEPT ![s] = @ \ {p}]
    /\ UNCHANGED <<rows, supPc, stopping, orphan, toSpawn, workerVars, clientVars, envVars>>

\* Mutant: an orphaned child that still runs counts as a live worker.
MutChildKeepsJob(s) ==
    /\ supPc[s] = "requeue"
    /\ orphan[s] = {}
    /\ \E p \in scan[s] :
          /\ MaySeeDead(p[2])
          /\ scan' = [scan EXCEPT ![s] = @ \ {p}]
          /\ orphan' = [orphan EXCEPT ![s] = IF watcher[p[2]] = "running" THEN {} ELSE {p}]
    /\ UNCHANGED <<rows, supPc, stopping, toSpawn, workerVars, clientVars, envVars>>

\* ... or not: its UPDATE comes next, in a transaction of its own.
SupervisorSeesDead(s) ==
    /\ supPc[s] = "requeue"
    /\ orphan[s] = {}
    /\ \E p \in scan[s] :
          /\ MaySeeDead(p[2])
          /\ scan' = [scan EXCEPT ![s] = @ \ {p}]
          /\ orphan' = [orphan EXCEPT ![s] = {p}]
    /\ UNCHANGED <<rows, supPc, stopping, toSpawn, workerVars, clientVars, envVars>>

SupervisorRequeues(s) ==
    /\ supPc[s] = "requeue"
    /\ \E p \in orphan[s] : Requeue(p[1])
    /\ orphan' = [orphan EXCEPT ![s] = {}]
    /\ UNCHANGED <<supPc, stopping, scan, toSpawn, workerVars, clientVars, envVars>>

\* Mutant: only jobs that never started are listed.
MutListFresh(s) ==
    /\ supPc[s] = "requeue"
    /\ orphan[s] = {}
    /\ scan[s] = {}
    /\ toSpawn' = [toSpawn EXCEPT ![s] =
                     {j \in Jobs : rows[j].state = "pending" /\ ~rows[j].started}]
    /\ supPc' = [supPc EXCEPT ![s] = "spawn"]
    /\ UNCHANGED <<rows, stopping, scan, orphan, workerVars, clientVars, envVars>>

\* list_jobs(states={PENDING}), once every running job has been looked at.
SupervisorListsPending(s) ==
    /\ supPc[s] = "requeue"
    /\ orphan[s] = {}
    /\ scan[s] = {}
    /\ toSpawn' = [toSpawn EXCEPT ![s] = {j \in Jobs : rows[j].state = "pending"}]
    /\ supPc' = [supPc EXCEPT ![s] = "spawn"]
    /\ UNCHANGED <<rows, stopping, scan, orphan, workerVars, clientVars, envVars>>

\* _spawn_worker: the job may have been claimed, or ended, since it was listed.
SupervisorSpawns(s) ==
    /\ supPc[s] = "spawn"
    /\ \E j \in toSpawn[s], w \in Workers :
          /\ Fresh(w)
          /\ workerPc' = [workerPc EXCEPT ![w] = "spawned"]
          /\ workerJob' = [workerJob EXCEPT ![w] = j]
          /\ toSpawn' = [toSpawn EXCEPT ![s] = @ \ {j}]
    /\ UNCHANGED <<rows, supPc, stopping, scan, orphan, watcher, clientVars, envVars>>

\* Bound: with every member of Workers in use, the job waits for the next scan.
SupervisorSkips(s) ==
    /\ supPc[s] = "spawn"
    /\ ~ \E w \in Workers : Fresh(w)
    /\ \E j \in toSpawn[s] : toSpawn' = [toSpawn EXCEPT ![s] = @ \ {j}]
    /\ UNCHANGED <<rows, supPc, stopping, scan, orphan, workerVars, clientVars, envVars>>

\* time.sleep and back to the top of the loop.
SupervisorSleeps(s) ==
    /\ supPc[s] = "spawn"
    /\ toSpawn[s] = {}
    /\ supPc' = [supPc EXCEPT ![s] = "top"]
    /\ UNCHANGED <<rows, stopping, scan, orphan, toSpawn, workerVars, clientVars, envVars>>

SupervisorStep(s) ==
    \/ SupervisorExit(s) \/ SupervisorScan(s)
    \/ SupervisorSeesAlive(s) \/ SupervisorSeesDead(s) \/ SupervisorRequeues(s)
    \/ SupervisorListsPending(s) \/ SupervisorSpawns(s) \/ SupervisorSkips(s)
    \/ SupervisorSleeps(s)

-----------------------------------------------------------------------------
(***************************************************************************)
(* The worker: run_job.                                                    *)
(***************************************************************************)
Exits(w) ==
    /\ workerPc' = [workerPc EXCEPT ![w] = "none"]
    /\ workerJob' = [workerJob EXCEPT ![w] = NoJob]
    /\ watcher' = [watcher EXCEPT ![w] = "none"]

\* Its own fingerprint cannot be read: it fails the job it was spawned for,
\* even when a sibling already runs it.
WorkerNoIdentity(w) ==
    /\ workerPc[w] = "spawned"
    /\ ProbeMayFail
    /\ Fail(workerJob[w])
    /\ Exits(w)
    /\ UNCHANGED <<supVars, clientVars, envVars>>

\* Mutant: the value returned by claim is ignored.
MutIgnoreClaim(w) ==
    /\ workerPc[w] = "spawned"
    /\ \/ Claim(workerJob[w], w)
       \/ rows[workerJob[w]].state = "running" /\ UNCHANGED rows
    /\ workerPc' = [workerPc EXCEPT ![w] = "claimed"]
    /\ UNCHANGED <<workerJob, watcher, supVars, clientVars, envVars>>

WorkerClaims(w) ==
    /\ workerPc[w] = "spawned"
    /\ Claim(workerJob[w], w)
    /\ workerPc' = [workerPc EXCEPT ![w] = "claimed"]
    /\ UNCHANGED <<workerJob, watcher, supVars, clientVars, envVars>>

\* Somebody else has the job, or it has ended: exit 0 without a trace.
WorkerLosesClaim(w) ==
    /\ workerPc[w] = "spawned"
    /\ rows[workerJob[w]].state # "pending"
    /\ Exits(w)
    /\ UNCHANGED <<rows, supVars, clientVars, envVars>>

\* Mutant: an overdue job's worker just exits.
MutExpireForgotten(w) ==
    /\ workerPc[w] = "claimed"
    /\ workerJob[w] \in overdue
    /\ Exits(w)
    /\ UNCHANGED <<rows, supVars, clientVars, envVars>>

\* argv_with_remaining_runtime raises JobDeadlineExpiredError.
WorkerExpires(w) ==
    /\ workerPc[w] = "claimed"
    /\ workerJob[w] \in overdue
    /\ Expire(workerJob[w])
    /\ Exits(w)
    /\ UNCHANGED <<supVars, clientVars, envVars>>

\* The stored argv is malformed, or the child cannot be started (OSError).
WorkerCannotLaunch(w) ==
    /\ workerPc[w] = "claimed"
    /\ Fail(workerJob[w])
    /\ Exits(w)
    /\ UNCHANGED <<supVars, clientVars, envVars>>

WorkerLaunches(w) ==
    /\ workerPc[w] = "claimed"
    /\ workerJob[w] \notin overdue
    /\ workerPc' = [workerPc EXCEPT ![w] = "watching"]
    /\ watcher' = [watcher EXCEPT ![w] = "running"]
    /\ UNCHANGED <<rows, workerJob, supVars, clientVars, envVars>>

\* Mutant: the poll looks for expiry only.
MutSeesExpiryOnly(w) ==
    /\ workerPc[w] = "watching"
    /\ rows[workerJob[w]].state = "expired"
    /\ workerPc' = [workerPc EXCEPT ![w] = "stopping"]
    /\ UNCHANGED <<rows, workerJob, watcher, supVars, clientVars, envVars>>

\* The 0.2 s poll: it compares the state only, not the recorded worker.  The
\* child was alive when the poll began and may have exited since.
WorkerSeesEnded(w) ==
    /\ workerPc[w] = "watching"
    /\ rows[workerJob[w]].state # "running"
    /\ workerPc' = [workerPc EXCEPT ![w] = "stopping"]
    /\ UNCHANGED <<rows, workerJob, watcher, supVars, clientVars, envVars>>

\* _terminate: SIGTERM, a grace period, SIGKILL; whatever it printed is dropped.
WorkerTerminates(w) ==
    /\ workerPc[w] = "stopping"
    /\ Exits(w)
    /\ UNCHANGED <<rows, supVars, clientVars, envVars>>

\* process.poll() is not None: the loop ends and the output is read.
WorkerCollects(w) ==
    /\ workerPc[w] = "watching"
    /\ watcher[w] # "running"
    /\ workerPc' = [workerPc EXCEPT ![w] = "collected"]
    /\ UNCHANGED <<rows, workerJob, watcher, supVars, clientVars, envVars>>

\* The payload is stored, or the job is failed if there is none to store.
WorkerRecords(w) ==
    /\ workerPc[w] = "collected"
    /\ IF watcher[w] \in Statuses
       THEN Complete(workerJob[w], watcher[w])
       ELSE Fail(workerJob[w])
    /\ Exits(w)
    /\ UNCHANGED <<supVars, clientVars, envVars>>

WorkerStep(w) ==
    \/ WorkerNoIdentity(w) \/ WorkerClaims(w) \/ WorkerLosesClaim(w)
    \/ WorkerExpires(w) \/ WorkerCannotLaunch(w) \/ WorkerLaunches(w)
    \/ WorkerSeesEnded(w) \/ WorkerTerminates(w)
    \/ WorkerCollects(w) \/ WorkerRecords(w)

\* The child exits by itself: it matched, timed out (only with a deadline),
\* failed, or died without printing.  An orphaned child prints to nobody.
WatcherExits(w) ==
    /\ watcher[w] = "running"
    /\ \E out \in Statuses \cup {Garbled} :
          /\ out = "timeout" /\ Alive(w) => rows[workerJob[w]].deadline
          /\ watcher' = [watcher EXCEPT ![w] = IF Alive(w) THEN out ELSE "none"]
    /\ UNCHANGED <<rows, workerPc, workerJob, supVars, clientVars, envVars>>

-----------------------------------------------------------------------------
(***************************************************************************)
(* The environment: time and kills.                                        *)
(***************************************************************************)
DeadlinePasses(j) ==
    /\ rows[j].deadline
    /\ overdue' = overdue \cup {j}
    /\ UNCHANGED <<rows, supVars, workerVars, clientVars, crashes>>

\* SIGKILL, or an unhandled exception such as a locked database: a running
\* child survives its worker, a finished one takes its output with it.
WorkerDies(w) ==
    /\ crashes < MaxCrashes
    /\ Alive(w)
    /\ workerPc' = [workerPc EXCEPT ![w] = "none"]
    /\ workerJob' = [workerJob EXCEPT ![w] = NoJob]
    /\ watcher' = [watcher EXCEPT ![w] = IF @ = "running" THEN @ ELSE "none"]
    /\ crashes' = crashes + 1
    /\ UNCHANGED <<rows, supVars, clientVars, overdue>>

SupervisorDies(s) ==
    /\ crashes < MaxCrashes
    /\ Up(s)
    /\ supPc' = [supPc EXCEPT ![s] = "down"]
    /\ scan' = [scan EXCEPT ![s] = {}]
    /\ orphan' = [orphan EXCEPT ![s] = {}]
    /\ toSpawn' = [toSpawn EXCEPT ![s] = {}]
    /\ crashes' = crashes + 1
    /\ UNCHANGED <<rows, stopping, workerVars, clientVars, overdue>>

\* Every process is gone; the table survives.
Reboot ==
    /\ crashes < MaxCrashes
    /\ supPc' = [s \in Supervisors |-> "down"]
    /\ scan' = [s \in Supervisors |-> {}]
    /\ orphan' = [s \in Supervisors |-> {}]
    /\ toSpawn' = [s \in Supervisors |-> {}]
    /\ workerPc' = [w \in Workers |-> "none"]
    /\ workerJob' = [w \in Workers |-> NoJob]
    /\ watcher' = [w \in Workers |-> "none"]
    /\ waiting' = {}
    /\ crashes' = crashes + 1
    /\ submit' = [j \in Jobs |-> IF submit[j] = "none" THEN "none" ELSE "done"]
    /\ UNCHANGED <<rows, stopping, told, overdue>>

-----------------------------------------------------------------------------
Init ==
    /\ StoreInit
    /\ supPc = [s \in Supervisors |-> "down"]
    /\ stopping = [s \in Supervisors |-> FALSE]
    /\ scan = [s \in Supervisors |-> {}]
    /\ orphan = [s \in Supervisors |-> {}]
    /\ toSpawn = [s \in Supervisors |-> {}]
    /\ workerPc = [w \in Workers |-> "none"]
    /\ workerJob = [w \in Workers |-> NoJob]
    /\ watcher = [w \in Workers |-> "none"]
    /\ submit = [j \in Jobs |-> "none"]
    /\ waiting = {}
    /\ told = [j \in Jobs |-> {}]
    /\ overdue = {}
    /\ crashes = 0

ClientStep(j) ==
    \/ SubmitCreate(j) \/ SubmitEnsured(j) \/ SubmitGivesUp(j) \/ SubmitFails(j)
    \/ WaitStart(j) \/ WaitReport(j) \/ ClientCancel(j)

Next ==
    \/ \E j \in Jobs : ClientStep(j) \/ DeadlinePasses(j)
    \/ \E s \in Supervisors :
          SupervisorStart(s) \/ SupervisorStop(s) \/ SupervisorStep(s) \/ SupervisorDies(s)
    \/ \E w \in Workers : WorkerStep(w) \/ WatcherExits(w) \/ WorkerDies(w)
    \/ Reboot

Spec == Init /\ [][Next]_vars

\* Processes that exist keep running: the supervisor's loop, a worker's run_job
\* and the poll of `jobs wait` are never blocked for ever.  Nothing makes a
\* user submit, stop or cancel, a supervisor start, a deadline pass, a process
\* die, or a watcher see its condition; but a watcher whose deadline has passed
\* exits, because the worker starts it with the remaining --max-runtime.
Fairness ==
    /\ \A s \in Supervisors : WF_vars(SupervisorStep(s))
    /\ \A w \in Workers : WF_vars(WorkerStep(w))
    /\ \A w \in Workers : WF_vars(workerJob[w] \in overdue /\ WatcherExits(w))
    /\ \A j \in Jobs : WF_vars(WaitReport(j))

FairSpec == Spec /\ Fairness

-----------------------------------------------------------------------------
(***************************************************************************)
(* Safety.                                                                 *)
(***************************************************************************)
ProcessTypeOK ==
    /\ supPc \in [Supervisors -> {"down", "top", "requeue", "spawn"}]
    /\ stopping \in [Supervisors -> BOOLEAN]
    /\ scan \in [Supervisors -> SUBSET (Jobs \X Workers)]
    /\ orphan \in [Supervisors -> SUBSET (Jobs \X Workers)]
    /\ toSpawn \in [Supervisors -> SUBSET Jobs]
    /\ workerPc \in [Workers -> {"none", "spawned"} \cup Owning]
    /\ workerJob \in [Workers -> Jobs \cup {NoJob}]
    /\ \A w \in Workers : Alive(w) <=> workerJob[w] \in Jobs
    /\ watcher \in [Workers -> {"none", "running", Garbled} \cup Statuses]
    /\ submit \in [Jobs -> {"none", "ensuring", "failing", "done"}]
    /\ waiting \subseteq Jobs
    /\ DOMAIN told = Jobs
    /\ overdue \subseteq Jobs
    /\ crashes \in Nat

TypeOK == StoreTypeOK /\ ProcessTypeOK

\* At most one live worker is past its claim for a job, although the supervisor
\* spawns a new worker at every scan that still sees the job pending, and
\* requeues jobs from a list it read earlier.  This is what keeps two watchers
\* from spending the same budget and reporting twice.
AtMostOneOwner ==
    \A w1, w2 \in Workers :
        /\ workerPc[w1] \in Owning
        /\ workerPc[w2] \in Owning
        /\ workerJob[w1] = workerJob[w2]
        => w1 = w2

\* A worker past its claim is the one its row records, until the row is
\* finished: so complete(), which compares only the state, can only ever store
\* the result of the owner.
OwnerIsRecorded ==
    \A w \in Workers :
        workerPc[w] \in Owning =>
            \/ rows[workerJob[w]].worker = w
            \/ IsTerminal(workerJob[w])

\* What a supervisor read about a running job stays true until it acts on it:
\* the pair it is about to probe or requeue still is the row's, unless the job
\* has finished, and the worker it found dead has not come back.
ScanIsCurrent ==
    \A s \in Supervisors :
        /\ \A p \in scan[s] \cup orphan[s] :
              rows[p[1]].worker = p[2] \/ IsTerminal(p[1])
        /\ \A p \in orphan[s] : ~Alive(p[2])
        /\ scan[s] \cap orphan[s] = {}

\* One supervisor at a time, and only the one that requeues holds such pairs.
OneSupervisor ==
    /\ \A s, t \in Supervisors : Up(s) /\ Up(t) => s = t
    /\ \A s \in Supervisors :
          supPc[s] # "requeue" => scan[s] = {} /\ orphan[s] = {}

\* The inductive invariant behind AtMostOneOwner: a worker can only be replaced
\* once it is dead, because the one supervisor's list is never out of date.
OwnershipInv ==
    AtMostOneOwner /\ OwnerIsRecorded /\ ScanIsCurrent /\ OneSupervisor

\* requeue_orphans: "Requeue running jobs whose isolated worker no longer
\* exists" (store.py:262).
OnlyOrphansRequeued ==
    [][\A j \in Jobs :
          rows[j].state = "running" /\ rows'[j].state = "pending"
          => ~Alive(rows[j].worker)]_vars

\* A result stored in a row was printed by the watcher of the row's owner: no
\* superseded worker ends the attempt of the one that replaced it.
ResultIsTheOwners ==
    [][\A j \in Jobs :
          rows[j].result = NoResult /\ rows'[j].result # NoResult
          => /\ rows[j].worker \in Workers
             /\ workerJob[rows[j].worker] = j
             /\ watcher[rows[j].worker] = rows'[j].result]_vars

(***************************************************************************)
(* Each job implements what AbstractJob promises.                          *)
(***************************************************************************)
PhaseOf(state) ==
    IF state = "absent" THEN "unsubmitted"
    ELSE IF state = "pending" THEN "queued"
    ELSE IF state = "running" THEN "running"
    ELSE "done"

OutcomesWith(results) ==
    [state : TerminalStates, result : results,
     error : {"none", "failed", "deadline", "requeued"},
     exit : {"none", "of_watcher", "1", "4"}]

Job(j) == INSTANCE AbstractJob WITH
    Outcomes <- OutcomesWith(Statuses \cup {NoResult}),
    WatcherOutcomes <- OutcomesWith(Statuses),
    Undecided <- "undecided",
    phase <- PhaseOf(rows[j].state),
    outcome <- IF IsTerminal(j) THEN Outcome(j) ELSE "undecided",
    told <- told[j]

\* Every job keeps the promise: it is decided once, by a watcher's payload only
\* while it runs, and every `jobs wait` prints that one outcome.
\* (\A j \in Jobs : Job(j)!Spec, in the form TLC evaluates.)
JobsKeepPromise ==
    /\ \A j \in Jobs : Job(j)!Init
    /\ [][\A j \in Jobs : [Job(j)!Next]_(Job(j)!vars)]_vars

-----------------------------------------------------------------------------
(***************************************************************************)
(* Liveness, as long as a supervisor eventually stays up.                  *)
(***************************************************************************)

\* No pending job is forgotten: some worker claims it, or it ends.
PendingIsTaken ==
    <>[]SomeoneUp =>
        \A j \in Jobs : rows[j].state = "pending" ~> rows[j].state # "pending"

\* A job whose worker died is noticed: it does not stay running for ever.
LostJobIsRecovered ==
    <>[]SomeoneUp =>
        \A j \in Jobs :
            (rows[j].state = "running" /\ ~Alive(rows[j].worker))
                ~> ~(rows[j].state = "running" /\ ~Alive(rows[j].worker))

\* Once a job is cancelled (or otherwise finished) the workers that carry it
\* find out and take their watchers down.
EndedJobStopsWatching ==
    \A j \in Jobs, w \in Workers :
        (IsTerminal(j) /\ workerJob[w] = j) ~> (workerJob[w] # j)

\* A client that waits for a job whose deadline has passed is answered, across
\* supervisor and worker deaths.
OverdueWaitReturns ==
    <>[]SomeoneUp =>
        \A j \in Jobs : (j \in waiting /\ j \in overdue) ~> (j \notin waiting)
=============================================================================
