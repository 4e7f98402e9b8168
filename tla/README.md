# Verification of chainwake

chainwake watches an observable of a blockchain for an agent and prints one
JSON payload when a condition matches, a deadline passes, a budget runs out or
something fails. This directory models the parts of it that are concurrent,
that survive crashes, or that must end in exactly one way: TLA+ modules, TLC
configurations that check them on small instances, and proofs that TLAPS checks
for every instance. `PROJECT.json` maps every definition to the lines of the
source that it models.

Run, in this directory:

    tlc -workers 2 -config MC_Jobs_faulty.cfg MC_DurableJobs
    tlapm DurableJobsProofs.tla

## The system

### Inventory

| part | source | state it keeps | operations | model |
|---|---|---|---|---|
| job table | `jobs/store.py`, `jobs/models.py` | one SQLite row per job: state, worker, result, error, exit code | create, claim, complete, fail, expire, cancel, requeue_orphans | `JobStore` |
| supervisor | `jobs/daemon.py` | stop flag, the lists it read | requeue orphans, spawn a worker per pending job, sleep | `DurableJobs` |
| worker | `jobs/worker.py` | its fingerprint, its child | claim, launch, poll, terminate, record | `DurableJobs` |
| job clients | `jobs/service.py`, `cli/jobs.py` | none of their own | submit, wait, cancel | `DurableJobs` |
| pid file | `jobs/daemon.py` | a file: name, inode, content | claim, release | `SupervisorPid` |
| watcher runtime | `core/runtime.py` | loop, last block, last epoch, shutdown event | six driver loops, fetch, evaluate, dispatch, end | `WatcherRuntime` |
| budget, retry | `core/budget.py`, `core/retry.py` | RU consumed and reserved; rate-limit hits | reserve, release, charge; retry, back off | `WatcherRuntime` |
| primitives | `core/primitives/` | last value, window of samples, anchor | evaluate | `Primitives`, run in `ConditionWatch`, `TxScan`, `EvmTx` |
| Bittensor reads | `providers/bittensor.py` | none between reads | pin a block, existence checks, value, marker, epoch | `BittensorReads`, `ConditionWatch` |
| Bittensor transaction watch | `providers/bittensor.py` | scan cursor per transaction | scan a range of bodies, refresh an inclusion | `TxScan` |
| Bittensor streams | `providers/bittensor.py` 1908-2520 | pinned blocks, heights, bounded queues, tasks | follow, notify, unpin, fetch events, fail, close | `HeadStream`, `EventStream`; as seen by the runner in `WatcherRuntime` |
| EVM provider | `providers/evm.py` | none between reads | four RPCs per transaction read | `EvmTx` |
| invocation | `cli/chains/dispatch.py`, `cli/chains/common.py` | adapters, a connection | connect, run or submit, map failures to payloads, close | `Invocation` |
| command lines | `cli/chains/`, `cli/inputs/` | none | select what is watched, refuse | `CommandLine` |
| MCP server | `mcp/` | a child process per call | validate, build a command line, run, time out, cancel, terminate | `McpTools`, `WatchRequests`, `McpCall` |
| registry, output | `core/registry.py`, `chains.py`, `output/` | none | costs and drivers, payloads and adapters | as constants and steps of `WatcherRuntime`, `Invocation`, `CommandLine` |
| market data, helpers, documents | `providers/market.py`, `providers/coingecko.py`, ... | none | translate, decode | not modelled |

### How the parts interact

An agent runs `chainwake watch ...`. In the foreground the command line builds a
`WatcherRunner` and awaits `run()`. The runner reads through a provider, which
it also subscribes to: the stream is an asyncio task that shares the runner's
event loop and its budget, and hands items over through a bounded queue. Each
value goes through a primitive, which says whether it matches, and a match goes
to the output adapters, in a thread.

The command line itself is either typed or built by the MCP server from a tool
call: the server validates the arguments, writes them as flags, starts a
`chainwake` process with them and returns the payload that the process prints.
So an agent's arguments are read twice, by two modules that share no code.

With `--durable` the command stores a row instead and makes sure that a
supervisor process runs. The supervisor polls the table and starts one worker
process per pending job; the worker claims its job, starts the real watcher as
a child, and stores the payload that it prints. `jobs wait` polls the row. None
of these processes talk to each other but through the table, the pid file and
signals.

### What is hard

* Between two transactions anything may happen: every client, supervisor and
  worker is a process that can be killed, and identity is judged by asking `ps`,
  which may time out.
* The supervisor acts on lists that it read earlier; a pending job gets one
  worker per scan, until one of them has claimed it.
* The pid file is created, written, read, compared and removed in separate
  system calls.
* In the runner there is one coroutine, but at each await the stream may charge
  the budget and queue items, the deadline may pass, a signal may come, the chain
  may reorganise; reads are retried, backed off, given up; loops are replaced by
  others when a capability is missing.
* A provider's answer is put together from several RPCs, and the chain moves
  between any two of them. A transaction scan even spreads over many calls of the
  runtime. A query may come back empty because the answer was lost, which reads
  like a value that does not exist.
* The stream's task, its consumer and the node's notifications interleave; a
  stream may be closed while its task waits for room in a queue, for an RPC, or
  for another stream to close.
* An MCP call has a child, a time-out and a client that may cancel it, each at any
  await.

### What makes each part correct

* Job table: a finished row never changes; the columns of a row agree.
* Durable jobs: a job is decided once; whoever waits is told that outcome; one
  live worker owns a job, and only its result is stored; pending, lost, cancelled
  and overdue jobs are dealt with.
* Pid file: one supervisor at a time, visible through the file; a file that a dead
  one left never keeps a new one from starting.
* Watcher runtime: the RU limit holds; one payload, which tells the truth, ends a
  run; deadline and signals end it; no reported block is lost, none is evaluated
  out of order.
* Primitives and reads: a read is the pinned block's value, an error, or zero for an
  answer that was lost, and a condition matches exactly when what was observed says
  so.
* Transaction watches: final means final, an inclusion fits the head that it is
  reported at, and no block of the horizon is passed over, as long as the chain does
  not leave a block and come back to it behind the reader's back.
* Streams: what the node announced, in its order, with its height; the end is
  told; pins do not leak; closing ends.
* Invocations and MCP calls: one payload and its exit code; an answer is the
  child's; no child is left; what was asked for is what is watched.

The full list of hazards, each at its line with the properties that cover it, is
`hazards` in `PROJECT.json`.

## Modules

### JobStore

The table and one action per method of `JobStore`. Every method is one SQLite
transaction with a conditional UPDATE, so each is one step; its `WHERE` clause is
the guard, and an UPDATE that hits no row is the step's other outcome. A row is a
record with the columns that decide something; texts and timestamps are left
out. `StoreNext` lets anybody call anything, which is what the first part of
`DurableJobsProofs` proves about.

### DurableJobs, AbstractJob

`DurableJobs` extends `JobStore` with the processes: `supPc` is the place of each
supervisor in `run_daemon`, `scan` and `orphan` are the rows it read in
`requeue_orphans` and has not yet dealt with, `toSpawn` the pending jobs it read;
`workerPc`, `workerJob` and `watcher` describe a worker and its child; `submit`,
`waiting` and `told` the clients. A worker is a (pid, start fingerprint) pair; a
slot is reused only when nothing refers to the old one (`Fresh`), as the
fingerprint is unique. `SupervisorDies`, `WorkerDies` and `Reboot` are crashes;
a child survives its worker.

`AbstractJob` is the promise to the submitting agent: queued and running in turn,
decided once, a watcher's result only while running, and every waiter is told
that one outcome. `Job(j)` in `DurableJobs` is the refinement mapping, and the
property `JobsKeepPromise` says that every job implements it.

### SupervisorPid

`_claim_daemon_pid` and `_release_daemon_pid`, one action per file-system call. A
file is an inode that `path` may name; its content is `Empty` from its creation
until it is written. Inodes are reused, since the code compares inode numbers.
A process may die anywhere. `DurableJobs` uses the result in the form of one
constant, `ExclusiveSupervisor`: TRUE where the pid file excludes, FALSE for what
still holds where it does not.

### WatcherRuntime

One run of `WatcherRunner`. `pc` is the coroutine's place, `loop` the driver loop
it is in (`head`, `storage`, `event`, `poll`, `epoch_head`, `epoch_poll`), `stage`
whether its first value is still to come, `what` and `at` the read in hand. The
loops share most of their actions, as they share `_fetch`, `_evaluate_and_dispatch`
and `_await_subscription_task`; where they differ, an action says so by `loop`.
`sub`, `queue` and `notified` are the stream; `head` and `reorgs` the chain. The
end is modelled up to what the caller adds: `printing` is the dispatch of the
terminal payload in a thread, `closing` is `_close_all`.

A block is a height and a fork, a value is the block it was read at. Whether it
matches is a free choice, so that every primitive is covered. Delays have no
length: a back-off may end at any time. The number of rate-limit hits that are
tolerated is a constant, 8 in the code and 1 or 2 in the runs. An event is the
block that carried it. A reorganisation goes to a new fork or back to an earlier
one. `evaluate()` itself may raise (`EvaluateRaises`): a subscription loop then ends
with the payload `internal_error`, a polling loop lets the exception pass and the run
ends without one of its own (`Raises`), as it does for a `user_error` of a read or of
the stream.

### Primitives, BittensorReads, ConditionWatch

`Primitives` has each primitive of `core/primitives/` as an operator from a memory
and an observation to a memory and an answer (`match`, `no_match`, `needs_data`,
`raises`); percentages are compared without dividing. `BittensorReads` is one
call of `read_observable`, one action per RPC: pin a block, read its time, check
that subnet and neuron exist, read the value, look up the block that an activity
marker names, read the epoch. `Drops` says which queries may come back without their
answer, empty or, for the subnet's, with a default in its place; the canary that
tells the two apart, the reconfirmation of an absent subnet and its bound are steps of
the model. Where the code goes on without an answer (a missing uid is "not
registered", a missing value or epoch is zero), the history `madeUp` says which part of
the read that is, so that `ReadIsTrue` can say what every other part is.
`ConditionWatch` feeds the reads to a primitive. Its reference definitions
(`Baseline`, `Silence`, `Activity`) speak only of `seen`, the history of observations,
not of the memory that the code keeps. The
baseline of a rolling window, for one, is the earliest observation that has been
inside the window ever since it was made, whatever the code has pruned.

A block is identified with the chain that ends in it, as its hash commits to its
ancestors. What a block holds is a record with the few contents that a condition
tells apart. A block takes one tick or, if it is `slow`, two, so that a window of
time is not one of blocks in disguise.

### ForkingChain, TxScan, EvmTx

`ForkingChain` is external: a best chain that grows, is finalized from below, and is
replaced by any other chain above the finalized block, longer or shorter, new or
left before. A block is the chain that ends in it; a label tells siblings apart.
The history `left` holds the blocks with the transaction that left the best chain
since the reader last began anew: two properties speak of blocks that did not, since
the code does not notice that a chain was away and came back (see the smaller
observations). `TxScan` is a watch of a Bittensor transaction: `cursor` is the
provider's `_TxScanState`, `call` the call of `get_block_finality` in progress, one
action per RPC; a call scans a bounded range and the next one resumes. `EvmTx` is a
watch of an EVM transaction: receipt, canonical block, head and finalized block by
separate RPCs; `steady` is the history that the inclusion stayed on the best chain
from the receipt to the head.

### HeadStream, EventStream

`HeadStream` is `_HeadSubscription`: `node` and `wire` are the external node and
its notifications under way, `follow` the handler's bookkeeping (heights, pins, a
batch to unpin) and what it waits for, `heads` the stream's task, queue and close.
Both the chainHead protocol and the legacy subscription are in it. `EventStream`
is `_EventSubscription` on top: it consumes heads and fetches the events of each;
`kind` says which of the two the runtime consumes, and `got` is what it received.
`InOrder` relates `got` to `node.sent`, the heads in the order in which the node
announced them: the n-th item received is the n-th head (`Rank`) that the consumer
wants (`Wanted`), so that nothing is left out, doubled or swapped before the end.

### Invocation, McpCall

`Invocation` is one command from its parsed options to its exit: look up, submit
or run, the ladder of except clauses, the `finally` blocks. The watcher and the
job store are steps here. `McpCall` composes it with the server: `run_tool` with its
time-out, the client's cancellations and the shielded task that terminates, waits
and kills; `child` is the process, which may ignore SIGTERM, and whose inside is
the invocation.

### CommandLine, McpTools, RequestInputs, WatchRequests

`CommandLine` says which options every command takes, which exclude, need or
default one another, and the watch that results (`Dispatched`). It defines `:>` and
`@@` itself, since the provers know nothing of those of module `TLC`. `McpTools` has
the input models of the tools and `_build_argv`. `WatchRequests` runs a tool call or
a typed line through them (`RequestNext`): refuse, build, parse, start. `Calls` and
`Lines` are parameters, and `RequestAssumption` asks little of them: a call names a
tool, with any arguments; a line names a command, with any options and with ids as
the parser has bound them; and "not given" (`NoValue`) is no number and none of the
words that the models and commands compare with. `RequestInputs` holds the calls and
lines that the run goes through: a good value and the values at and beyond each
border for each field, one or two at a time.

### MC modules

`MC_DurableJobs` and `MC_SupervisorPid` define the symmetry sets (jobs, workers,
supervisors, processes, inodes: values that are only ever compared for equality).
`MC_WatcherRuntime` only extends the module. `MC_Processes` extends `SupervisorPid`,
`McpCall` and `WatchRequests`, and takes its calls and lines from `RequestInputs`. `MC_Provider` and `MC_Processes` hold
several instances side by side: an initial state picks a scene, the scene's module
takes the steps, and the variables of the others stay where they are. `Watches` in
`MC_Provider` lists the conditions and, for each, the contents of blocks that can
make a difference to it. Symmetry is used in safety runs only.

## Runs

| run | module | asks | instance |
|---|---|---|---|
| `jobs_faulty` | MC_DurableJobs | do types, consistency, finality and the abstract promise survive overlapping supervisors and probes that fail? | 1 job, 2 workers, 2 supervisors, deadline, a waiter |
| `jobs_exclusive` | MC_DurableJobs | with one supervisor at a time: one owner, only orphans requeued, only the owner's result | 2 jobs, 2 workers, 1 supervisor that restarts, 1 crash or reboot |
| `jobs_live` | MC_DurableJobs | are pending, lost, ended and overdue jobs dealt with? | 1 job, 2 workers, 1 crash, with and without deadline |
| `jobs_probe_fault` | MC_DurableJobs | finding: one failed `ps` requeues a live job | 1 job, no crash |
| `pid_race` | MC_SupervisorPid | finding: two supervisors | 2 processes |
| `watch_safe` | MC_WatcherRuntime | budget, reservation, one payload, truthful exit, idle is current, no step back | all six loops, all faults, heights 0-2, 1 reorganisation, RU limit 7, deadline, signals; all faults include an `evaluate()` that raises |
| `watch_live` | MC_WatcherRuntime | do deadline and signals end a run? | all loops, transient faults, rate limits, vanished heads and broken streams, missing capability, cancellation |
| `watch_sigterm` | MC_WatcherRuntime | finding: a signal is ignored | the poll loop, no deadline |
| `watch_cancel` | MC_WatcherRuntime | finding: two payloads | the head loop, no signal handlers |
| `provider` | MC_Provider | transaction watches (`FinalIsFinal`, `NothingMissed`, `ConfirmedAtTheHead`, `EventuallyReported`), conditions (`ReadIsTrue`, `MatchIsTrue`) and streams (`FollowIsExact`, `InOrder`, `EndIsTold`, `CloseIsNeverStuck`) | see Bounds, one scene each |
| `processes` | MC_Processes | claims of the pid file in turn and at once, a tool call with its child (`OneEnvelope`, `AnswerIsTheChilds`, `NoChildLeft`), and what calls and lines turn into (`AskedIsWatched`, `ValidIsStarted`, `TypedIsHeeded`) | 4 processes in turn, 3 at once with failing probes, 3 inodes, 2 interruptions, the calls and lines of `RequestInputs` |
| `evm_final` | EvmTx | finding: an inclusion that is not canonical is reported as final | heights to 3, 2 reorganisations |

`CHECK_DEADLOCK FALSE` is set in all runs but those of jobs: claims, watchers,
calls and bounded chains come to an end. In the job runs the supervisors may
always be restarted, so deadlock is checked.

### Bounds

* Two workers are what it takes to have an owner and a rival or a successor; with
  one crash the owner is lost at each point of its life. `MaxCrashes`,
  `WaitedJobs` and `Deadlines` bound only how often the environment acts.
* Two supervisors suffice for overlapping scans of one job.
* Three contending claims: one that holds the file, one that judges it, one that
  replaces it meanwhile. A fourth process among those that claim in turn makes
  inodes be reused after a kill. Three inodes leave one free while two claims hold one each.
* Heights 0-2 with one fork let a notified block be older than, equal to, at the
  same height as, and newer than the last value. A return to the first fork takes a
  second reorganisation, which this run has no time for; the theorems about the
  runtime hold for any number of them. Queues of one or two items fill
  up. An RU limit of 7 with costs 2, 1 and 1 lets the budget run out in a
  baseline, in an item's read, and in the stream, while a read is in flight.
  Epochs are two blocks long, so the height bound crosses one border in both
  directions.
* A scan over a chain of up to four blocks with a horizon of two and bodies from
  block two: a first search can end without the transaction and a later one go on from
  it, the horizon moves while a range is unfinished, ranges run into pruned bodies, and
  two reorganisations and one failure fall between any RPCs. A block is one with the
  transaction or one without, so that the transaction may move to another height,
  vanish, and come back: two reorganisations are what it takes to leave a chain and
  return. The chain starts with a block without it; otherwise it would be found at
  once. The EVM watch needs less height, having no horizon; `evm_final` has two
  blocks with the transaction that are siblings, and in finding 5 a second chain overtakes
  the first.
* Ten conditions, each with the block contents it tells apart, over three
  observations on chains of three blocks, with one block replaced at a time: a
  baseline can enter, leave and be replaced in a window, and a marker can be
  reorganised away between the read that names it and its lookup, or afterwards.
  Every query may lose its answer (`Drops`). Two reconfirmations stand for eight, so
  both the exhausted and the successful one occur. The watches of liveness know the
  contents that move their marker and their unit: in epochs, quiet blocks that begin
  one and blocks that are active. A move of exactly the percentage asked
  for occurs, and a larger and a smaller one.
* A stream of three announced blocks of two labels, in a tree of height two, with
  two best heads, one notification under way and queues of one: queues fill,
  siblings compete, blocks are finalized and pruned before and after they are
  reported, and the batch to unpin (two) fills.
* Two interruptions of a call: a time-out or cancellation, and one more while the
  child is being terminated. A third finds the call returned.

### What the runs show

The passing properties hold in every reachable state of these instances, and for
each of them `PROJECT.json` names a mutant of the code, defined beside the
definition it replaces (`Mut...`), under which TLC finds the property violated.

Five runs end in a counterexample, each against a line of the repository:

1. `jobs_probe_fault`: `_posix_process_identity` returns None when `ps` times
   out, and `requeue_orphans` takes it for death.
2. `pid_race`: the pid file exists before it has content. A second claim takes the
   empty file for a dead owner's, removes it, and both supervise.
3. `watch_sigterm`: retries of a transient failure have no end without
   `--max-runtime`, and a fetch does not look at the shutdown event.
4. `watch_cancel`: a cancellation that reaches `run()` while a payload is being
   dispatched, or the adapters are being closed, adds a second payload.
5. `evm_final`: the EVM provider checks that an inclusion is canonical and reads
   the finalized block afterwards. If the inclusion is reorganised away in between,
   it is reported as final. The Bittensor provider reads finality first, on
   purpose, and `FinalIsFinal` holds there.

Smaller observations, which no run states as a finding:

* A baseline of value and epoch state that is rate-limited at its second read
  starts over, and the first read resets the guard: the limit of eight is never
  reached, and after a shutdown its back-off returns at once
  (`core/runtime.py:1573-1588`, 2136). `ShutdownEnds` therefore speaks of watchers
  that have their first value.
* An epoch state that is rate-limited at an item drops the item
  (`core/runtime.py:1235`), while an observable is read again. The next head makes
  up for it, unless the chain pauses. `skipped` records it in the model.
* `_per_epoch_loop` is said to read "when the subnet's chain-owned epoch marker
  advances" and compares for inequality (1112), so that a reorganisation across a
  border is read as well.
* The stream may be refused an RPC because of a reservation that is released a
  moment later; the run then ends as `budget_exhausted` below its limit.
* A second cancellation of an MCP call returns at once, while the shielded
  termination goes on (`mcp/exec.py:310-320`); its docstring says that cancellation
  "terminates the child process before returning" (288-289). `NoChildLeft` states
  what holds: the child is gone or being terminated.
* A liveness marker of zero names no block. Its anchor takes the time from the
  observation, but the epoch from the block that is not there
  (`core/primitives/liveness.py:245`), and a watch in epochs raises at the second
  observation of it (168), though the docstring at `providers/bittensor.py:638-640` and
  the comment at `liveness.py:232-234` let silence count from the watcher's arrival.
  `LivenessAgrees` says that a watch raises exactly then.
* A liveness marker is resolved by its number on the chain of the moment
  (`providers/bittensor.py:659-665`), and its activity stays where it was found when
  the marker was first seen, on whichever branch that was. `Activity` in `MatchIsTrue`
  is that place.
* The Bittensor scan goes by height and compares only the last head afterwards
  (`providers/bittensor.py:1702-1705`, 1804-1828). If the chain leaves a branch,
  heights are scanned on the other one, and the chain comes back before the scan
  ends, the blocks of these heights were never looked at and the cursor passes them
  for good; a poll sees nothing of it. `NothingMissed` and `EventuallyReported`
  except blocks that left the best chain while the cursor was kept, and need to.
* In the same way the EVM provider may compare a receipt with the canonical block on
  one branch and read the head, pinned by a notification, on the other: both checks
  pass, and the inclusion reported is no ancestor of that head
  (`providers/evm.py:471-518`). `ConfirmedAtTheHead` speaks of inclusions that stayed
  on the best chain in between.
* An `--out` URI that no adapter can be made of ends an invocation in a traceback
  and without a payload; `OneEnvelope` assumes a sink that can be made.
* The event stream fetches the events of the heads that it is told of and not of
  the ancestors in between (`providers/bittensor.py:2212`). `InOrder` is about the
  announced heads.
* A query may complete without its answer (`providers/bittensor.py:944-947`). A subnet
  that was not answered for is asked again and never called absent; a uid that
  was not, is "not registered" and ends the watch (1338); a value or an epoch that was
  not, is zero (183, 413-417, 674-680), and may match. `madeUp` records which.
* The canary of an absent subnet is read after the subnet: that the endpoint answers
  honestly *then* does not vouch for a False that it substituted before, although the
  docstring calls the earlier read "authoritative" (`providers/bittensor.py:950-953`).
  `ReadIsTrue` excepts that False, and no other way to an absent subnet.
* The EVM provider takes a canonical block that is missing, as right after a
  reorganisation to a shorter chain, for a malformed answer, and the watch ends.
* Two identity tools accept a condition without a kind, which has a default, and
  then refuse it when the command line is built (`mcp/exec.py:87-102`). A token is
  any string to the tool and an address or a symbol to the command. A label, an
  endpoint or a token may be any string to the tools and is passed as a token of its own
  (`mcp/exec.py:254-258`), where the command line looks for `-h` and `--help` among all
  tokens (`cli/chains/bittensor.py:398`, and its counterpart in `evm.py`): such a call,
  `rpc_url` `--help` for one, prints help and starts no watch. Other texts with a leading
  hyphen may be refused by the parser, which is left open here. `ValidIsStarted` excepts
  the three: a condition without a kind, a malformed token, a text that begins as an
  option does.
* `account balance` takes the first of several operators, other commands ignore a
  window beside a threshold, and an event's `--address` without a direction filters
  nothing. `TypedIsHeeded` excepts the first two.

### Fairness

* `DurableJobs`: weak fairness of each supervisor's loop, each worker's code and
  each `jobs wait` poll: running processes keep running. A watcher child ends only
  if its deadline has passed, because its worker passes it the remaining
  `--max-runtime`. Nobody must submit, stop, start a supervisor or crash. Where
  progress needs a supervisor, the property says so (`<>[]SomeoneUp`).
* `WatcherRuntime`: weak fairness of the coroutine's next step, since the event
  loop resumes it when what it awaits is over, a read ends some way (the providers
  have time-outs of their own) and a dispatch thread returns; and weak fairness of
  `ReadOverdue`, the timer of `asyncio.timeout`, which fires in the middle of a
  retry as in that of a call. The stream, the chain, signals and the end of a
  failure are not fair. `ShutdownEnds` assumes that reads end now and then
  (`[]<>`); `DeadlineEnds` assumes nothing.
* `TxScan`: weak fairness of the scan's next step, as the runtime polls again and
  every RPC ends, and of finalization. `EventuallyReported` needs both: a
  transaction that is final and within the horizon is reported, if its block did not
  leave the best chain since the search began. Growth and
  reorganisations are not fair, and failures are bounded.

## Proofs

The proofs hold for every number of jobs, processes, inodes, blocks, heads,
observations, reorganisations and interruptions, every horizon, window, queue,
cost and limit, given only each module's named assumption on its constants and
what the table names beside a theorem.

| module | theorem | argument |
|---|---|---|
| `DurableJobsProofs` | `StoreConsistent`, `StoreTerminalIsFinal` | each method changes at most one row (`TransactionEffect`), and its new row is typed and consistent |
| | `Typed` | types of the processes, plus consistency of rows from the lemmas above: every step is one transaction or none (`StepIsTransaction`) |
| | `Ownership` | see below; assumes `ExclusiveSupervisor` and `~ProbeMayFail` |
| | `RequeuesOnlyOrphans`, `ResultsAreTheOwners` | action properties, from `OwnershipInv` |
| | `JobsImplementAbstractJob` | every step maps to a step of `AbstractJob` or a stutter, for each job, with no assumption on supervisors or probes |
| `SupervisorPidProofs` | `PidTyped`, `SupervisorExclusion`, `SupervisorIsVisible`, `RefusalIsJustified` | `PidInv`: one claim at a time, owners are named by the file, a claim knows whether the file it is about to remove is an owner's, and owners are the only live processes named |
| | `ContendersDoNotAllLose` | `NobodyLost`: with claims overlapping at will, as long as nobody has won everybody still may (`MayStillWin`), since the file is what a claim read of it, or gone; no assumption on probes |
| `WatcherRuntimeProofs` | `BudgetIsRespected`, `ReservationIsExact` | `BudgetInv`: the limit alone is not inductive, since charging a reservation keeps the limit only if what is reserved is that read's cost |
| | `ExitTells` | inductive as it stands |
| | `OnePayloadPerRun` | `PayloadInv` counts the payloads by the coroutine's place; assumes that signal handlers can be installed |
| | `RuntimeTyped` | `ReadTypes`, `StreamTypes` and `EndTypes`: the coroutine's read, the stream and the ending are typed apart, one lemma per group of actions |
| | `TimeMovesForward` | `MoveInv`, see below |
| | `IdleWatcherIsCurrent` | `IdleInv`, see below |
| `ProviderProofs` | `FinalReportIsFinal`, `ScanMissesNothing` (Bittensor), `ReportFitsTheHead` (EVM) | see below; the lemmas on `ForkingChain` come first: a final block stays so, ancestors of canonical blocks are canonical, and a block with the transaction that is not canonical any more is in `left` |
| `ConditionWatchProofs` | `ReadsAreTrue` | `ReadInv`, see below; for any set of queries that may be lost |
| | `MatchesAreTrue` | `WatchInv`, see below |
| `EventStreamProofs` | `EndsAreTold` | `EndInv`: a stream that is open and whose task is gone holds its error or its end as the last item of its queue |
| | `TheFollowIsExact` | `ExactInv`, see below |
| | `EventsComeInOrder` | `OrderedInv`, see below |
| | `ClosesGoOn` | `CloseInv`, see below |
| `ProviderProofs` | `ReadsAreTrueInTheScene`, `MatchesAreTrueInTheScene`, `EndsAreToldInTheScene`, `TheFollowIsExactInTheScene`, `EventsComeInOrderInTheScene`, `ClosesGoOnInTheScene` | the scenes of `MC_Provider` implement `ConditionWatch` and `EventStream`; these carry the theorems above over to the very formulas that the run `provider` checks |
| `ProcessesProofs` | `OnePayloadPrinted` | `PrintInv`: nothing is printed before the ending; there it is one payload with its code, or a sink that failed |
| | `AnswersComeFromTheChild`, `ChildrenAreReaped` | `CodeInv`: a child gone with one of chainwake's own codes exited by itself; `CallInv`: where the call is says what the terminating task has done |
| | `SomeContenderGetsThrough` | `ContendersDoNotAllLose`, in the scene of `MC_Processes` |
| `WatchRequestsProofs` | `RequestInvHolds`, `AskedIsWatchedHolds`, `ValidIsStartedHolds`, `TypedIsHeededHolds` | `RequestInv`, see below: for every tool with any arguments, every command with any options |

### Jobs and runs

`OwnershipInv` is the inductive invariant of the job system. That no two live
workers own one job is not inductive: a supervisor may requeue a job whose worker
it read a while ago. So the invariant adds that an owner is the recorded worker
(`OwnerIsRecorded`), that what a supervisor read stays true until it acts
(`ScanIsCurrent`), and for that, that there is one supervisor (`OneSupervisor`).
`Ownership` assumes `ExclusiveSupervisor` and `~ProbeMayFail`; the runs
`pid_race` and `jobs_probe_fault` show that the code does not guarantee either in
all circumstances, and `JobsImplementAbstractJob` is what holds without them.

That a head or storage loop never steps back is not inductive either: between the
item and its evaluation lie retries, rate limits and reconnections. `MoveInv` pins
every read in hand to a block not below the last one evaluated. `IdleInv` follows
the newest notification: while the queue has items, it is the last of them; when
the queue has just been emptied it is the block of the read in hand; once that is
over it is dealt with. Nothing leaves the queue before the baseline.

### Transactions

In `TxScan` the chain may move between any two RPCs, also back to where it was, so
little of what the cursor knows stays true of the best chain. What does is said of
blocks: `CleanBut(b, range, left)` says that of the blocks of `b`'s horizon, those of
the range still to be scanned aside, only such hold the transaction that have left
the best chain. A step of the chain only adds to `left`, so it keeps that; and a height
that is scanned while `b` is not the best chain is either of a common ancestor, or of a
block that is in `left`, if it holds the transaction, because `b` was the best chain when the scan
began (`Recorded`). Finality is read before canonicity (`Known`): a height that was
final then and a block canonical afterwards are final together. In `EvmTx` the order is
the other one, and only `ConfirmedAtTheHead` holds: the notified head is compared last,
and if the inclusion is canonical then too, since it never left (`steady`), it is the ancestor
at its height.

### Conditions

A read pins a block, and the chain that ends in it never changes, so `ReadInv` can
say of each place in the read what has been found out of that block: the checks
that were passed (`GuardInv`) and the data read (`ContentInv`). The step that needs
thought is absence: what the subnet's query said is kept through the canary and the
rechecks, and only the last of it decides; no answer is taken for a failure of the
provider, an answer for the truth or a default. Nothing is assumed of which queries are
lost: what had no answer is in `madeUp`, a part of the invariant, and is zero; the
marker's block is looked up only for a value above zero, so never for a made-up one.

`MatchesAreTrue` relates what the primitive keeps to the history that it was fed
with. For a delta, the ticks in its memory are at each moment those of the
observations that no later one has pushed out of the window (`TicksOf`), although
each step prunes only against the newest; the oldest of them is the baseline of the
reference definition (`BaselineOf`), which exists because a nonempty set of
positions has a least member (`HasLeast`). For a liveness watch, the anchor is of the first
of the latest observations with the same marker (`AnchorIs`), whatever block that
observation found the activity in; the theorem says when a watch matches and also when
it raises, and excepts neither runs that raise nor chains that were replaced. Both are stated for
any history, as operators with the history as an argument, so that the step that
appends an observation is a lemma without state (`DeltaIs`, `LivenessIs`).

### Streams

Between the node and the handler there may be any number of notifications, so that
what the handler has pinned is not what the node has pinned for it, nor what it
knows what is known. The invariant speaks of *views* (tree, finalized block, number of
heads announced) between the notifications under way: the last view is the node's, the
first is the handler's, and each notification leads from one to the next (`Story`).
`HandlerInv` says of the handler and its view that before and during the greeting
it has nothing, and that from then on (`Exact`) whatever may still matter in its
view is pinned and known with its height, and the rest of what is pinned is to be
unpinned: fewer than a batch when idle. What the node has pinned is what the handler
has, plus what the notifications under way announce (`Fresh`). `FollowStep` is the
lemma for one step: the views advance, and the head that a notification names is put
on the stream, or the stream stops.

`EventsComeInOrder` counts along the same views: the heads announced in the handler's
view are those the consumer has taken, plus those in the queue, plus one in hand
(`HeadsAt`), so the queue is a section of `node.sent`. For events the loop over the
heads and a second queue follow, and only some heads carry an event: `Placed` gives
each item queued its rank among them. It needs `EndInv` as well: the heads are open as long
as the loop reads them, so none is lost between the two.

`CloseIsNeverStuck` says that some action of the client is enabled. It is stated by
the guards of those actions (`CloseGoesOn`), whose other conjuncts are assignments,
so that it can be proved. `CloseInv` adds, of each stream that is being closed, that its queue has been
empty since the cancellation unless its task is gone (`Closing`): nothing but the
sentinel is put afterwards, and for that there is room if a queue has any
(`StreamAssumption`). The close of the events may wait for that of the heads, but
never the other way round.

The exactness of the follow and the order hold for a node that keeps the chainHead protocol, which is what `HeadStream`
models as external: it announces parents before children, names announced blocks
only, and finalizes along one branch. `StreamAssumption` adds that it keeps finitely
many blocks from before the first finalized one, none of which is a descendant of it.

### Requests

A request takes three steps at most; what is hard is what the steps compute. `RequestInv`
reduces a property of where a request ends to one of the operators: a watch that
was started is the one that an accepted line dispatches, and a call that ended
without a watch has arguments that could not be built into a line, or a line that
prints help or is refused. The rest is about any arguments.

For calls: `ToolsSuit` goes through the tools once and finds that each has its
command, that the fields of its input model are what the command takes, and that
the conditions that the tool knows are those that the command resolves. From then on no
proof looks at a single tool. `CallValues` says what the command
reads of a field that was given, left out or defaulted; `CallIsResolved` that the
command arrives at the condition of the call; `CallIsWatched` puts the two together. In
the other direction `CallIsAccepted` shows that no rule of the command refuses
what the input model lets pass. `CallText` says which texts of a line the call chose
(label, endpoint, token), and `CallHelpsOnly` that a line prints help, or may be read as
options, only if one of them begins as an option does.

For typed lines: `LineHeeds` goes through the commands and finds that each takes only
operators that the condition it resolves looks at; `LineIsHeeded` adds the rules by
which a command refuses two operators, and a window where none is looked at. `ValidIsStarted` and `TypedIsHeeded` name the exceptions in
their statements; the proofs need each of them.

### Only model-checked

Every safety invariant and action property that a passing run checks is proved. What is
left to TLC:

* The liveness properties `EndedJobStopsWatching`, `LostJobIsRecovered`,
  `PendingIsTaken`, `OverdueWaitReturns`, `ShutdownEnds`, `DeadlineEnds` and
  `EventuallyReported`: fairness is beyond the prover.
* `ShutdownStops` and `EvmFinalIsFinal`, which two runs show violated.

## Not modelled

* Market data (`providers/market.py`, `providers/coingecko.py`): one HTTP request
  and its decoding, without state.
* Payload schemas, rendering and configuration; wire decoding; the checks of
  addresses, hashes and the texts of numbers, which are one choice, valid or not.
* In the registry, the table itself: the costs, drivers and fallbacks that the
  runtime takes from it are constants, the paths that a command selects are
  members of `CommandLine`'s sets.
* In the runtime: the texts of heartbeats and banners, `rpc_calls`, the length of
  delays, signals after the handlers are removed (the default disposition kills
  the process).
* In the Bittensor provider: the storage subscription, which is an event stream
  with another read per item and is modelled as `WatcherRuntime` sees it; pool
  prices and unit conversions; one value reader stands for the many that differ in
  the storage item they name.
* In the EVM provider: balances, ERC-20 and fee reads, which are single RPCs.
* In the job system: log files, permissions of the state directory, pagination of
  `jobs list`.

## What is left

* The storage subscription as a module of its own beside `EventStream`.
* The streams inside `WatcherRuntime` as an abstract specification that
  `EventStream` implements, rather than two models side by side. `InOrder` and
  `EndIsTold`, which are proved, are what that refinement would rest on.
* The value readers one by one: which of them tell a lost answer from zero, and which
  combine several queries of which one may be lost.
* The order in which a legacy subscription reports its heads: the node sends
  numbers only, and which block a number means is looked up later.
