------------------------------ MODULE JobStore ------------------------------
(***************************************************************************)
(* The SQLite job table of chainwake/jobs/store.py.  Every public method   *)
(* of JobStore is one short transaction, so each is one atomic action on   *)
(* the table.  This module says what the table does for ANY caller: its    *)
(* specification lets every method be called at any time, with any         *)
(* argument, by anybody.  DurableJobs restricts the callers to what the    *)
(* supervisor, the workers and the command line really do.                 *)
(*                                                                         *)
(* Data abstraction: a job id is a model value; argv and context never     *)
(* change after create and are dropped; a timestamp column is a flag that  *)
(* says whether it is set; worker_pid with worker_identity is one worker   *)
(* process; error keeps only the kind of its text.                         *)
(***************************************************************************)

CONSTANTS
    Jobs,       \* job ids that may ever be created
    Workers,    \* worker processes (pid together with its start fingerprint)
    NoWorker,   \* SQL NULL in worker_pid / worker_identity
    Statuses    \* values of "status" a watcher payload may carry

VARIABLE rows   \* the table: one row per job id, "absent" before create

(***************************************************************************)
(* JobState of jobs/models.py.                                             *)
(***************************************************************************)
OpenStates == {"pending", "running"}

TerminalStates ==
    {"matched", "expired", "budget_exhausted", "stopped", "cancelled", "failed"}

NoResult == "no_result"     \* SQL NULL in result_json

ASSUME StoreAssumption ==
    /\ NoWorker \notin Workers
    /\ NoResult \notin Statuses

Row == [state     : {"absent"} \cup OpenStates \cup TerminalStates,
        worker    : Workers \cup {NoWorker},
        result    : Statuses \cup {NoResult},
        error     : {"none", "failed", "deadline", "requeued"},
        exit      : {"none", "of_watcher", "1", "4"},
        deadline  : BOOLEAN,
        started   : BOOLEAN,
        completed : BOOLEAN]

AbsentRow == [state |-> "absent", worker |-> NoWorker, result |-> NoResult,
              error |-> "none", exit |-> "none", deadline |-> FALSE,
              started |-> FALSE, completed |-> FALSE]

IsTerminal(j) == rows[j].state \in TerminalStates
IsOpen(j)     == rows[j].state \in OpenStates

(***************************************************************************)
(* _terminal_state (and its twin worker.state_for_result): the job state   *)
(* that a watcher's status becomes.  Anything not listed is a failure.     *)
(***************************************************************************)
TerminalState(status) ==
    IF status = "timeout" THEN "expired"
    ELSE IF status \in {"matched", "budget_exhausted", "stopped"} THEN status
    ELSE "failed"

-----------------------------------------------------------------------------
(***************************************************************************)
(* What each UPDATE writes into the row it selects.                        *)
(***************************************************************************)
ClaimedRow(r, w) ==
    [r EXCEPT !.state = "running", !.worker = w, !.error = "none",
              !.started = TRUE]

\* Mutant: the payload's status stored as the state, without _terminal_state.
MutStatusAsState(r, status) ==
    [r EXCEPT !.state = status, !.result = status, !.exit = "of_watcher",
              !.completed = TRUE, !.worker = NoWorker]

CompletedRow(r, status) ==
    [r EXCEPT !.state = TerminalState(status), !.result = status,
              !.exit = "of_watcher", !.completed = TRUE, !.worker = NoWorker]

FailedRow(r) ==
    [r EXCEPT !.state = "failed", !.error = "failed", !.exit = "4",
              !.completed = TRUE, !.worker = NoWorker]

ExpiredRow(r) ==
    [r EXCEPT !.state = "expired", !.error = "deadline", !.exit = "1",
              !.completed = TRUE, !.worker = NoWorker]

CancelledRow(r) ==
    [r EXCEPT !.state = "cancelled", !.completed = TRUE, !.worker = NoWorker]

\* Mutant: the worker columns are not reset to NULL.
MutRequeueKeepsWorker(r) == [r EXCEPT !.state = "pending", !.error = "requeued"]

RequeuedRow(r) ==
    [r EXCEPT !.state = "pending", !.worker = NoWorker, !.error = "requeued"]

(***************************************************************************)
(* The transactions.  An UPDATE whose WHERE clause selects no row changes  *)
(* nothing and its method returns False (rowcount = 0): Claim and Cancel   *)
(* are written as their successful case, because their callers act on the  *)
(* returned value; the others are called for effect and are total.         *)
(***************************************************************************)
Create(j, hasDeadline) ==
    /\ rows[j].state = "absent"
    /\ rows' = [rows EXCEPT ![j] = [AbsentRow EXCEPT !.state = "pending",
                                                     !.deadline = hasDeadline]]

\* Mutant: WHERE state = 'pending' forgotten in claim, for unfinished jobs.
MutClaimOpen(j, w) ==
    /\ IsOpen(j)
    /\ rows' = [rows EXCEPT ![j] = ClaimedRow(rows[j], w)]

Claim(j, w) ==
    /\ rows[j].state = "pending"
    /\ rows' = [rows EXCEPT ![j] = ClaimedRow(rows[j], w)]

\* Mutant: AND state = 'running' forgotten in complete.
MutCompleteAlways(j, status) ==
    rows' = [rows EXCEPT ![j] = CompletedRow(rows[j], status)]

Complete(j, status) ==
    rows' = IF rows[j].state = "running"
            THEN [rows EXCEPT ![j] = CompletedRow(rows[j], status)]
            ELSE rows

Fail(j) ==
    rows' = IF IsOpen(j) THEN [rows EXCEPT ![j] = FailedRow(rows[j])] ELSE rows

Expire(j) ==
    rows' = IF IsOpen(j) THEN [rows EXCEPT ![j] = ExpiredRow(rows[j])] ELSE rows

Cancel(j) ==
    /\ IsOpen(j)
    /\ rows' = [rows EXCEPT ![j] = CancelledRow(rows[j])]

\* Mutant: AND state = 'running' forgotten in the UPDATE of requeue_orphans.
MutRequeueAny(j) == rows' = [rows EXCEPT ![j] = RequeuedRow(rows[j])]

\* The UPDATE inside requeue_orphans: it selects by id and state only, the
\* worker that the caller found dead is not compared again.
Requeue(j) ==
    rows' = IF rows[j].state = "running"
            THEN [rows EXCEPT ![j] = RequeuedRow(rows[j])]
            ELSE rows

-----------------------------------------------------------------------------
StoreInit == rows = [j \in Jobs |-> AbsentRow]

StoreNext ==
    \E j \in Jobs :
        \/ \E d \in BOOLEAN : Create(j, d)
        \/ \E w \in Workers : Claim(j, w)
        \/ \E s \in Statuses : Complete(j, s)
        \/ Fail(j)
        \/ Expire(j)
        \/ Cancel(j)
        \/ Requeue(j)

StoreSpec == StoreInit /\ [][StoreNext]_rows

-----------------------------------------------------------------------------
(***************************************************************************)
(* Properties.                                                             *)
(***************************************************************************)

\* Every row holds values of the columns' types.
StoreTypeOK == rows \in [Jobs -> Row]

\* The columns of one row never contradict each other, whatever sequence of
\* claims, requeues, cancellations and late completions produced it: a worker
\* is recorded exactly while the job runs; a watcher result comes with the
\* state it stands for, the watcher's own exit code and no error text left
\* over from an earlier requeue; an error and its exit code agree with the
\* state; only cancellation leaves a finished job without an exit code.
RowConsistent(r) ==
    /\ (r.worker # NoWorker) <=> (r.state = "running")
    /\ r.completed <=> (r.state \in TerminalStates)
    /\ r.result # NoResult =>
          /\ r.state = TerminalState(r.result)
          /\ r.exit = "of_watcher" /\ r.error = "none" /\ r.started
    /\ r.exit = "of_watcher" => r.result # NoResult
    /\ r.state = "failed" /\ r.result = NoResult => r.error = "failed" /\ r.exit = "4"
    /\ r.state = "expired" /\ r.result = NoResult => r.error = "deadline" /\ r.exit = "1"
    /\ r.state \in TerminalStates => (r.exit = "none" <=> r.state = "cancelled")
    /\ r.state = "running" => r.started /\ r.error = "none"
    /\ r.state \in OpenStates => r.exit = "none" /\ r.result = NoResult
    /\ r.state = "pending" => (r.started <=> r.error = "requeued")
    /\ r.state \in {"pending", "cancelled"} => r.error \in {"none", "requeued"}
    /\ r.state = "absent" => r = AbsentRow

RowsConsistent == \A j \in Jobs : RowConsistent(rows[j])

\* A finished job is never touched again: of all the transactions racing to
\* end a job (a worker's result, a failure, an expiry, a cancellation) the
\* first one wins, and no requeue revives it.
TerminalIsFinal == [][\A j \in Jobs : IsTerminal(j) => rows'[j] = rows[j]]_rows
=============================================================================
