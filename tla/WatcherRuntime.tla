--------------------------- MODULE WatcherRuntime ---------------------------
(***************************************************************************)
(* One watcher run: WatcherRunner of core/runtime.py with its read budget  *)
(* (core/budget.py), its retry policy (core/retry.py) and, seen from       *)
(* outside, the provider's subscription stream.  The runner is one         *)
(* coroutine; between two of its awaits nothing else runs, but at every    *)
(* await the stream's own task may charge the budget and queue items, a    *)
(* signal handler may set the shutdown event, the clock may pass the       *)
(* deadline, and the chain moves on.                                       *)
(*                                                                         *)
(* `loop` is the driver loop that runs, `stage` whether its first value    *)
(* is still to come (baseline_done, last_marker is None), `what` and `at`  *)
(* the read in hand: the observable or the epoch state, pinned to a block  *)
(* or to none; once read, `at` is the block that was read.                 *)
(*                                                                         *)
(* Data abstraction: a block is its height and its fork; a value is the    *)
(* block it was read at, and whether it matches is open (the primitive);   *)
(* delays have no length; rpc_calls and wording are dropped.               *)
(***************************************************************************)
EXTENDS Integers, Sequences

CONSTANTS
    Loops,          \* driver loops that a run may start with
    Lacks,          \* loops for which the provider lacks the capability
    StorageFallbacks, \* the registry's fallback drivers for storage changes
    NeedsEpoch,     \* TRUE: the condition's window counts epochs
    ExitsAfterDispatch, \* TRUE: an adapter ends the run at its first match
    Faults,         \* what the endpoint may do wrong, see AllFaults
    HasDeadline,    \* TRUE: --max-runtime is set
    MaxRu,          \* --max-ru, or NoLimit
    NoLimit,        \* None
    ReadCost,       \* RU estimate of one observable read
    EpochCost,      \* RU estimate of one epoch-state read
    StreamCost,     \* RU estimate of one RPC made by the stream
    MaxHits,        \* rate-limit hits in a row that are backed off: 8 in the code
    MaxQueue,       \* items a stream holds: 64 and more in the code
    MaxHeight,      \* bound: heights 0 .. MaxHeight
    MaxReorgs,      \* bound: reorganisations in a behaviour, returns included
    EpochLength,    \* blocks per epoch
    HandlersMayFail \* TRUE: the event loop may lack add_signal_handler

AllLoops == {"head", "storage", "event", "poll", "epoch_head", "epoch_poll"}
Polling  == {"poll", "epoch_poll"}
AllFaults == {"transient", "rate_limited", "head_gone", "terminal", "cu",
              "user_error", "stream_failed", "unsupported", "no_context"}

ASSUME RuntimeAssumption ==
    /\ Loops \subseteq AllLoops /\ Lacks \subseteq AllLoops \ {"poll"}
    /\ StorageFallbacks \subseteq {"head", "poll"}
    /\ NeedsEpoch \in BOOLEAN /\ ExitsAfterDispatch \in BOOLEAN
    /\ HasDeadline \in BOOLEAN /\ HandlersMayFail \in BOOLEAN
    /\ Faults \subseteq AllFaults
    /\ NoLimit \notin Nat /\ MaxRu \in Nat \cup {NoLimit}
    /\ ReadCost \in Nat \ {0} /\ EpochCost \in Nat \ {0} /\ StreamCost \in Nat \ {0}
    /\ MaxHits \in Nat /\ MaxQueue \in Nat \ {0}
    /\ MaxHeight \in Nat /\ MaxReorgs \in Nat /\ EpochLength \in Nat \ {0}

VARIABLES
    loop, pc, stage, what, at, \* the coroutine, see above
    last,       \* last_block and last_block_hash
    lastMarker, \* last_marker, the epoch evaluated last, or -1
    hits,       \* RateLimitGuard._consecutive
    consumed,   \* Budget._estimated_ru_consumed (not counted without --max-ru)
    reserved,   \* Budget._reserved_ru
    sub,        \* the stream: "closed", "attaching", "open" or "dead"
    queue,      \* its queue: blocks, and the error that ended it
    notified,   \* the newest block it has queued
    skipped,    \* the newest block the runner took and gave up on
    head,       \* the chain's best block
    reorgs,     \* how many reorganisations so far
    handlers,   \* the signal handlers are installed
    shutdown,   \* the shutdown event, set by SIGTERM or SIGINT
    overdue,    \* --max-runtime has elapsed
    cancelled,  \* the task has been cancelled
    printed,    \* terminal payloads handed to the adapters
    exit        \* the payload whose exit code run() returns, or "none"

coVars     == <<loop, stage, what, at, last, lastMarker, skipped>>
budgetVars == <<consumed, reserved>>
streamVars == <<sub, queue, notified>>
chainVars  == <<head, reorgs>>
signalVars == <<handlers, shutdown, overdue, cancelled>>
endVars    == <<printed, exit>>
vars == <<pc, hits, coVars, budgetVars, streamVars, chainVars, signalVars, endVars>>

Block   == [height : 0 .. MaxHeight, fork : 0 .. MaxReorgs]
NoBlock == [height |-> -1, fork |-> 0]
Errors  == {"failed", "rate_limited", "budget", "terminal", "cu", "user_error",
            "unsupported"}

\* Queue items: a block's notification, or the exception that ends the stream.
Notice(b) == [block |-> b, error |-> "none"]
Raised(e) == [block |-> NoBlock, error |-> e]

Marker(b) == b.height \div EpochLength
Cost(w)   == IF w = "epoch" THEN EpochCost ELSE ReadCost
InFlight  == {"reading", "retrying"}

-----------------------------------------------------------------------------
(***************************************************************************)
(* The budget.                                                             *)
(***************************************************************************)

\* Mutant: what is reserved by a read in flight is forgotten.
MutIgnoreReserved(cost) == MaxRu # NoLimit => consumed + cost <= MaxRu

\* ensure_ru_available.
Funds(cost) == MaxRu # NoLimit => consumed + reserved + cost <= MaxRu

Reserve(cost) == reserved' = reserved + cost /\ UNCHANGED consumed

\* Mutant: the reservation outlives the read that failed.
MutKeepReservation == UNCHANGED budgetVars

\* release_ru_reservation, after a read that failed or was cancelled.
Release == reserved' = reserved - Cost(what) /\ UNCHANGED consumed

\* charge_reserved_rpc_call.
ChargeReserved ==
    /\ reserved' = reserved - Cost(what)
    /\ consumed' = IF MaxRu = NoLimit THEN consumed ELSE consumed + Cost(what)

\* charge_rpc_call, called by the stream.
ChargeStream ==
    /\ consumed' = IF MaxRu = NoLimit THEN consumed ELSE consumed + StreamCost
    /\ UNCHANGED reserved

-----------------------------------------------------------------------------
(***************************************************************************)
(* Where the coroutine goes next.                                          *)
(***************************************************************************)

\* An _emit_* call: the payload is handed to a thread, run() will return.
Finish(status) ==
    /\ pc' = "printing"
    /\ printed' = Append(printed, status)
    /\ exit' = status

\* An exception that leaves run(), whose caller will print it.
Raises(status) == pc' = "closing" /\ exit' = status /\ UNCHANGED printed

GoOn(label) == pc' = label /\ UNCHANGED endVars

Fetch(w, b) == what' = w /\ at' = b /\ GoOn("fetch")

\* The first read of a poll, or of a subscription's baseline.
FirstRead ==
    Fetch(IF loop \in {"epoch_head", "epoch_poll"} THEN "epoch" ELSE "obs", NoBlock)

\* After a value has been dealt with: the next poll, or the next item.
NextRound == GoOn(IF loop \in Polling THEN "sleep" ELSE "await")

-----------------------------------------------------------------------------
(***************************************************************************)
(* Entering a loop, and its top.                                           *)
(***************************************************************************)
Enter ==
    /\ pc = "enter"
    /\ loop \notin Lacks
    /\ \/ GoOn("top")
       \/ /\ "no_context" \in Faults /\ NeedsEpoch /\ loop \in {"head", "poll"}
          /\ Raises("user_error")
    /\ UNCHANGED <<coVars, hits, budgetVars, streamVars, chainVars, signalVars>>

\* What a loop becomes when the provider cannot serve it; "none": nothing.
Fallbacks(l) ==
    CASE l = "head"       -> {"poll"}
      [] l = "storage"    -> IF StorageFallbacks = {} THEN {"none"} ELSE StorageFallbacks
      [] l = "event"      -> {"poll", "none"}
      [] l = "epoch_head" -> {"epoch_poll"}
      [] OTHER            -> {"poll"}

\* Through a capability check: without EpochProvider the epochs are given up.
FallBack(candidates) ==
    \E l \in candidates :
        IF l = "none"
        THEN Finish("provider_error") /\ UNCHANGED <<coVars, streamVars>>
        ELSE /\ loop' = l
             /\ stage' = "baseline" /\ what' = "obs" /\ at' = NoBlock
             /\ last' = NoBlock /\ lastMarker' = -1 /\ skipped' = NoBlock
             /\ sub' = "closed" /\ queue' = << >> /\ notified' = NoBlock
             /\ GoOn("enter")

EnterWithout ==
    /\ pc = "enter"
    /\ loop \in Lacks
    /\ FallBack(Fallbacks(loop) \cup (IF loop = "epoch_head" THEN {"head"} ELSE {}))
    /\ UNCHANGED <<hits, budgetVars, chainVars, signalVars>>

\* Mutant: the deadline that ended the loop is reported as a shutdown.
MutStoppedOnDeadline ==
    /\ pc = "top"
    /\ shutdown \/ overdue
    /\ Finish("stopped")
    /\ UNCHANGED <<coVars, hits, budgetVars, streamVars, chainVars, signalVars>>

\* Mutant: a loop's top looks at the deadline only.
MutTopForgetsShutdown ==
    /\ pc = "top"
    /\ overdue /\ Finish("timeout")
    /\ UNCHANGED <<coVars, hits, budgetVars, streamVars, chainVars, signalVars>>

TopEnds ==
    /\ pc = "top"
    /\ \/ shutdown /\ Finish("stopped")
       \/ ~shutdown /\ overdue /\ Finish("timeout")
    /\ UNCHANGED <<coVars, hits, budgetVars, streamVars, chainVars, signalVars>>

PollAgain ==
    /\ pc = "top" /\ loop \in Polling
    /\ ~shutdown /\ ~overdue
    /\ FirstRead
    /\ UNCHANGED <<loop, stage, last, lastMarker, skipped, hits, budgetVars,
                   streamVars, chainVars, signalVars>>

\* The stream is attached before the baseline is read; a reconnected stream
\* goes straight to its items.
Subscribe ==
    /\ pc = "top" /\ loop \notin Polling
    /\ ~shutdown /\ ~overdue
    /\ sub' = "attaching" /\ queue' = << >> /\ notified' = NoBlock
    /\ IF stage = "items" \/ loop = "event"
       THEN GoOn("await") /\ UNCHANGED <<what, at>>
       ELSE FirstRead
    /\ UNCHANGED <<loop, stage, last, lastMarker, skipped, hits, budgetVars,
                   chainVars, signalVars>>

-----------------------------------------------------------------------------
(***************************************************************************)
(* _fetch and _fetch_epoch_state.                                          *)
(***************************************************************************)
FetchUnfunded ==
    /\ pc = "fetch" /\ ~Funds(Cost(what))
    /\ Finish("budget_exhausted")
    /\ UNCHANGED <<coVars, hits, budgetVars, streamVars, chainVars, signalVars>>

FetchOverdue ==
    /\ pc = "fetch" /\ Funds(Cost(what)) /\ overdue
    /\ Finish("timeout")
    /\ UNCHANGED <<coVars, hits, budgetVars, streamVars, chainVars, signalVars>>

FetchStarts ==
    /\ pc = "fetch" /\ Funds(Cost(what)) /\ ~overdue
    /\ Reserve(Cost(what))
    /\ GoOn("reading")
    /\ UNCHANGED <<coVars, hits, streamVars, chainVars, signalVars>>

\* with_transient_retry: it fails and is retried after a delay, without end and
\* without looking at the shutdown event; the reservation stays.
ReadFails ==
    /\ pc = "reading" /\ "transient" \in Faults
    /\ GoOn("retrying")
    /\ UNCHANGED <<coVars, hits, budgetVars, streamVars, chainVars, signalVars>>

Retry ==
    /\ pc = "retrying"
    /\ GoOn("reading")
    /\ UNCHANGED <<coVars, hits, budgetVars, streamVars, chainVars, signalVars>>

\* Mutant: the deadline is looked at while a call is running, not between two.
MutRetryIgnoresDeadline ==
    /\ pc = "reading" /\ overdue
    /\ Release
    /\ Finish("timeout")
    /\ UNCHANGED <<coVars, hits, streamVars, chainVars, signalVars>>

\* asyncio.timeout cancels the call and all its retries.
ReadOverdue ==
    /\ pc \in InFlight /\ overdue
    /\ Release
    /\ Finish("timeout")
    /\ UNCHANGED <<coVars, hits, streamVars, chainVars, signalVars>>

\* The value arrives: an unpinned read is of the best block.  The epoch loops
\* read the observable only if the epoch is not the one evaluated last.
ReadSucceeds ==
    /\ pc = "reading"
    /\ ChargeReserved
    /\ hits' = 0
    /\ LET b == IF at = NoBlock THEN head ELSE at IN
       CASE what = "obs" /\ NeedsEpoch /\ loop \in {"head", "poll"} -> Fetch("epoch", b)
         [] what = "epoch" /\ loop \in {"epoch_head", "epoch_poll"} ->
              IF Marker(b) # lastMarker
              THEN Fetch("obs", b)
              ELSE NextRound /\ at' = NoBlock /\ UNCHANGED what
         [] OTHER -> GoOn("evaluate") /\ at' = b /\ UNCHANGED what
    /\ UNCHANGED <<loop, stage, last, lastMarker, skipped, streamVars, chainVars, signalVars>>

\* Mutant: rate limits are backed off without end.
MutNeverGivesUp ==
    /\ pc = "reading" /\ "rate_limited" \in Faults
    /\ Release
    /\ hits' = hits + 1
    /\ GoOn("backoff")
    /\ UNCHANGED <<coVars, streamVars, chainVars, signalVars>>

\* RateLimitGuard.handle: wait, or give up after MaxHits in a row.
ReadRateLimited ==
    /\ pc = "reading" /\ "rate_limited" \in Faults
    /\ Release
    /\ hits' = hits + 1
    /\ IF hits < MaxHits THEN GoOn("backoff") ELSE Finish("provider_error")
    /\ UNCHANGED <<coVars, streamVars, chainVars, signalVars>>

\* HeadUnavailableError of a pinned observable: on to the next head.
ReadHeadGone ==
    /\ pc = "reading" /\ "head_gone" \in Faults
    /\ loop = "head" /\ stage = "items" /\ what = "obs"
    /\ Release
    /\ skipped' = at /\ at' = NoBlock
    /\ GoOn("await")
    /\ UNCHANGED <<loop, stage, what, last, lastMarker, hits, streamVars, chainVars, signalVars>>

\* _handle_provider_exception; a UserError is raised through run() instead.
ReadEnds ==
    /\ pc = "reading"
    /\ Release
    /\ \/ "terminal" \in Faults /\ \E s \in {"provider_error", "internal_error"} : Finish(s)
       \/ "cu" \in Faults /\ Finish("budget_exhausted")
       \/ "user_error" \in Faults /\ Raises("user_error")
    /\ UNCHANGED <<coVars, hits, streamVars, chainVars, signalVars>>

\* The wait is over (at once, after shutdown) and the fetch returns no value.
\* An observable of an item is read again at the same block; a baseline starts
\* over; an epoch state gives up the item; a poll waits for its next tick.
BackoffEnds ==
    /\ pc = "backoff"
    /\ CASE loop = "poll" -> GoOn("sleep") /\ at' = NoBlock /\ UNCHANGED <<what, skipped>>
         [] loop = "epoch_poll" -> GoOn("top") /\ at' = NoBlock /\ UNCHANGED <<what, skipped>>
         [] loop \notin Polling /\ stage = "baseline" -> FirstRead /\ UNCHANGED skipped
         [] loop \notin Polling /\ stage = "items" /\ what = "obs" ->
              Fetch("obs", at) /\ UNCHANGED skipped
         [] OTHER -> GoOn("await") /\ skipped' = at /\ at' = NoBlock /\ UNCHANGED what
    /\ UNCHANGED <<loop, stage, last, lastMarker, hits, budgetVars, streamVars, chainVars, signalVars>>

-----------------------------------------------------------------------------
(***************************************************************************)
(* _evaluate_and_dispatch and what its caller records.                     *)
(***************************************************************************)
Record ==
    /\ stage' = IF loop \in Polling THEN stage ELSE "items"
    /\ last' = IF loop \in {"head", "storage"} THEN at ELSE last
    /\ lastMarker' = IF loop \in {"epoch_head", "epoch_poll"} THEN Marker(at) ELSE lastMarker

Evaluate ==
    /\ pc = "evaluate"
    /\ Record
    /\ at' = NoBlock
    /\ \/ NextRound
       \/ ~ExitsAfterDispatch /\ GoOn("notifying")
       \/ ExitsAfterDispatch /\ Finish("matched")
    /\ UNCHANGED <<loop, what, skipped, hits, budgetVars, streamVars, chainVars, signalVars>>

\* evaluate() raises RuntimeError for a value that lacks what the condition needs
\* (an anchor, an epoch): a stream's loop handles it, a poll's does not.
EvaluateRaises ==
    /\ pc = "evaluate" /\ "terminal" \in Faults
    /\ at' = NoBlock
    /\ IF loop \in Polling THEN Raises("internal_error") ELSE Finish("internal_error")
    /\ UNCHANGED <<loop, stage, what, last, lastMarker, skipped, hits, budgetVars, streamVars,
                   chainVars, signalVars>>

\* The match has been handed to adapters that keep the watcher alive.
Notified ==
    /\ pc = "notifying"
    /\ NextRound
    /\ UNCHANGED <<coVars, hits, budgetVars, streamVars, chainVars, signalVars>>

Sleep ==
    /\ pc = "sleep"
    /\ GoOn("top")
    /\ UNCHANGED <<coVars, hits, budgetVars, streamVars, chainVars, signalVars>>

-----------------------------------------------------------------------------
(***************************************************************************)
(* Awaiting the stream: _await_subscription_task, _next_subscription_event.*)
(***************************************************************************)
AwaitStarts ==
    /\ pc = "await" /\ ~shutdown /\ ~overdue
    /\ GoOn("waiting")
    /\ UNCHANGED <<coVars, hits, budgetVars, streamVars, chainVars, signalVars>>

AwaitEnds ==
    /\ pc \in {"await", "waiting", "subbackoff"}
    /\ \/ shutdown /\ Finish("stopped")
       \/ overdue /\ Finish("timeout")
    /\ UNCHANGED <<coVars, hits, budgetVars, streamVars, chainVars, signalVars>>

\* Mutant: heads at the height of the last one are taken for it.
MutIsOld(b) == b.height <= last.height

\* Mutant: every notification is read, however old.
MutNeverOld(b) == FALSE

\* A notification that the baseline or an earlier item already covered.
IsOld(b) == b.height < last.height \/ b = last

\* An item that is there when the wait is over is taken, even if the deadline
\* passed or a signal came while it was waited for.
Arrives ==
    /\ pc = "waiting"
    /\ queue # << >>
    /\ queue' = Tail(queue)

\* A block: it is read, or in the event loop evaluated as it came.
AwaitItem ==
    /\ Arrives
    /\ Head(queue).error = "none"
    /\ hits' = 0
    /\ LET b == Head(queue).block IN
       CASE loop = "event" -> GoOn("evaluate") /\ at' = b /\ UNCHANGED what
         [] loop = "epoch_head" -> Fetch("epoch", b)
         [] loop \in {"head", "storage"} /\ ~IsOld(b) -> Fetch("obs", b)
         [] OTHER -> GoOn("await") /\ UNCHANGED <<what, at>>
    /\ UNCHANGED <<loop, stage, last, lastMarker, skipped, budgetVars, sub, notified,
                   chainVars, signalVars>>

AwaitError ==
    /\ Arrives
    /\ \/ /\ Head(queue).error = "failed"
          /\ GoOn("reconnect") /\ UNCHANGED hits
       \/ /\ Head(queue).error = "rate_limited"
          /\ hits' = hits + 1
          /\ IF hits < MaxHits THEN GoOn("subbackoff") ELSE Finish("provider_error")
       \/ /\ Head(queue).error \in {"budget", "cu"}
          /\ Finish("budget_exhausted") /\ UNCHANGED hits
       \/ /\ Head(queue).error = "terminal"
          /\ Finish("provider_error") /\ UNCHANGED hits
       \/ /\ Head(queue).error = "user_error"
          /\ Raises("user_error") /\ UNCHANGED hits
    /\ UNCHANGED <<coVars, budgetVars, sub, notified, chainVars, signalVars>>

\* NotImplementedError: the loop is replaced.
AwaitUnsupported ==
    /\ pc = "waiting"
    /\ queue # << >> /\ Head(queue).error = "unsupported"
    /\ FallBack(Fallbacks(loop))
    /\ UNCHANGED <<hits, budgetVars, chainVars, signalVars>>

\* The delay is over; the stream is closed and the loop starts over.
Reconnect ==
    /\ pc \in {"reconnect", "subbackoff"}
    /\ sub' = "closed" /\ queue' = << >> /\ notified' = NoBlock
    /\ GoOn("top")
    /\ UNCHANGED <<coVars, hits, budgetVars, chainVars, signalVars>>

-----------------------------------------------------------------------------
(***************************************************************************)
(* The end of run(), and of _run_with_error_handling around it.            *)
(***************************************************************************)
Printed ==
    /\ pc = "printing"
    /\ pc' = "closing"
    /\ sub' = "closed" /\ queue' = << >> /\ notified' = NoBlock
    /\ UNCHANGED <<coVars, hits, budgetVars, chainVars, signalVars, endVars>>

\* Mutant: the caller prints what run() returned once more.
MutPrintAgain ==
    /\ pc = "closing"
    /\ pc' = "done"
    /\ printed' = Append(printed, exit)
    /\ sub' = "closed" /\ queue' = << >> /\ notified' = NoBlock
    /\ UNCHANGED <<coVars, hits, budgetVars, chainVars, signalVars, exit>>

\* _close_all; what run() raised is printed by its caller.
Close ==
    /\ pc = "closing"
    /\ pc' = "done"
    /\ printed' = IF printed = << >> THEN <<exit>> ELSE printed
    /\ sub' = "closed" /\ queue' = << >> /\ notified' = NoBlock
    /\ UNCHANGED <<coVars, hits, budgetVars, chainVars, signalVars, exit>>

\* Without add_signal_handler, Ctrl+C cancels the task at one of its awaits:
\* run() reports that it was stopped, whatever it was just dispatching; once
\* run() is closing the adapters, its caller reports it.
Cancel ==
    /\ ~handlers /\ ~cancelled
    /\ cancelled' = TRUE
    /\ \/ /\ pc \in InFlight \cup {"backoff", "waiting", "subbackoff", "reconnect",
                                   "sleep", "notifying", "printing"}
          /\ IF pc \in InFlight THEN Release ELSE UNCHANGED budgetVars
          /\ shutdown' = TRUE
          /\ Finish("stopped")
       \/ /\ pc = "closing"
          /\ pc' = "done"
          /\ printed' = Append(printed, "stopped") /\ exit' = "stopped"
          /\ UNCHANGED <<shutdown, budgetVars>>
    /\ UNCHANGED <<coVars, hits, streamVars, chainVars, handlers, overdue>>

-----------------------------------------------------------------------------
(***************************************************************************)
(* The stream's task, the chain, the clock and the signals.                *)
(***************************************************************************)
Enqueue(item) == queue' = Append(queue, item)

\* One RPC of the stream: it is charged, or the budget ends the stream.
StreamCalls(next) ==
    /\ IF Funds(StreamCost)
       THEN ChargeStream /\ sub' = next /\ UNCHANGED queue
       ELSE sub' = "dead" /\ Enqueue(Raised("budget")) /\ UNCHANGED budgetVars
    /\ UNCHANGED <<pc, hits, coVars, notified, chainVars, signalVars, endVars>>

StreamAttaches == sub = "attaching" /\ StreamCalls("open")

\* It looks up a hash or a block, or unpins old ones.
StreamLooksUp == sub = "open" /\ StreamCalls("open")

\* It reports the best block, which may have skipped some.
StreamNotifies ==
    /\ sub = "open" /\ notified # head /\ Len(queue) < MaxQueue
    /\ Enqueue(Notice(head))
    /\ notified' = head
    /\ UNCHANGED <<pc, hits, coVars, budgetVars, sub, chainVars, signalVars, endVars>>

\* It ends with an exception, which waits for its place in a full queue.
StreamBreaks ==
    /\ sub \in {"attaching", "open"}
    /\ \E e \in Errors :
          /\ IF e = "failed" THEN "stream_failed" \in Faults ELSE e \in Faults
          /\ e = "unsupported" => sub = "attaching"
          /\ Enqueue(Raised(e))
    /\ sub' = "dead"
    /\ UNCHANGED <<pc, hits, coVars, budgetVars, notified, chainVars, signalVars, endVars>>

\* A block on top, or another branch: a new one, or one it was on before.
NewHead ==
    /\ pc # "done"
    /\ \/ /\ head.height < MaxHeight
          /\ head' = [head EXCEPT !.height = @ + 1]
          /\ UNCHANGED reorgs
       \/ /\ reorgs < MaxReorgs
          /\ \E h \in {n \in 0 .. MaxHeight : n \in head.height - 1 .. head.height + 1},
                f \in 0 .. reorgs + 1 :
                f # head.fork /\ head' = [height |-> h, fork |-> f]
          /\ reorgs' = reorgs + 1
    /\ UNCHANGED <<pc, hits, coVars, budgetVars, streamVars, signalVars, endVars>>

DeadlinePasses ==
    /\ HasDeadline /\ ~overdue /\ pc # "done"
    /\ overdue' = TRUE
    /\ UNCHANGED <<pc, hits, coVars, budgetVars, streamVars, chainVars, handlers, shutdown, cancelled, endVars>>

\* The signal handlers are removed before the adapters are closed.
Signal ==
    /\ handlers /\ ~shutdown /\ pc \notin {"closing", "done"}
    /\ shutdown' = TRUE
    /\ UNCHANGED <<pc, hits, coVars, budgetVars, streamVars, chainVars, handlers, overdue, cancelled, endVars>>

-----------------------------------------------------------------------------
Init ==
    /\ loop \in Loops
    /\ pc = "enter" /\ stage = "baseline" /\ what = "obs"
    /\ at = NoBlock /\ last = NoBlock /\ lastMarker = -1 /\ skipped = NoBlock
    /\ hits = 0 /\ consumed = 0 /\ reserved = 0
    /\ sub = "closed" /\ queue = << >> /\ notified = NoBlock
    /\ head = [height |-> 0, fork |-> 0] /\ reorgs = 0
    /\ handlers \in (IF HandlersMayFail THEN BOOLEAN ELSE {TRUE})
    /\ shutdown = FALSE /\ overdue = FALSE /\ cancelled = FALSE
    /\ printed = << >> /\ exit = "none"

ReadStep ==
    \/ FetchUnfunded \/ FetchOverdue \/ FetchStarts
    \/ ReadFails \/ Retry \/ ReadOverdue \/ ReadSucceeds
    \/ ReadRateLimited \/ ReadHeadGone \/ ReadEnds \/ BackoffEnds

RunnerStep ==
    \/ Enter \/ EnterWithout \/ TopEnds \/ PollAgain \/ Subscribe
    \/ ReadStep \/ Evaluate \/ EvaluateRaises \/ Notified \/ Sleep
    \/ AwaitStarts \/ AwaitEnds \/ AwaitItem \/ AwaitError \/ AwaitUnsupported \/ Reconnect
    \/ Printed \/ Close

Next ==
    \/ RunnerStep \/ Cancel
    \/ StreamAttaches \/ StreamLooksUp \/ StreamNotifies \/ StreamBreaks
    \/ NewHead \/ DeadlinePasses \/ Signal

Spec == Init /\ [][Next]_vars

\* The event loop runs: the coroutine is resumed whenever what it awaits is
\* over.  A read ends some way, if only by the provider's own time-out, and an
\* adapter's thread returns.  The timer of asyncio.timeout fires in the middle of
\* whatever a read is doing.  Nothing makes the stream speak, the chain grow, a
\* signal come, or a transient failure end.
FairSpec == Spec /\ WF_vars(RunnerStep) /\ WF_vars(ReadOverdue)

-----------------------------------------------------------------------------
(***************************************************************************)
(* Properties.                                                             *)
(***************************************************************************)
Statuses == {"matched", "timeout", "stopped", "budget_exhausted",
             "provider_error", "internal_error", "user_error"}

Item == [block : Block \cup {NoBlock}, error : Errors \cup {"none"}]

TypeOK ==
    /\ loop \in AllLoops
    /\ pc \in {"enter", "top", "fetch", "backoff", "evaluate", "notifying", "sleep",
               "await", "waiting", "subbackoff", "reconnect", "printing", "closing", "done"} \cup InFlight
    /\ stage \in {"baseline", "items"}
    /\ what \in {"obs", "epoch"}
    /\ {at, last, notified, skipped} \subseteq Block \cup {NoBlock}
    /\ pc = "evaluate" => at \in Block
    /\ lastMarker \in -1 .. MaxHeight
    /\ hits \in 0 .. MaxHits + 1
    /\ consumed \in Nat /\ reserved \in Nat
    /\ sub \in {"closed", "attaching", "open", "dead"}
    /\ queue \in Seq(Item)
    /\ head \in Block /\ reorgs \in 0 .. MaxReorgs
    /\ {handlers, shutdown, overdue, cancelled} \subseteq BOOLEAN
    /\ printed \in Seq(Statuses)
    /\ exit \in Statuses \cup {"none"}

\* --max-ru is never exceeded, although the stream's task charges its own RPCs
\* while a read is in flight: what the read will cost is already set aside.
BudgetRespected == MaxRu # NoLimit => consumed + reserved <= MaxRu

\* Exactly the read in flight is reserved for: no way out of a read (value, rate
\* limit, vanished head, deadline, cancellation, error) leaks its reservation,
\* and none returns it twice.
ReservedForTheRead ==
    reserved = IF pc \in InFlight THEN Cost(what) ELSE 0

\* A run ends with one payload, and returns that payload's exit code ("emits
\* exactly one envelope on exit", output/schema.py:7).
OnePayload == pc = "done" => printed = <<exit>>

\* The payload says why the run ended: "stopped" only after a shutdown request,
\* "timeout" only after the deadline.
ExitIsTruthful ==
    /\ exit = "stopped" => shutdown \/ cancelled
    /\ exit = "timeout" => overdue

\* A watcher that idles on an open stream has dealt with the newest block the
\* stream reported, across reconnects, reorganisations and rate limits: unless
\* it could not be read, it was evaluated or is below what was, and an epoch
\* loop has evaluated its epoch.
IdleIsCurrent ==
    /\ pc \in {"await", "waiting"} /\ sub = "open" /\ queue = << >>
    /\ notified \notin {NoBlock, skipped}
    => /\ loop \in {"head", "storage"} =>
              notified = last \/ notified.height < last.height
       /\ loop = "epoch_head" => Marker(notified) = lastMarker

\* The blocks that a head or storage loop evaluates never go down in height:
\* a queued notification older than the baseline, or than a later read, is
\* dropped (a window primitive would otherwise see time run backwards).
EvaluationsMoveForward ==
    [][last' # last /\ NoBlock \notin {last, last'} => last'.height >= last.height]_vars

\* --max-runtime ends every loop, whatever the endpoint does.
DeadlineEnds == overdue ~> pc = "done"

\* SIGTERM or SIGINT ends a watcher that has its first value, if the endpoint
\* does not keep one read failing for ever.
ShutdownEnds ==
    []<>(pc \notin InFlight) =>
        ((shutdown /\ (stage = "items" \/ loop \in Polling)) ~> pc = "done")

\* "Handles signals (SIGTERM, SIGINT) for clean exit" (spec.md:900).
ShutdownStops == shutdown ~> pc = "done"
=============================================================================
