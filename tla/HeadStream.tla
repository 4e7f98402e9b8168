----------------------------- MODULE HeadStream -----------------------------
(***************************************************************************)
(* _HeadSubscription of providers/bittensor.py: best heads out of a        *)
(* chainHead_v1_follow subscription (or the legacy one), through a bounded *)
(* queue, to a consumer that may close the stream at any time.             *)
(*                                                                         *)
(* The node is external: it announces blocks in order, pins every block it *)
(* announces until it is told otherwise, and answers RPCs.  A block is     *)
(* identified with the path from the first finalized block to it.          *)
(***************************************************************************)
EXTENDS Integers, Sequences, FiniteSets

CONSTANTS
    NoValue,        \* Python's None
    Labels,         \* what tells the children of a block apart
    MaxHeight,      \* bound on the height of the tree of blocks
    MaxBlocks,      \* bound on the blocks announced
    MaxBest,        \* bound on the best heads announced
    MaxWire,        \* bound on the notifications under way
    QueueSize,      \* capacity of the queue (64)
    Batch           \* _CHAINHEAD_UNPIN_BATCH (32)

VARIABLES
    node,           \* the node's tree, best and final block, and its pins
    wire,           \* notifications under way
    follow,         \* the handler's bookkeeping, and what it waits for
    heads           \* the stream: its task, its queue, and how far it is closed

followVars == <<node, wire, follow, heads>>

-----------------------------------------------------------------------------
(* The node. *)

Prefix(b, c) == Len(b) <= Len(c) /\ SubSeq(c, 1, Len(b)) = b
Related(b, c) == Prefix(b, c) \/ Prefix(c, b)
Parent(b) == SubSeq(b, 1, Len(b) - 1)
Blocks == UNION {[1..n -> Labels] : n \in 0..MaxHeight}
Carried(n) == SubSeq(node.best, 1, n)

\* Blocks are announced after their parent; those that can still become final.
Live(b) == b \in node.tree /\ Prefix(node.final, b)

Tell(m) == Len(wire) < MaxWire /\ wire' = Append(wire, m)
\* What the node does once the handler is gone makes no difference.
Heard == heads.task \in {"running", "put"}
Following == node.on /\ ~node.stopped /\ Heard

BlockAnnounced ==
    /\ Following /\ Cardinality(node.tree) < MaxBlocks
    /\ \E b \in Blocks \ (node.tree \cup {<<>>}) :
        /\ Live(Parent(b))
        /\ node' = [node EXCEPT !.tree = @ \cup {b}, !.pins = @ \cup {b}]
        /\ Tell([event |-> "newBlock", block |-> b])
    /\ UNCHANGED <<follow, heads>>

BestAnnounced ==
    /\ Following /\ Len(node.sent) < MaxBest
    /\ \E b \in node.tree \ {node.best} :
        /\ Live(b)
        /\ node' = [node EXCEPT !.best = b, !.sent = Append(@, b)]
        /\ Tell([event |-> "bestBlockChanged", block |-> b])
    /\ UNCHANGED <<follow, heads>>

FinalityAnnounced ==
    /\ Following
    /\ \E b \in node.tree \ {node.final} :
        LET pruned == {c \in node.tree : Live(c) /\ ~Related(b, c)}
        IN /\ Live(b) /\ Prefix(b, node.best)
           /\ node' = [node EXCEPT !.final = b]
           /\ Tell([event |-> "finalized", pruned |-> pruned,
                    final |-> [n \in 1..(Len(b) - Len(node.final)) |->
                                    SubSeq(b, 1, Len(node.final) + n)]])
    /\ UNCHANGED <<follow, heads>>

FollowStopped ==
    /\ Following
    /\ node' = [node EXCEPT !.stopped = TRUE]
    /\ Tell([event |-> "stop"])
    /\ UNCHANGED <<follow, heads>>

\* chain_subscribeNewHeads: the numbers of the best heads.
LegacyHead ==
    /\ node.legacy /\ Heard /\ Len(node.sent) < MaxBest
    /\ \E b \in Blocks :
        /\ Len(b) \in 1..(Len(node.best) + 1)
        /\ node' = [node EXCEPT !.best = b, !.sent = Append(@, b)]
        /\ Tell([event |-> "header", number |-> Len(b)])
    /\ UNCHANGED <<follow, heads>>

NodeStep == BlockAnnounced \/ BestAnnounced \/ FinalityAnnounced \/ FollowStopped
            \/ LegacyHead

-----------------------------------------------------------------------------
(* A stream: a task that puts items on a queue, at the end an error if there *)
(* was one, and always the sentinel; the consumer takes them.                *)

BlockRef(b, n) == [kind |-> "head", block |-> b, number |-> n]
Error(e) == [kind |-> "error", error |-> e]
Sentinel == [kind |-> "end"]

NewStream == [task |-> "unstarted", item |-> Sentinel, queue |-> <<>>,
              cancelled |-> FALSE, close |-> "open"]
Puts(s, item) == [s EXCEPT !.task = "put", !.item = item]
PutsLast(s, item) == [s EXCEPT !.task = "put_last", !.item = item]
Ends(s) == [s EXCEPT !.task = "finally", !.item = Sentinel]

\* Queue.put: waits while the queue is full.  What follows depends on the item.
PutDone(s) ==
    LET stored == [s EXCEPT !.queue = Append(@, s.item)]
    IN CASE s.task = "put" -> [stored EXCEPT !.task = "running"]
         [] s.task = "put_last" -> Ends(stored)
         [] s.task = "finally" -> [stored EXCEPT !.task = "done"]
MayPut(s, size) == /\ s.task \in {"put", "put_last", "finally"}
                   /\ Len(s.queue) < size /\ ~s.cancelled

\* A cancellation is delivered where the task waits: the sentinel follows,
\* unless it was being put already.
Unwound(s) == [(IF s.task = "finally" THEN [s EXCEPT !.task = "done"] ELSE Ends(s))
                EXCEPT !.cancelled = FALSE]

\* Mutant: the queue is not drained.
MutCancelledUndrained(s) ==
    [s EXCEPT !.cancelled = s.task \notin {"unstarted", "done"},
              !.close = IF s.task = "unstarted" THEN "closed" ELSE "await"]
\* aclose: cancel and drain, without a pause; then wait for the task.
Cancelled(s) ==
    [s EXCEPT !.queue = <<>>,
              !.cancelled = s.task \notin {"unstarted", "done"},
              !.close = IF s.task = "unstarted" THEN "closed" ELSE "await"]
MayClose(s) == s.close = "open"
Awaited(s) == s.close = "await" /\ s.task = "done"

-----------------------------------------------------------------------------
(* The handler. *)

NewFollow == [mode |-> "chainHead", step |-> "idle", id |-> FALSE, stopped |-> FALSE,
              pinned |-> {}, pending |-> {}, numbers |-> <<>>, final |-> NoValue,
              arg |-> {}]

FollowInit(initial) ==
    /\ node = [tree |-> {<<>>}, best |-> <<>>, final |-> <<>>, pins |-> initial,
               on |-> FALSE, stopped |-> FALSE, legacy |-> FALSE, sent |-> <<>>,
               initial |-> initial, misused |-> FALSE]
    /\ wire = <<>>
    /\ follow = NewFollow
    /\ heads = NewStream

Running == heads.task = "running" /\ ~heads.cancelled
Fails(e) == heads' = PutsLast(heads, Error(e))

\* The first __anext__ starts the task, which subscribes.
HeadsStart ==
    /\ heads.task = "unstarted" /\ heads.close = "open"
    /\ heads' = [heads EXCEPT !.task = "running"]
    /\ follow' = [follow EXCEPT !.step = "subscribe"]
    /\ UNCHANGED <<node, wire>>

\* _subscribe_chainhead: the node answers with the finalized blocks it keeps.
Subscribed ==
    /\ Running /\ follow.step = "subscribe" /\ follow.mode = "chainHead"
    /\ node' = [node EXCEPT !.on = TRUE]
    /\ wire' = <<[event |-> "initialized", older |-> node.initial \ {<<>>}]>>
    /\ follow' = [follow EXCEPT !.step = "idle", !.id = TRUE]
    /\ UNCHANGED heads

\* _chainhead_unavailable: the node has no such method.
FallsBack ==
    /\ Running /\ follow.step = "subscribe" /\ follow.mode = "chainHead"
    /\ follow' = [follow EXCEPT !.mode = "legacy"]
    /\ UNCHANGED <<node, wire, heads>>
SubscribedLegacy ==
    /\ Running /\ follow.step = "subscribe" /\ follow.mode = "legacy"
    /\ node' = [node EXCEPT !.legacy = TRUE]
    /\ follow' = [follow EXCEPT !.step = "idle"]
    /\ UNCHANGED <<wire, heads>>

Message == wire[1]
Receives(event) == /\ Running /\ follow.step = "idle" /\ wire # <<>>
                   /\ Message.event = event
                   /\ wire' = Tail(wire)
                   /\ UNCHANGED node
Known(b) == b \in DOMAIN follow.numbers
Numbers(b, n) == [c \in DOMAIN follow.numbers \cup {b} |->
                    IF c = b THEN n ELSE follow.numbers[c]]

\* _initialize_chainhead, up to the header of the finalized block
Initialized ==
    /\ Receives("initialized")
    /\ follow' = [follow EXCEPT !.pinned = @ \cup {<<>>} \cup Message.older,
                                !.arg = Message.older, !.step = "header"]
    /\ UNCHANGED heads

HeaderRead ==
    /\ Running /\ follow.step = "header"
    /\ follow' = [follow EXCEPT !.numbers = Numbers(<<>>, 0), !.final = <<>>,
                                !.step = IF follow.arg = {} THEN "idle" ELSE "unpin"]
    /\ UNCHANGED <<node, wire, heads>>

\* _record_chainhead_block
BlockRecorded ==
    /\ Receives("newBlock")
    /\ LET b == Message.block
       IN IF Known(Parent(b))
          THEN /\ follow' = [follow EXCEPT !.pinned = @ \cup {b},
                                           !.numbers = Numbers(b, @[Parent(b)] + 1)]
               /\ UNCHANGED heads
          ELSE Fails("decode") /\ UNCHANGED follow

\* _emit_chainhead_best
BestEmitted ==
    /\ Receives("bestBlockChanged")
    /\ LET b == Message.block
       IN IF Known(b) THEN heads' = Puts(heads, BlockRef(b, follow.numbers[b]))
                      ELSE Fails("decode")
    /\ UNCHANGED follow

\* Mutant: what was pruned stays pinned.
MutObsoleteFinals(final, pruned) ==
    ({follow.final} \cup {final[n] : n \in 1..Len(final)}) \ {final[Len(final)]}
\* _record_chainhead_finality
Obsolete(final, pruned) ==
    LET latest == final[Len(final)]
    IN (pruned \cup {follow.final} \cup {final[n] : n \in 1..Len(final)}) \ {latest}

FinalityRecorded ==
    /\ Receives("finalized")
    /\ LET pending == follow.pending
                        \cup (Obsolete(Message.final, Message.pruned) \cap follow.pinned)
           full == Cardinality(pending) >= Batch
       IN follow' = [follow EXCEPT !.final = Message.final[Len(Message.final)],
                                   !.pending = pending,
                                   !.arg = IF full THEN pending ELSE {},
                                   !.step = IF full THEN "unpin" ELSE "idle"]
    /\ UNCHANGED heads

\* _unpin: what is unpinned is forgotten.  The node rejects a hash that is not
\* pinned.
Unpinned ==
    /\ Running /\ follow.step = "unpin"
    /\ node' = [node EXCEPT !.pins = @ \ follow.arg,
                            !.misused = ~(follow.arg \subseteq node.pins)]
    /\ follow' = [follow EXCEPT
            !.pinned = @ \ follow.arg, !.pending = @ \ follow.arg,
            !.numbers = [b \in DOMAIN @ \ follow.arg |-> @[b]],
            !.arg = {}, !.step = "idle"]
    /\ UNCHANGED <<wire, heads>>

\* The handler returns True: the request for notifications ends.
StopReceived ==
    /\ Receives("stop")
    /\ follow' = [follow EXCEPT !.stopped = TRUE]
    /\ Fails("stopped")

\* _subscribe_legacy: the hash of the notified number is looked up, later.
LegacyReceived ==
    /\ Receives("header")
    /\ follow' = [follow EXCEPT !.step = "lookup", !.arg = {Message.number}]
    /\ UNCHANGED heads
LegacyLookup ==
    /\ Running /\ follow.step = "lookup"
    /\ \E n \in follow.arg :
        heads' = IF n <= Len(node.best) THEN Puts(heads, BlockRef(Carried(n), n))
                                        ELSE PutsLast(heads, Error("unresolved"))
    /\ follow' = [follow EXCEPT !.step = "idle", !.arg = {}]
    /\ UNCHANGED <<node, wire>>

\* An RPC fails, the budget is exhausted, or the connection is lost.
FollowFails ==
    /\ Running
    /\ Fails("provider")
    /\ UNCHANGED <<node, wire, follow>>

HeadPut == /\ MayPut(heads, QueueSize)
           /\ heads' = PutDone(heads)
           /\ UNCHANGED <<node, wire, follow>>
HeadsUnwound == /\ heads.cancelled
                /\ heads' = Unwound(heads)
                /\ UNCHANGED <<node, wire, follow>>

HandlerStep ==
    \/ Subscribed \/ FallsBack \/ SubscribedLegacy \/ Initialized \/ HeaderRead
    \/ BlockRecorded \/ BestEmitted \/ FinalityRecorded \/ Unpinned \/ StopReceived
    \/ LegacyReceived \/ LegacyLookup
TaskStep == HandlerStep \/ HeadPut \/ HeadsUnwound

\* aclose.  The unfollow request may fail; that is ignored.
HeadsCancel == /\ MayClose(heads)
               /\ heads' = Cancelled(heads)
               /\ UNCHANGED <<node, wire, follow>>
HeadsClosed == /\ Awaited(heads)
               /\ heads' = [heads EXCEPT !.close = "closed"]
               /\ node' = [node EXCEPT !.on = node.on /\ (follow.stopped \/ ~follow.id)]
               /\ follow' = NewFollow
               /\ UNCHANGED wire

-----------------------------------------------------------------------------
(* A node that keeps the protocol is never misunderstood: every block that   *)
(* it names as a parent or as the best one is known, with its true height,   *)
(* in spite of what was unpinned and forgotten.  The node never rejects an   *)
(* unpin, keeps the blocks that may still matter, and keeps no others than a *)
(* batch, once the handler has caught up (bittensor.py:2013-2091).           *)
CaughtUp == Running /\ follow.mode = "chainHead" /\ follow.step = "idle" /\ wire = <<>>
FollowIsExact ==
    /\ ~(heads.item.kind = "error" /\ heads.item.error = "decode")
    /\ \A i \in 1..Len(heads.queue) :
        heads.queue[i].kind = "head" => heads.queue[i].number = Len(heads.queue[i].block)
    /\ ~node.misused
    /\ CaughtUp /\ node.on =>
        /\ {b \in node.tree : Live(b)} \subseteq node.pins
        /\ Cardinality({b \in node.pins : ~Live(b)}) < Batch
=============================================================================
