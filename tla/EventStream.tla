----------------------------- MODULE EventStream -----------------------------
(***************************************************************************)
(* _EventSubscription of providers/bittensor.py: for each best head, the   *)
(* events of that block that pass the filter.  Its task consumes a head    *)
(* stream, which it closes when it ends; the runtime consumes its queue.   *)
(* Or the runtime consumes the heads (kind "heads").                       *)
(***************************************************************************)
EXTENDS HeadStream

CONSTANTS
    Matching,       \* the labels of the blocks that carry a matching event
    EventQueueSize, \* capacity of the queue of events (1024)
    Initial         \* the sets of blocks that a node may keep finalized

\* The blocks from before the first finalized one are not descendants of it.
StreamAssumption ==
    /\ Batch \in Nat \ {0} /\ QueueSize \in Nat \ {0} /\ EventQueueSize \in Nat \ {0}
    /\ NoValue \notin Seq(Labels)
    /\ \A older \in Initial : IsFiniteSet(older) /\ older \cap Seq(Labels) = {}

VARIABLES
    kind,           \* what the runtime consumes: "heads" or "events"
    events,         \* the stream of events
    loop,           \* what the task of the events waits for, and its head
    got             \* history: what the runtime received

streamVars == <<followVars, kind, events, loop, got>>

-----------------------------------------------------------------------------
IdleLoop == [at |-> "idle", head |-> NoValue]
Carries(b) == b # <<>> /\ b[Len(b)] \in Matching
EventOf(b) == [kind |-> "event", block |-> b]

Init ==
    /\ \E initial \in Initial : FollowInit({<<>>} \cup initial)
    /\ kind \in {"heads", "events"}
    /\ events = NewStream
    /\ loop = IdleLoop
    /\ got = <<>>

\* The stream that the runtime consumes.
Front == IF kind = "heads" THEN heads ELSE events
Opened == Front.close = "open"
Ended == got # <<>> /\ got[Len(got)].kind # "head" /\ got[Len(got)].kind # "event"

-----------------------------------------------------------------------------
(* _poll_loop *)

Polling(place) == /\ events.task = "running" /\ ~events.cancelled
                  /\ loop.at = place

EventsStart ==
    /\ kind = "events" /\ events.task = "unstarted" /\ Opened
    /\ events' = [events EXCEPT !.task = "running"]
    /\ loop' = [loop EXCEPT !.at = "head"]
    /\ UNCHANGED <<followVars, kind, got>>

\* Mutant: an error of the heads ends the events silently.
MutLoopSwallows ==
    /\ Polling("head") /\ heads.queue # <<>>
    /\ heads' = [heads EXCEPT !.queue = Tail(@)]
    /\ LET item == heads.queue[1]
       IN IF item.kind = "head"
          THEN loop' = [at |-> "events", head |-> item.block] /\ UNCHANGED events
          ELSE events' = Ends(events) /\ UNCHANGED loop
    /\ UNCHANGED <<node, wire, follow, kind, got>>

\* __anext__ of the heads: an error is raised, the sentinel ends the iteration.
LoopTakes ==
    /\ Polling("head") /\ heads.queue # <<>>
    /\ heads' = [heads EXCEPT !.queue = Tail(@)]
    /\ LET item == heads.queue[1]
       IN CASE item.kind = "head" ->
                 /\ loop' = [at |-> "events", head |-> item.block]
                 /\ UNCHANGED events
            [] item.kind = "error" ->
                 /\ events' = PutsLast(events, item)
                 /\ UNCHANGED loop
            [] item.kind = "end" ->
                 /\ events' = PutsLast(events, Error("ended"))
                 /\ UNCHANGED loop
    /\ UNCHANGED <<node, wire, follow, kind, got>>

\* Mutant: the events are read at the best block.
MutEventsOfBest ==
    /\ Polling("events")
    /\ loop' = [loop EXCEPT !.at = "head"]
    /\ events' = IF Carries(node.best) THEN Puts(events, EventOf(node.best)) ELSE events
    /\ UNCHANGED <<followVars, kind, got>>

\* The events of the block and its time, both by its hash; those that match
\* are put on the queue.
EventsRead ==
    /\ Polling("events")
    /\ loop' = [loop EXCEPT !.at = "head"]
    /\ events' = IF Carries(loop.head) THEN Puts(events, EventOf(loop.head)) ELSE events
    /\ UNCHANGED <<followVars, kind, got>>
LoopFails ==
    /\ events.task = "running" /\ ~events.cancelled /\ loop.at = "events"
    /\ events' = PutsLast(events, Error("provider"))
    /\ UNCHANGED <<followVars, kind, loop, got>>

\* finally: the heads are closed before the sentinel is put.
HeadsAreShut == heads.close = "closed"
LoopShuts ==
    /\ kind = "events" /\ events.task = "finally" /\ ~events.cancelled
    /\ HeadsCancel
    /\ UNCHANGED <<kind, events, loop, got>>
EventPut ==
    /\ MayPut(events, EventQueueSize)
    /\ events.task = "finally" => HeadsAreShut
    /\ events' = PutDone(events)
    /\ UNCHANGED <<followVars, kind, loop, got>>
EventsUnwound ==
    /\ events.cancelled
    /\ events' = Unwound(events)
    /\ UNCHANGED <<followVars, kind, loop, got>>

LoopStep == LoopTakes \/ EventsRead \/ LoopShuts
            \/ EventPut \/ EventsUnwound

-----------------------------------------------------------------------------
(* The runtime. *)

RuntimeTakes ==
    /\ Opened /\ Front.queue # <<>> /\ ~Ended
    /\ got' = Append(got, Front.queue[1])
    /\ IF kind = "heads" THEN heads' = [heads EXCEPT !.queue = Tail(@)] /\ UNCHANGED events
                         ELSE events' = [events EXCEPT !.queue = Tail(@)] /\ UNCHANGED heads
    /\ UNCHANGED <<node, wire, follow, kind, loop>>

RuntimeStarts == IF kind = "heads" THEN HeadsStart /\ UNCHANGED <<kind, events, loop, got>>
                                   ELSE EventsStart
\* The task of the events starts the task of the heads when it asks for one.
LoopStarts == /\ Polling("head") /\ HeadsStart
              /\ UNCHANGED <<kind, events, loop, got>>

RuntimeCloses ==
    /\ Opened
    /\ IF kind = "heads" THEN HeadsCancel /\ UNCHANGED events
       ELSE events' = Cancelled(events) /\ UNCHANGED followVars
    /\ UNCHANGED <<kind, loop, got>>
EventsClosed ==
    /\ Awaited(events)
    /\ events' = [events EXCEPT !.close = "closed"]
    /\ UNCHANGED <<followVars, kind, loop, got>>

Unlooped == UNCHANGED <<kind, events, loop, got>>
ClientStep == \/ TaskStep /\ Unlooped
              \/ HeadsClosed /\ Unlooped
              \/ LoopStarts \/ LoopStep \/ EventsClosed
Next ==
    \/ NodeStep /\ Unlooped
    \/ ClientStep
    \/ FollowFails /\ Unlooped
    \/ LoopFails
    \/ RuntimeStarts \/ RuntimeTakes \/ RuntimeCloses

Spec == Init /\ [][Next]_streamVars

-----------------------------------------------------------------------------
(* The runtime receives heads in the order in which the node announced them, *)
(* none twice and none skipped, and of every one of them its events: the     *)
(* n-th item that it got is of the n-th announced head that it wants         *)
(* (bittensor.py:1951-2015, 2211-2263).                                      *)
Wanted(b) == kind = "heads" \/ Carries(b)
Rank(p) == Cardinality({k \in 1..p : Wanted(node.sent[k])})
Received == IF Ended THEN Len(got) - 1 ELSE Len(got)
InOrder ==
    ~node.legacy => \A n \in 1..Received :
        \E p \in 1..Len(node.sent) : /\ Wanted(node.sent[p]) /\ Rank(p) = n
                                     /\ got[n].block = node.sent[p]

(* A stream that fails or ends tells its consumer why, by an error, before   *)
(* anything else ends it; a consumer is never left waiting at the queue of a *)
(* task that is gone (bittensor.py:1951-1978, 2253-2263).                    *)
EndIsTold ==
    /\ Ended => got[Len(got)].kind = "error"
    /\ Front.task = "done" /\ Opened /\ Front.queue = <<>> => Ended

(* aclose is never stuck: whatever the task waits for when it is cancelled,  *)
(* room in a full queue, an RPC or the close of the other stream, one of the *)
(* tasks can go on until the close has ended.  CloseGoesOn lists what they   *)
(* wait for: the guards of HeadsUnwound, HeadPut and HeadsClosed, and of     *)
(* EventsUnwound, EventPut, LoopShuts and EventsClosed                       *)
(* (bittensor.py:2149-2170, 2391-2401).                                      *)
CloseGoesOn ==
    \/ heads.cancelled \/ MayPut(heads, QueueSize) \/ Awaited(heads)
    \/ events.cancelled \/ Awaited(events)
    \/ MayPut(events, EventQueueSize) /\ (events.task = "finally" => HeadsAreShut)
    \/ kind = "events" /\ events.task = "finally" /\ ~events.cancelled /\ MayClose(heads)
CloseIsNeverStuck == Front.close = "await" => CloseGoesOn
=============================================================================
