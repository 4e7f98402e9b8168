------------------------- MODULE EventStreamProofs -------------------------
(***************************************************************************)
(* What the streams of heads and of events tell the runtime: for a tree of *)
(* blocks of any shape, queues of any size, any batch, any number of       *)
(* notifications under way and any cancellation or failure.                *)
(***************************************************************************)
EXTENDS EventStream, FiniteSetTheorems, SequenceTheorems, TLAPS

-----------------------------------------------------------------------------
(* Types. *)

Chain == Seq(Labels)
Place == Chain \cup UNION Initial

Items == [kind : {"head"}, block : Chain, number : Nat]
            \cup [kind : {"event"}, block : Chain]
            \cup [kind : {"error"}, error : {"decode", "provider", "stopped", "unresolved", "ended"}]
            \cup [kind : {"end"}]
Good(item) == item.kind \in {"head", "event"}
Tasks == {"unstarted", "running", "put", "put_last", "finally", "done"}
Streams == [task : Tasks, item : Items, queue : Seq(Items), cancelled : BOOLEAN,
            close : {"open", "await", "closed"}]

Nodes == [tree : SUBSET Chain, best : Chain, final : Chain, pins : SUBSET Place,
          on : BOOLEAN, stopped : BOOLEAN, legacy : BOOLEAN, sent : Seq(Chain),
          initial : SUBSET Place, misused : BOOLEAN]
Messages == [event : {"newBlock", "bestBlockChanged"}, block : Chain]
                \cup [event : {"finalized"}, pruned : SUBSET Chain, final : Seq(Chain) \ {<<>>}]
                \cup [event : {"initialized"}, older : SUBSET Place]
                \cup [event : {"header"}, number : Nat]
                \cup [event : {"stop"}]

NumbersTyped(f) == f = [b \in DOMAIN f |-> f[b]] /\ DOMAIN f \subseteq Place
                      /\ \A b \in DOMAIN f : f[b] \in Nat
FollowTyped ==
    /\ follow = [mode |-> follow.mode, step |-> follow.step, id |-> follow.id,
                 stopped |-> follow.stopped, pinned |-> follow.pinned,
                 pending |-> follow.pending, numbers |-> follow.numbers,
                 final |-> follow.final, arg |-> follow.arg]
    /\ follow.mode \in {"chainHead", "legacy"}
    /\ follow.step \in {"idle", "subscribe", "header", "unpin", "lookup"}
    /\ follow.pinned \in SUBSET Place /\ follow.pending \in SUBSET Place
    /\ NumbersTyped(follow.numbers)
    /\ follow.final \in Chain \cup {NoValue}
    /\ follow.step = "lookup" => follow.arg \subseteq Nat
    /\ follow.step \in {"header", "unpin"} => follow.arg \subseteq Place

FollowType == /\ node \in Nodes /\ wire \in Seq(Messages)
              /\ FollowTyped /\ heads \in Streams

-----------------------------------------------------------------------------
(* Streams. *)

LEMMA ErrorTyped ==
    ASSUME NEW e \in {"decode", "provider", "stopped", "unresolved", "ended"}
    PROVE  Error(e) \in Items /\ Error(e).kind = "error"
  BY DEF Error, Items

LEMMA SentinelTyped == Sentinel \in Items /\ Sentinel.kind = "end"
  BY DEF Sentinel, Items

LEMMA PutsTyped ==
    ASSUME NEW s \in Streams, NEW item \in Items
    PROVE  Puts(s, item) \in Streams /\ PutsLast(s, item) \in Streams /\ Ends(s) \in Streams
  BY SentinelTyped DEF Puts, PutsLast, Ends, Streams, Tasks

LEMMA PutDoneTyped ==
    ASSUME NEW s \in Streams, s.task \in {"put", "put_last", "finally"}
    PROVE  PutDone(s) \in Streams
  <1> DEFINE stored == [s EXCEPT !.queue = Append(@, s.item)]
  <1>1. stored \in Streams
    <2>1. Append(s.queue, s.item) \in Seq(Items)
      BY DEF Streams
    <2>2. QED
      BY <2>1 DEF Streams
  <1> HIDE DEF stored
  <1>2. Ends(stored) \in Streams /\ [stored EXCEPT !.task = "running"] \in Streams
        /\ [stored EXCEPT !.task = "done"] \in Streams
    BY <1>1, SentinelTyped, PutsTyped DEF Streams, Tasks
  <1>3. PutDone(s) = CASE s.task = "put" -> [stored EXCEPT !.task = "running"]
                       [] s.task = "put_last" -> Ends(stored)
                       [] s.task = "finally" -> [stored EXCEPT !.task = "done"]
    BY DEF PutDone, stored
  <1>4. QED
    BY <1>1, <1>2, <1>3

LEMMA StopTyped ==
    ASSUME NEW s \in Streams
    PROVE  /\ Unwound(s) \in Streams /\ Cancelled(s) \in Streams
           /\ [s EXCEPT !.close = "closed"] \in Streams
           /\ [s EXCEPT !.task = "running"] \in Streams
           /\ s.queue # <<>> => [s EXCEPT !.queue = Tail(@)] \in Streams /\ s.queue[1] \in Items
  <1>1. Ends(s) \in Streams
    BY SentinelTyped, PutsTyped
  <1>2. Unwound(s) \in Streams
    BY <1>1 DEF Unwound, Streams, Tasks
  <1>3. Cancelled(s) \in Streams
    <2> DEFINE c == s.task \notin {"unstarted", "done"}
               x == IF s.task = "unstarted" THEN "closed" ELSE "await"
    <2>1. Cancelled(s) = [s EXCEPT !.queue = <<>>, !.cancelled = c, !.close = x]
      BY DEF Cancelled
    <2>2. c \in BOOLEAN /\ x \in {"open", "await", "closed"} /\ <<>> \in Seq(Items)
      OBVIOUS
    <2> HIDE DEF c, x
    <2>3. QED
      BY <2>1, <2>2 DEF Streams
  <1>4. s.queue \in Seq(Items)
    BY DEF Streams
  <1>5. s.queue # <<>> => Tail(s.queue) \in Seq(Items) /\ s.queue[1] \in Items
    BY <1>4
  <1>6. QED
    BY <1>2, <1>3, <1>5 DEF Streams, Tasks

\* The steps that touch the subscription and its stream.
Taken == /\ heads.queue # <<>> /\ heads' = [heads EXCEPT !.queue = Tail(@)]
         /\ UNCHANGED <<node, wire, follow>>
FollowSteps == NodeStep \/ TaskStep \/ HeadsClosed \/ HeadsStart \/ HeadsCancel \/ FollowFails
FollowMoves == FollowSteps \/ Taken

LEMMA StepMoves ==
    ASSUME [Next]_streamVars
    PROVE  FollowMoves \/ UNCHANGED followVars
  <1>1. CASE LoopTakes
    BY <1>1 DEF LoopTakes, FollowMoves, FollowSteps, Taken
  <1>2. CASE RuntimeTakes
    <2>1. CASE kind = "heads"
      BY <1>2, <2>1 DEF RuntimeTakes, Front, FollowMoves, FollowSteps, Taken
    <2>2. CASE kind # "heads"
      BY <1>2, <2>2 DEF RuntimeTakes, followVars
    <2>3. QED
      BY <2>1, <2>2
  <1>3. CASE RuntimeStarts \/ RuntimeCloses \/ LoopStarts \/ LoopShuts
    BY <1>3 DEF RuntimeStarts, RuntimeCloses, LoopStarts, LoopShuts, EventsStart, FollowMoves, FollowSteps,
                followVars
  <1>4. CASE EventsRead \/ EventPut \/ EventsUnwound \/ EventsClosed \/ LoopFails
    BY <1>4 DEF EventsRead, EventPut, EventsUnwound, EventsClosed, LoopFails
  <1>5. CASE NodeStep \/ TaskStep \/ HeadsClosed \/ FollowFails
    BY <1>5 DEF FollowMoves, FollowSteps
  <1>6. CASE UNCHANGED streamVars
    BY <1>6 DEF streamVars, followVars
  <1>7. QED
    BY <1>1, <1>2, <1>3, <1>4, <1>5, <1>6 DEF Next, ClientStep, LoopStep

-----------------------------------------------------------------------------
(* Chains. *)

LEMMA BlocksAreChains == Blocks \subseteq Chain
  <1>1. ASSUME NEW n \in Nat, NEW b \in [1..n -> Labels]
        PROVE  b \in Seq(Labels)
    BY SeqDef
  <1>2. QED
    BY <1>1 DEF Blocks, Chain

LEMMA ChainParts ==
    ASSUME NEW b \in Chain, NEW n \in 0..Len(b)
    PROVE  /\ SubSeq(b, 1, n) \in Chain /\ Len(SubSeq(b, 1, n)) = n
           /\ \A i \in 1..n : SubSeq(b, 1, n)[i] = b[i]
  BY DEF Chain

LEMMA ChainEqual ==
    ASSUME NEW b \in Chain, NEW c \in Chain
    PROVE  b = c <=> Len(b) = Len(c) /\ \A i \in 1..Len(b) : b[i] = c[i]
  BY DEF Chain

LEMMA PrefixIs ==
    ASSUME NEW b \in Chain, NEW c \in Chain
    PROVE  Prefix(b, c) <=> Len(b) <= Len(c) /\ \A i \in 1..Len(b) : b[i] = c[i]
  <1>1. Len(b) \in Nat /\ Len(c) \in Nat
    BY DEF Chain
  <1>2. CASE Len(b) <= Len(c)
    <2> DEFINE a == SubSeq(c, 1, Len(b))
    <2>1. a \in Chain /\ Len(a) = Len(b) /\ \A i \in 1..Len(b) : a[i] = c[i]
      BY <1>1, <1>2, ChainParts
    <2>2. Prefix(b, c) <=> a = b
      BY <1>2 DEF Prefix
    <2> HIDE DEF a
    <2>3. a = b <=> \A i \in 1..Len(b) : a[i] = b[i]
      BY <2>1, ChainEqual
    <2>4. QED
      BY <1>2, <2>1, <2>2, <2>3
  <1>3. CASE ~(Len(b) <= Len(c))
    BY <1>3 DEF Prefix
  <1>4. QED
    BY <1>2, <1>3

-----------------------------------------------------------------------------
(* Type correctness of the subscription. *)

LEMMA TellTyped ==
    ASSUME wire \in Seq(Messages), NEW m \in Messages, Tell(m)
    PROVE  /\ wire' \in Seq(Messages) /\ wire' = Append(wire, m)
           /\ Len(wire') = Len(wire) + 1 /\ wire'[Len(wire) + 1] = m
           /\ \A i \in 1..Len(wire) : wire'[i] = wire[i]
  BY DEF Tell

LEMMA NodeTyped ==
    ASSUME FollowType, NodeStep
    PROVE  FollowType'
  <1>1. node \in Nodes /\ wire \in Seq(Messages) /\ FollowTyped /\ heads \in Streams
    BY DEF FollowType
  <1>2. UNCHANGED <<follow, heads>>
    BY DEF NodeStep, BlockAnnounced, BestAnnounced, FinalityAnnounced, FollowStopped, LegacyHead
  <1>3. FollowTyped' /\ (heads \in Streams)'
    BY <1>1, <1>2 DEF FollowTyped
  <1>4. CASE BlockAnnounced
    <2>1. PICK b \in Blocks :
            /\ node' = [node EXCEPT !.tree = @ \cup {b}, !.pins = @ \cup {b}]
            /\ Tell([event |-> "newBlock", block |-> b])
      BY <1>4 DEF BlockAnnounced
    <2>2. b \in Chain /\ b \in Place
      BY BlocksAreChains DEF Place
    <2>3. node' \in Nodes
      BY <1>1, <2>1, <2>2 DEF Nodes
    <2>4. [event |-> "newBlock", block |-> b] \in Messages
      BY <2>2 DEF Messages
    <2>5. QED
      BY <1>1, <1>3, <2>1, <2>3, <2>4, TellTyped DEF FollowType
  <1>5. CASE BestAnnounced
    <2>1. PICK b \in node.tree :
            /\ node' = [node EXCEPT !.best = b, !.sent = Append(@, b)]
            /\ Tell([event |-> "bestBlockChanged", block |-> b])
      BY <1>5 DEF BestAnnounced
    <2>2. b \in Chain
      BY <1>1 DEF Nodes
    <2>3. node' \in Nodes
      <3>1. Append(node.sent, b) \in Seq(Chain)
        BY <1>1, <2>2 DEF Nodes
      <3>2. QED
        BY <1>1, <2>1, <2>2, <3>1 DEF Nodes
    <2>4. [event |-> "bestBlockChanged", block |-> b] \in Messages
      BY <2>2 DEF Messages
    <2>5. QED
      BY <1>1, <1>3, <2>1, <2>3, <2>4, TellTyped DEF FollowType
  <1>6. CASE FinalityAnnounced
    <2> DEFINE Pruned(b) == {c \in node.tree : Live(c) /\ ~Related(b, c)}
               Path(b) == [n \in 1..(Len(b) - Len(node.final)) |->
                                SubSeq(b, 1, Len(node.final) + n)]
    <2>1. PICK b \in node.tree \ {node.final} :
            /\ node' = [node EXCEPT !.final = b]
            /\ Tell([event |-> "finalized", pruned |-> Pruned(b), final |-> Path(b)])
            /\ Live(b)
      BY <1>6 DEF FinalityAnnounced
    <2>2. b \in Chain /\ node.final \in Chain /\ Pruned(b) \in SUBSET Chain
      BY <1>1 DEF Nodes
    <2>3. Path(b) \in Seq(Chain) \ {<<>>}
      <3>1. Len(b) \in Nat /\ Len(node.final) \in Nat /\ Len(node.final) < Len(b)
        <4>1. Len(b) \in Nat /\ Len(node.final) \in Nat
          BY <2>2 DEF Chain
        <4>2. Len(node.final) <= Len(b) /\ \A i \in 1..Len(node.final) : node.final[i] = b[i]
          BY <2>1, <2>2, PrefixIs DEF Live
        <4>3. Len(node.final) # Len(b)
          BY <2>1, <2>2, <4>2, ChainEqual
        <4>4. QED
          BY <4>1, <4>2, <4>3
      <3>2. \A n \in 1..(Len(b) - Len(node.final)) : SubSeq(b, 1, Len(node.final) + n) \in Chain
        BY <2>2, <3>1, ChainParts
      <3>3. Len(b) - Len(node.final) \in Nat \ {0}
        BY <3>1
      <3>4. Path(b) \in Seq(Chain)
        BY <3>2, <3>3, SeqDef
      <3>5. 1 \in DOMAIN Path(b) /\ DOMAIN <<>> = {}
        BY <3>3
      <3>6. QED
        BY <3>4, <3>5
    <2> HIDE DEF Pruned, Path
    <2>4. node' \in Nodes
      BY <1>1, <2>1, <2>2 DEF Nodes
    <2>5. [event |-> "finalized", pruned |-> Pruned(b), final |-> Path(b)] \in Messages
      BY <2>2, <2>3 DEF Messages
    <2>6. QED
      BY <1>1, <1>3, <2>1, <2>4, <2>5, TellTyped DEF FollowType
  <1>7. CASE FollowStopped
    <2>1. node' \in Nodes
      BY <1>1, <1>7 DEF FollowStopped, Nodes
    <2>2. [event |-> "stop"] \in Messages
      BY DEF Messages
    <2>3. QED
      BY <1>1, <1>3, <1>7, <2>1, <2>2, TellTyped DEF FollowStopped, FollowType
  <1>8. CASE LegacyHead
    <2>1. PICK b \in Blocks :
            /\ node' = [node EXCEPT !.best = b, !.sent = Append(@, b)]
            /\ Tell([event |-> "header", number |-> Len(b)])
      BY <1>8 DEF LegacyHead
    <2>2. b \in Chain /\ Len(b) \in Nat
      BY BlocksAreChains DEF Chain
    <2>3. node' \in Nodes
      <3>1. Append(node.sent, b) \in Seq(Chain)
        BY <1>1, <2>2 DEF Nodes
      <3>2. QED
        BY <1>1, <2>1, <2>2, <3>1 DEF Nodes
    <2>4. [event |-> "header", number |-> Len(b)] \in Messages
      BY <2>2 DEF Messages
    <2>5. QED
      BY <1>1, <1>3, <2>1, <2>3, <2>4, TellTyped DEF FollowType
  <1>9. QED
    BY <1>4, <1>5, <1>6, <1>7, <1>8 DEF NodeStep

LEMMA MessageTyped ==
    ASSUME wire \in Seq(Messages), wire # <<>>
    PROVE  /\ Message \in Messages /\ Tail(wire) \in Seq(Messages)
           /\ Message.event \in {"newBlock", "bestBlockChanged"} => Message.block \in Chain
           /\ Message.event = "finalized" => Message.pruned \in SUBSET Chain
                                             /\ Message.final \in Seq(Chain) \ {<<>>}
           /\ Message.event = "initialized" => Message.older \in SUBSET Place
           /\ Message.event = "header" => Message.number \in Nat
  <1>1. wire[1] \in Messages /\ Tail(wire) \in Seq(Messages)
    OBVIOUS
  <1>2. QED
    BY <1>1 DEF Message, Messages

LEMMA FailsTyped ==
    ASSUME heads \in Streams, NEW e \in {"decode", "provider", "stopped", "unresolved", "ended"},
           Fails(e)
    PROVE  heads' \in Streams
  BY ErrorTyped, PutsTyped DEF Fails

LEMMA BlockRefTyped ==
    ASSUME NEW b \in Chain, NEW n \in Nat
    PROVE  BlockRef(b, n) \in Items
  BY DEF BlockRef, Items

LEMMA NumbersKept ==
    ASSUME NumbersTyped(follow.numbers), NEW b \in Place, NEW n \in Nat
    PROVE  NumbersTyped(Numbers(b, n))
  BY DEF NumbersTyped, Numbers

LEMMA SubscribeTyped ==
    ASSUME FollowType, Subscribed \/ FallsBack \/ SubscribedLegacy
    PROVE  FollowType'
  <1>1. node \in Nodes /\ wire \in Seq(Messages) /\ FollowTyped /\ heads \in Streams
    BY DEF FollowType
  <1>2. CASE Subscribed
    <2>1. node' = [node EXCEPT !.on = TRUE] /\ UNCHANGED heads
          /\ wire' = <<[event |-> "initialized", older |-> node.initial \ {<<>>}]>>
          /\ follow' = [follow EXCEPT !.step = "idle", !.id = TRUE]
          /\ follow.step = "subscribe"
      BY <1>2 DEF Subscribed
    <2>2. node' \in Nodes
      BY <1>1, <2>1 DEF Nodes
    <2>3. [event |-> "initialized", older |-> node.initial \ {<<>>}] \in Messages
      BY <1>1 DEF Nodes, Messages
    <2>4. wire' \in Seq(Messages)
      BY <2>1, <2>3
    <2>5. FollowTyped'
      BY <1>1, <2>1 DEF FollowTyped
    <2>6. QED
      BY <1>1, <2>1, <2>2, <2>4, <2>5 DEF FollowType
  <1>3. CASE FallsBack
    <2>1. FollowTyped' /\ UNCHANGED <<node, wire, heads>>
      BY <1>1, <1>3 DEF FallsBack, FollowTyped
    <2>2. QED
      BY <1>1, <2>1 DEF FollowType
  <1>4. CASE SubscribedLegacy
    <2>1. FollowTyped' /\ UNCHANGED <<wire, heads>>
      BY <1>1, <1>4 DEF SubscribedLegacy, FollowTyped
    <2>2. node' \in Nodes
      BY <1>1, <1>4 DEF SubscribedLegacy, Nodes
    <2>3. QED
      BY <1>1, <2>1, <2>2 DEF FollowType
  <1>5. QED
    BY <1>2, <1>3, <1>4

LEMMA ReceivedTyped ==
    ASSUME FollowType, NEW e, Receives(e)
    PROVE  /\ node' \in Nodes /\ wire' \in Seq(Messages) /\ wire # <<>>
           /\ Message.event = e /\ Message \in Messages /\ follow.step = "idle"
  BY MessageTyped DEF FollowType, Receives

LEMMA HandlerTyped ==
    ASSUME FollowType,
           Initialized \/ HeaderRead \/ BlockRecorded \/ BestEmitted \/ FinalityRecorded
               \/ Unpinned \/ StopReceived \/ LegacyReceived \/ LegacyLookup
    PROVE  FollowType'
  <1>1. node \in Nodes /\ wire \in Seq(Messages) /\ FollowTyped /\ heads \in Streams
    BY DEF FollowType
  <1>2. <<>> \in Chain /\ <<>> \in Place
    BY DEF Chain, Place
  <1>3. CASE Initialized
    <2>1. /\ node' \in Nodes /\ wire' \in Seq(Messages) /\ Message.older \in SUBSET Place
          /\ UNCHANGED heads
          /\ follow' = [follow EXCEPT !.pinned = @ \cup {<<>>} \cup Message.older,
                                      !.arg = Message.older, !.step = "header"]
      BY <1>1, <1>3, ReceivedTyped, MessageTyped DEF Initialized
    <2>2. FollowTyped'
      BY <1>1, <1>2, <2>1 DEF FollowTyped
    <2>3. QED
      BY <1>1, <2>1, <2>2 DEF FollowType
  <1>4. CASE HeaderRead
    <2>1. NumbersTyped(Numbers(<<>>, 0))
      BY <1>1, <1>2, NumbersKept DEF FollowTyped
    <2>2. /\ follow' = [follow EXCEPT !.numbers = Numbers(<<>>, 0), !.final = <<>>,
                                !.step = IF follow.arg = {} THEN "idle" ELSE "unpin"]
          /\ UNCHANGED <<node, wire, heads>> /\ follow.step = "header"
      BY <1>4 DEF HeaderRead
    <2>3. FollowTyped'
      BY <1>1, <1>2, <2>1, <2>2 DEF FollowTyped
    <2>4. QED
      BY <1>1, <2>2, <2>3 DEF FollowType
  <1>5. CASE BlockRecorded
    <2> DEFINE b == Message.block
    <2>1. /\ node' \in Nodes /\ wire' \in Seq(Messages) /\ b \in Chain /\ follow.step = "idle"
      <3>1. Receives("newBlock")
        BY <1>5 DEF BlockRecorded
      <3>2. QED
        BY <1>1, <3>1, ReceivedTyped, MessageTyped
    <2>2. CASE Known(Parent(b)) /\ UNCHANGED heads
               /\ follow' = [follow EXCEPT !.pinned = @ \cup {b},
                                           !.numbers = Numbers(b, @[Parent(b)] + 1)]
      <3>1. follow.numbers[Parent(b)] + 1 \in Nat /\ b \in Place
        BY <1>1, <2>1, <2>2 DEF FollowTyped, NumbersTyped, Known, Place
      <3>2. NumbersTyped(Numbers(b, follow.numbers[Parent(b)] + 1))
        BY <1>1, <3>1, NumbersKept DEF FollowTyped
      <3>3. FollowTyped'
        BY <1>1, <2>1, <2>2, <3>1, <3>2 DEF FollowTyped
      <3>4. QED
        BY <1>1, <2>1, <2>2, <3>3 DEF FollowType
    <2>3. CASE Fails("decode") /\ UNCHANGED follow
      <3>1. FollowTyped' /\ heads' \in Streams
        BY <1>1, <2>3, FailsTyped DEF FollowTyped
      <3>2. QED
        BY <2>1, <3>1 DEF FollowType
    <2>4. QED
      BY <1>5, <2>2, <2>3 DEF BlockRecorded
  <1>6. CASE BestEmitted
    <2> DEFINE b == Message.block
    <2>1. /\ node' \in Nodes /\ wire' \in Seq(Messages) /\ b \in Chain /\ UNCHANGED follow
      <3>1. Receives("bestBlockChanged")
        BY <1>6 DEF BestEmitted
      <3>2. QED
        BY <1>1, <1>6, <3>1, ReceivedTyped, MessageTyped DEF BestEmitted
    <2>2. FollowTyped'
      BY <1>1, <2>1 DEF FollowTyped
    <2>3. CASE Known(b) /\ heads' = Puts(heads, BlockRef(b, follow.numbers[b]))
      <3>1. follow.numbers[b] \in Nat
        BY <1>1, <2>3 DEF FollowTyped, NumbersTyped, Known
      <3>2. heads' \in Streams
        BY <1>1, <2>1, <2>3, <3>1, BlockRefTyped, PutsTyped
      <3>3. QED
        BY <2>1, <2>2, <3>2 DEF FollowType
    <2>4. CASE Fails("decode")
      BY <1>1, <2>1, <2>2, <2>4, FailsTyped DEF FollowType
    <2>5. QED
      BY <1>6, <2>3, <2>4 DEF BestEmitted
  <1>7. CASE FinalityRecorded
    <2> DEFINE pending == follow.pending
                            \cup (Obsolete(Message.final, Message.pruned) \cap follow.pinned)
    <2>1. Receives("finalized")
      BY <1>7 DEF FinalityRecorded
    <2>2. /\ node' \in Nodes /\ wire' \in Seq(Messages) /\ Message.final \in Seq(Chain) \ {<<>>}
      BY <1>1, <2>1, ReceivedTyped, MessageTyped
    <2>3. pending \in SUBSET Place
      BY <1>1 DEF FollowTyped
    <2>4. PICK full \in BOOLEAN :
            follow' = [follow EXCEPT !.final = Message.final[Len(Message.final)],
                                     !.pending = pending,
                                     !.arg = IF full THEN pending ELSE {},
                                     !.step = IF full THEN "unpin" ELSE "idle"]
      BY <1>7 DEF FinalityRecorded
    <2> HIDE DEF pending
    <2>5. Message.final[Len(Message.final)] \in Chain
      BY <2>2
    <2>6. FollowTyped'
      BY <1>1, <2>3, <2>4, <2>5 DEF FollowTyped
    <2>7. heads' \in Streams
      BY <1>1, <1>7 DEF FinalityRecorded
    <2>8. QED
      BY <2>2, <2>6, <2>7 DEF FollowType
  <1>8. CASE Unpinned
    <2>1. /\ node' = [node EXCEPT !.pins = @ \ follow.arg,
                                  !.misused = ~(follow.arg \subseteq node.pins)]
          /\ follow' = [follow EXCEPT
                !.pinned = @ \ follow.arg, !.pending = @ \ follow.arg,
                !.numbers = [b \in DOMAIN @ \ follow.arg |-> @[b]],
                !.arg = {}, !.step = "idle"]
          /\ UNCHANGED <<wire, heads>>
      BY <1>8 DEF Unpinned
    <2>2. node' \in Nodes
      <3> DEFINE m == ~(follow.arg \subseteq node.pins)
      <3>1. m \in BOOLEAN /\ node' = [node EXCEPT !.pins = @ \ follow.arg, !.misused = m]
        BY <2>1
      <3> HIDE DEF m
      <3>2. QED
        BY <1>1, <3>1 DEF Nodes
    <2>3. NumbersTyped([b \in DOMAIN follow.numbers \ follow.arg |-> follow.numbers[b]])
      BY <1>1 DEF FollowTyped, NumbersTyped
    <2>4. FollowTyped'
      BY <1>1, <2>1, <2>3 DEF FollowTyped
    <2>5. QED
      BY <1>1, <2>1, <2>2, <2>4 DEF FollowType
  <1>9. CASE StopReceived
    <2>1. /\ node' \in Nodes /\ wire' \in Seq(Messages)
          /\ follow' = [follow EXCEPT !.stopped = TRUE] /\ Fails("stopped")
      BY <1>9, ReceivedTyped DEF StopReceived
    <2>2. FollowTyped' /\ heads' \in Streams
      BY <1>1, <2>1, FailsTyped DEF FollowTyped
    <2>3. QED
      BY <2>1, <2>2 DEF FollowType
  <1>10. CASE LegacyReceived
    <2>1. /\ node' \in Nodes /\ wire' \in Seq(Messages) /\ Message.number \in Nat
          /\ follow' = [follow EXCEPT !.step = "lookup", !.arg = {Message.number}]
          /\ UNCHANGED heads
      BY <1>1, <1>10, ReceivedTyped, MessageTyped DEF LegacyReceived
    <2>2. FollowTyped'
      BY <1>1, <2>1 DEF FollowTyped
    <2>3. QED
      BY <1>1, <2>1, <2>2 DEF FollowType
  <1>11. CASE LegacyLookup
    <2>1. PICK n \in follow.arg :
            heads' = IF n <= Len(node.best) THEN Puts(heads, BlockRef(Carried(n), n))
                                            ELSE PutsLast(heads, Error("unresolved"))
      BY <1>11 DEF LegacyLookup
    <2>2. n \in Nat /\ node.best \in Chain /\ Len(node.best) \in Nat
      BY <1>1, <1>11 DEF LegacyLookup, FollowTyped, Nodes, Chain
    <2>3. heads' \in Streams
      <3>1. CASE n <= Len(node.best)
        <4>1. Carried(n) \in Chain
          BY <2>2, <3>1, ChainParts DEF Carried
        <4>2. QED
          BY <1>1, <2>1, <2>2, <3>1, <4>1, BlockRefTyped, PutsTyped
      <3>2. CASE ~(n <= Len(node.best))
        BY <1>1, <2>1, <3>2, ErrorTyped, PutsTyped
      <3>3. QED
        BY <3>1, <3>2
    <2>4. FollowTyped' /\ UNCHANGED <<node, wire>>
      BY <1>1, <1>11 DEF LegacyLookup, FollowTyped
    <2>5. QED
      BY <1>1, <2>3, <2>4 DEF FollowType
  <1>12. QED
    BY <1>3, <1>4, <1>5, <1>6, <1>7, <1>8, <1>9, <1>10, <1>11

LEMMA FollowTypeStep ==
    ASSUME FollowType, FollowMoves
    PROVE  FollowType'
  <1>1. node \in Nodes /\ wire \in Seq(Messages) /\ FollowTyped /\ heads \in Streams
    BY DEF FollowType
  <1>2. CASE HeadPut \/ HeadsUnwound \/ HeadsCancel \/ FollowFails \/ Taken
    <2>1. heads' \in Streams
      <3>1. CASE HeadPut
        BY <1>1, <3>1, PutDoneTyped DEF HeadPut, MayPut
      <3>2. CASE HeadsUnwound \/ HeadsCancel \/ Taken
        BY <1>1, <3>2, StopTyped DEF HeadsUnwound, HeadsCancel, Taken
      <3>3. CASE FollowFails
        BY <1>1, <3>3, FailsTyped DEF FollowFails
      <3>4. QED
        BY <1>2, <3>1, <3>2, <3>3
    <2>2. UNCHANGED <<node, wire, follow>>
      BY <1>2 DEF HeadPut, HeadsUnwound, HeadsCancel, FollowFails, Taken
    <2>3. QED
      BY <1>1, <2>1, <2>2 DEF FollowType, FollowTyped
  <1>3. CASE HeadsStart
    <2>1. heads' \in Streams
      BY <1>1, <1>3, StopTyped DEF HeadsStart
    <2>2. FollowTyped' /\ UNCHANGED <<node, wire>>
      BY <1>1, <1>3 DEF HeadsStart, FollowTyped
    <2>3. QED
      BY <1>1, <2>1, <2>2 DEF FollowType
  <1>4. CASE HeadsClosed
    <2>1. heads' \in Streams
      BY <1>1, <1>4, StopTyped DEF HeadsClosed
    <2>2. node' \in Nodes
      BY <1>1, <1>4 DEF HeadsClosed, Nodes
    <2>3. FollowTyped' /\ UNCHANGED wire
      BY <1>4 DEF HeadsClosed, FollowTyped, NewFollow, NumbersTyped
    <2>4. QED
      BY <1>1, <2>1, <2>2, <2>3 DEF FollowType
  <1>5. QED
    BY <1>2, <1>3, <1>4, NodeTyped, SubscribeTyped, HandlerTyped
    DEF FollowMoves, FollowSteps, TaskStep, HandlerStep

-----------------------------------------------------------------------------
(* The end of a stream that nobody has closed: an error is put after the     *)
(* items, then the sentinel; ended says that the consumer has the error.     *)

ErrorLast(q) == /\ Len(q) >= 1 /\ q[Len(q)].kind = "error"
                /\ \A i \in 1..(Len(q) - 1) : Good(q[i])
SentinelLast(q) == /\ Len(q) >= 2 /\ q[Len(q)].kind = "end" /\ q[Len(q) - 1].kind = "error"
                   /\ \A i \in 1..(Len(q) - 2) : Good(q[i])

Told(s, ended) ==
    s.close = "open" =>
        /\ ~s.cancelled
        /\ s.task \in {"unstarted", "running", "put", "put_last"} =>
               ~ended /\ \A i \in 1..Len(s.queue) : Good(s.queue[i])
        /\ s.task = "put" => Good(s.item)
        /\ s.task = "put_last" => s.item.kind = "error"
        /\ s.task = "finally" => /\ s.item = Sentinel
                                 /\ IF ended THEN s.queue = <<>> ELSE ErrorLast(s.queue)
        /\ s.task = "done" => IF ended THEN s.queue = <<Sentinel>> ELSE SentinelLast(s.queue)

LEMMA PutsTold ==
    ASSUME NEW s \in Streams, NEW e, Told(s, e), s.task = "running", NEW item \in Items
    PROVE  /\ Good(item) => Told(Puts(s, item), e)
           /\ item.kind = "error" => Told(PutsLast(s, item), e)
  BY DEF Streams, Told, Puts, PutsLast

LEMMA PutDoneTold ==
    ASSUME NEW s \in Streams, NEW e, Told(s, e), s.task \in {"put", "put_last", "finally"}
    PROVE  Told(PutDone(s), e)
  <1> DEFINE q == Append(s.queue, s.item)
             t == PutDone(s)
  <1> SUFFICES ASSUME t.close = "open"
               PROVE  Told(t, e)
    BY DEF Told
  <1>1. s.queue \in Seq(Items) /\ s.item \in Items
    BY DEF Streams
  <1>2. /\ Len(q) = Len(s.queue) + 1 /\ q[Len(q)] = s.item /\ Len(s.queue) \in Nat
        /\ \A i \in 1..Len(s.queue) : q[i] = s.queue[i]
    BY <1>1
  <1>3. /\ t.queue = q /\ t.close = s.close /\ t.cancelled = s.cancelled
        /\ t.task = CASE s.task = "put" -> "running" [] s.task = "put_last" -> "finally"
                      [] s.task = "finally" -> "done"
        /\ s.task = "put_last" => t.item = Sentinel
    BY DEF Streams, PutDone, Ends
  <1> HIDE DEF t
  <1>4. CASE s.task = "put"
    <2>1. \A i \in 1..Len(q) : Good(q[i])
      <3> HIDE DEF q
      <3>1. \A i \in 1..Len(q) : i \in 1..Len(s.queue) \/ i = Len(q)
        BY <1>2
      <3>2. QED
        BY <1>2, <1>3, <1>4, <3>1 DEF Told
    <2>2. QED
      BY <1>3, <1>4, <2>1 DEF Told
  <1>5. CASE s.task = "put_last"
    <2>1. ErrorLast(q)
      <3> HIDE DEF q
      <3>1. Len(q) - 1 = Len(s.queue) /\ Len(q) >= 1
        BY <1>2
      <3>2. QED
        BY <1>2, <1>3, <1>5, <3>1 DEF Told, ErrorLast
    <2>2. QED
      BY <1>3, <1>5, <2>1 DEF Told
  <1>6. CASE s.task = "finally"
    <2>1. s.item = Sentinel
      BY <1>3, <1>6 DEF Told
    <2>2. CASE e
      <3>0. s.queue = <<>>
        BY <1>3, <1>6, <2>2 DEF Told
      <3>1. q = <<Sentinel>>
        BY <1>1, <2>1, <3>0
      <3>2. QED
        BY <1>3, <1>6, <2>2, <3>1 DEF Told
    <2>3. CASE ~e
      <3>1. ErrorLast(s.queue)
        BY <1>3, <1>6, <2>3 DEF Told
      <3>2. SentinelLast(q)
        <4> HIDE DEF q
        <4>1. /\ Len(q) >= 2 /\ Len(q) - 1 = Len(s.queue) /\ Len(q) - 2 = Len(s.queue) - 1
              /\ Len(s.queue) \in 1..Len(s.queue)
          BY <1>2, <3>1 DEF ErrorLast
        <4>2. \A i \in 1..(Len(s.queue) - 1) : q[i] = s.queue[i]
          BY <1>2
        <4>3. QED
          BY <1>2, <2>1, <3>1, <4>1, <4>2, SentinelTyped DEF ErrorLast, SentinelLast
      <3>3. QED
        BY <1>3, <1>6, <2>3, <3>2 DEF Told
    <2>4. QED
      BY <2>2, <2>3
  <1>7. QED
    BY <1>4, <1>5, <1>6

\* The consumer takes an item: an end is told by an error.
LEMMA TakeTold ==
    ASSUME NEW s \in Streams, Told(s, FALSE), s.close = "open", s.queue # <<>>
    PROVE  /\ Told([s EXCEPT !.queue = Tail(@)], ~Good(s.queue[1]))
           /\ Good(s.queue[1]) \/ s.queue[1].kind = "error"
  <1> DEFINE q == s.queue
             r == Tail(q)
             t == [s EXCEPT !.queue = Tail(@)]
  <1>1. /\ q \in Seq(Items) /\ Len(q) \in Nat \ {0} /\ Len(r) = Len(q) - 1
        /\ r \in Seq(Items) /\ \A i \in 1..Len(r) : r[i] = q[i + 1]
    BY DEF Streams
  <1>2. /\ t.queue = r /\ t.close = s.close /\ t.cancelled = s.cancelled /\ t.task = s.task
        /\ t.item = s.item
    BY DEF Streams
  <1>3. \A i \in Items : i.kind = "error" => ~Good(i)
    BY DEF Good
  <1> HIDE DEF t, r, q
  <1>4. CASE s.task \in {"unstarted", "running", "put", "put_last"}
    <2>1. \A i \in 1..Len(q) : Good(q[i])
      BY <1>4 DEF Told, q
    <2>2. Good(q[1]) /\ \A i \in 1..Len(r) : Good(r[i])
      <3>1. 1 \in 1..Len(q) /\ \A i \in 1..Len(r) : i + 1 \in 1..Len(q)
        BY <1>1
      <3>2. QED
        BY <1>1, <2>1, <3>1
    <2>3. Told(t, ~Good(q[1]))
      BY <1>2, <1>4, <2>2 DEF Told
    <2>4. QED
      BY <2>2, <2>3 DEF t, q
  <1>5. CASE s.task = "finally"
    <2>1. ErrorLast(q) /\ s.item = Sentinel
      BY <1>5 DEF Told, q
    <2>2. CASE Len(q) = 1
      <3>1. q[1].kind = "error" /\ ~Good(q[1])
        BY <2>1, <2>2 DEF ErrorLast, Good
      <3>2. r = <<>>
        <4>1. r \in Seq(Items) /\ Len(r) = 0
          BY <1>1, <2>2
        <4>2. QED
          BY <4>1
      <3>3. Told(t, ~Good(q[1]))
        BY <1>2, <1>5, <2>1, <3>1, <3>2 DEF Told
      <3>4. QED
        BY <3>1, <3>3 DEF t, q
    <2>3. CASE Len(q) # 1
      <3>1. Good(q[1])
        <4>1. 1 \in 1..(Len(q) - 1)
          BY <1>1, <2>3
        <4>2. QED
          BY <2>1, <4>1 DEF ErrorLast
      <3>2. ErrorLast(r)
        <4>1. Len(r) >= 1 /\ Len(r) + 1 = Len(q) /\ Len(r) \in 1..Len(r)
          BY <1>1, <2>3
        <4>2. \A i \in 1..(Len(r) - 1) : i \in 1..Len(r) /\ i + 1 \in 1..(Len(q) - 1)
          BY <1>1, <2>3
        <4>3. QED
          BY <1>1, <2>1, <4>1, <4>2 DEF ErrorLast
      <3>3. Told(t, ~Good(q[1]))
        BY <1>2, <1>5, <2>1, <3>1, <3>2 DEF Told
      <3>4. QED
        BY <3>1, <3>3 DEF t, q
    <2>4. QED
      BY <2>2, <2>3
  <1>6. CASE s.task = "done"
    <2>1. SentinelLast(q)
      BY <1>6 DEF Told, q
    <2>2. CASE Len(q) = 2
      <3>1. q[1].kind = "error" /\ ~Good(q[1]) /\ q[2].kind = "end" /\ q[2] \in Items
        <4>1. Len(q) - 1 = 1 /\ q[2] \in Items
          BY <1>1, <2>2
        <4>2. q[1].kind = "error" /\ q[2].kind = "end"
          BY <2>1, <2>2, <4>1 DEF SentinelLast
        <4>3. QED
          BY <4>1, <4>2 DEF Good
      <3>2. q[2] = Sentinel
        BY <3>1 DEF Items, Sentinel
      <3>3. r = <<Sentinel>>
        <4>1. r \in Seq(Items) /\ Len(r) = 1 /\ r[1] = Sentinel
          <5>1. Len(r) = 1 /\ 1 \in 1..Len(r) /\ 1 + 1 = 2
            BY <1>1, <2>2
          <5>2. r[1] = q[1 + 1]
            BY <1>1, <5>1
          <5>3. QED
            BY <1>1, <3>2, <5>1, <5>2
        <4>2. QED
          BY <4>1
      <3>4. Told(t, ~Good(q[1]))
        BY <1>2, <1>6, <3>1, <3>3 DEF Told
      <3>5. QED
        BY <3>1, <3>4 DEF t, q
    <2>3. CASE Len(q) # 2
      <3>0. Len(q) > 2
        BY <1>1, <2>1, <2>3 DEF SentinelLast
      <3>1. Good(q[1])
        <4>1. 1 \in 1..(Len(q) - 2)
          BY <1>1, <3>0
        <4>2. QED
          BY <2>1, <4>1 DEF SentinelLast
      <3>2. SentinelLast(r)
        <4>1. /\ Len(r) >= 2 /\ Len(r) + 1 = Len(q) /\ Len(r) \in 1..Len(r)
              /\ Len(r) - 1 \in 1..Len(r) /\ Len(r) - 1 + 1 = Len(q) - 1
          BY <1>1, <3>0
        <4>2. \A i \in 1..(Len(r) - 2) : i \in 1..Len(r) /\ i + 1 \in 1..(Len(q) - 2)
          BY <1>1, <3>0
        <4>3. r[Len(r)] = q[Len(q)] /\ r[Len(r) - 1] = q[Len(q) - 1]
          BY <1>1, <4>1
        <4>4. QED
          BY <1>1, <2>1, <4>1, <4>2, <4>3 DEF SentinelLast
      <3>3. Told(t, ~Good(q[1]))
        BY <1>2, <1>6, <2>1, <3>1, <3>2 DEF Told
      <3>4. QED
        BY <3>1, <3>3 DEF t, q
    <2>4. QED
      BY <2>2, <2>3
  <1>7. QED
    BY <1>4, <1>5, <1>6 DEF Streams, Tasks

LEMMA StopTold ==
    ASSUME NEW s \in Streams, NEW e, Told(s, e)
    PROVE  /\ Told(Cancelled(s), e)
           /\ s.cancelled => Told(Unwound(s), e)
           /\ Told([s EXCEPT !.close = "closed"], e)
           /\ s.task = "unstarted" => Told([s EXCEPT !.task = "running"], e)
  <1>1. Cancelled(s).close # "open" /\ [s EXCEPT !.close = "closed"].close # "open"
    BY DEF Streams, Cancelled
  <1>2. s.cancelled => s.close # "open" /\ Unwound(s).close = s.close
    BY DEF Streams, Told, Unwound, Ends
  <1>3. s.task = "unstarted" => Told([s EXCEPT !.task = "running"], e)
    BY DEF Streams, Told
  <1>4. QED
    BY <1>1, <1>2, <1>3 DEF Told

LEMMA HeadsTold ==
    ASSUME FollowType, FollowSteps, NEW e, Told(heads, e)
    PROVE  Told(heads', e)
  <1>1. heads \in Streams /\ FollowTyped /\ node \in Nodes /\ wire \in Seq(Messages)
    BY DEF FollowType
  <1>2. ASSUME NEW x \in {"decode", "provider", "stopped", "unresolved"}, Fails(x), Running
        PROVE  Told(heads', e)
    BY <1>1, <1>2, ErrorTyped, PutsTold DEF Fails, Running
  <1>3. ASSUME NEW b \in Chain, NEW n \in Nat, Running, heads' = Puts(heads, BlockRef(b, n))
        PROVE  Told(heads', e)
    <2>1. BlockRef(b, n) \in Items /\ Good(BlockRef(b, n))
      BY BlockRefTyped DEF BlockRef, Good
    <2>2. QED
      BY <1>1, <1>3, <2>1, PutsTold DEF Running
  <1>4. CASE BlockRecorded \/ FollowFails \/ StopReceived
    BY <1>2, <1>4 DEF BlockRecorded, FollowFails, StopReceived, Receives
  <1>5. CASE BestEmitted
    <2>1. Running /\ Message.block \in Chain
      BY <1>1, <1>5, MessageTyped DEF BestEmitted, Receives
    <2>2. CASE Fails("decode")
      BY <1>2, <2>1, <2>2
    <2>3. CASE Known(Message.block) /\ heads' = Puts(heads, BlockRef(Message.block, follow.numbers[Message.block]))
      <3>1. follow.numbers[Message.block] \in Nat
        BY <1>1, <2>3 DEF FollowTyped, NumbersTyped, Known
      <3>2. QED
        BY <1>3, <2>1, <2>3, <3>1
    <2>4. QED
      BY <1>5, <2>2, <2>3 DEF BestEmitted
  <1>6. CASE LegacyLookup
    <2>1. PICK n \in follow.arg :
            heads' = IF n <= Len(node.best) THEN Puts(heads, BlockRef(Carried(n), n))
                                            ELSE PutsLast(heads, Error("unresolved"))
      BY <1>6 DEF LegacyLookup
    <2>2. n \in Nat /\ node.best \in Chain /\ Len(node.best) \in Nat /\ Running
      BY <1>1, <1>6 DEF LegacyLookup, FollowTyped, Nodes, Chain
    <2>3. CASE n <= Len(node.best)
      BY <1>3, <2>1, <2>2, <2>3, ChainParts DEF Carried
    <2>4. CASE ~(n <= Len(node.best))
      BY <1>2, <2>1, <2>2, <2>4 DEF Fails
    <2>5. QED
      BY <2>3, <2>4
  <1>7. CASE HeadPut
    BY <1>1, <1>7, PutDoneTold DEF HeadPut, MayPut
  <1>8. CASE HeadsUnwound \/ HeadsCancel \/ HeadsClosed \/ HeadsStart
    <2>1. CASE HeadsUnwound
      BY <1>1, <2>1, StopTold DEF HeadsUnwound
    <2>2. CASE HeadsCancel
      BY <1>1, <2>2, StopTold DEF HeadsCancel
    <2>3. CASE HeadsClosed
      BY <1>1, <2>3, StopTold DEF HeadsClosed
    <2>4. CASE HeadsStart
      BY <1>1, <2>4, StopTold DEF HeadsStart
    <2>5. QED
      BY <1>8, <2>1, <2>2, <2>3, <2>4
  <1>9. CASE NodeStep
    BY <1>9 DEF NodeStep, BlockAnnounced, BestAnnounced, FinalityAnnounced, FollowStopped, LegacyHead
  <1>10. CASE Subscribed \/ FallsBack \/ SubscribedLegacy \/ Initialized \/ HeaderRead
              \/ FinalityRecorded \/ Unpinned \/ LegacyReceived
    BY <1>10 DEF Subscribed, FallsBack, SubscribedLegacy, Initialized, HeaderRead,
                 FinalityRecorded, Unpinned, LegacyReceived
  <1>11. QED
    BY <1>4, <1>5, <1>6, <1>7, <1>8, <1>9, <1>10 DEF FollowMoves, FollowSteps, TaskStep, HandlerStep

-----------------------------------------------------------------------------
(* A stream of heads holds no events. *)

Eventless(s) == /\ s.item.kind # "event"
                /\ \A i \in 1..Len(s.queue) : s.queue[i].kind # "event"

LEMMA PutsEventless ==
    ASSUME NEW s \in Streams, Eventless(s)
    PROVE  /\ \A item \in Items : item.kind # "event" =>
                  Eventless(Puts(s, item)) /\ Eventless(PutsLast(s, item))
           /\ Eventless(Unwound(s)) /\ Eventless(Cancelled(s))
           /\ Eventless([s EXCEPT !.close = "closed"])
           /\ Eventless([s EXCEPT !.task = "running"])
           /\ s.queue # <<>> => Eventless([s EXCEPT !.queue = Tail(@)]) /\ s.queue[1].kind # "event"
           /\ s.task \in {"put", "put_last", "finally"} => Eventless(PutDone(s))
  <1>1. s.queue \in Seq(Items) /\ s.item \in Items
    BY DEF Streams
  <1>2. \A item \in Items : item.kind # "event" =>
            Eventless(Puts(s, item)) /\ Eventless(PutsLast(s, item))
    BY DEF Eventless, Streams, Puts, PutsLast
  <1>3. Eventless(Unwound(s))
    BY SentinelTyped DEF Eventless, Streams, Unwound, Ends
  <1>4. Eventless(Cancelled(s))
    <2>1. Cancelled(s).queue = <<>> /\ Cancelled(s).item = s.item
      BY DEF Streams, Cancelled
    <2>2. QED
      BY <2>1 DEF Eventless
  <1>5. Eventless([s EXCEPT !.close = "closed"]) /\ Eventless([s EXCEPT !.task = "running"])
    BY DEF Eventless, Streams
  <1>6. ASSUME s.queue # <<>>
        PROVE  Eventless([s EXCEPT !.queue = Tail(@)]) /\ s.queue[1].kind # "event"
    <2> DEFINE r == Tail(s.queue)
               t == [s EXCEPT !.queue = Tail(@)]
    <2>1. /\ Len(s.queue) \in Nat \ {0} /\ 1 \in 1..Len(s.queue) /\ Len(r) = Len(s.queue) - 1
          /\ \A i \in 1..Len(r) : r[i] = s.queue[i + 1]
      BY <1>1, <1>6
    <2>2. \A i \in 1..Len(r) : i + 1 \in 1..Len(s.queue)
      BY <2>1
    <2>3. t.queue = r /\ t.item = s.item
      BY DEF Streams
    <2> HIDE DEF r, t
    <2>4. Eventless(t)
      BY <2>1, <2>2, <2>3 DEF Eventless
    <2>5. QED
      BY <2>1, <2>4 DEF Eventless, t
  <1>7. ASSUME s.task \in {"put", "put_last", "finally"}
        PROVE  Eventless(PutDone(s))
    <2> DEFINE q == Append(s.queue, s.item)
    <2>1. /\ Len(q) = Len(s.queue) + 1 /\ q[Len(s.queue) + 1] = s.item /\ Len(s.queue) \in Nat
          /\ \A i \in 1..Len(s.queue) : q[i] = s.queue[i]
      BY <1>1
    <2>2. \A i \in 1..Len(q) : i \in 1..Len(s.queue) \/ i = Len(s.queue) + 1
      BY <2>1
    <2>3. PutDone(s).queue = q /\ (PutDone(s).item = s.item \/ PutDone(s).item = Sentinel)
      BY <1>7 DEF Streams, PutDone, Ends
    <2> HIDE DEF q
    <2>4. QED
      BY <2>1, <2>2, <2>3, SentinelTyped DEF Eventless
  <1>8. QED
    BY <1>2, <1>3, <1>4, <1>5, <1>6, <1>7

LEMMA EventlessStep ==
    ASSUME FollowType, FollowMoves, Eventless(heads)
    PROVE  Eventless(heads')
  <1>1. heads \in Streams /\ FollowTyped /\ node \in Nodes /\ wire \in Seq(Messages)
    BY DEF FollowType
  <1>2. ASSUME NEW x \in {"decode", "provider", "stopped", "unresolved"}, Fails(x)
        PROVE  Eventless(heads')
    BY <1>1, <1>2, ErrorTyped, PutsEventless DEF Fails
  <1>3. ASSUME NEW b, NEW n, heads' = Puts(heads, BlockRef(b, n))
        PROVE  Eventless(heads')
    BY <1>1, <1>3 DEF Eventless, Streams, Puts, BlockRef
  <1>4. CASE BlockRecorded \/ FollowFails \/ StopReceived \/ BestEmitted
    BY <1>2, <1>3, <1>4 DEF BlockRecorded, FollowFails, StopReceived, BestEmitted
  <1>5. CASE LegacyLookup
    BY <1>2, <1>3, <1>5 DEF LegacyLookup, Fails
  <1>6. CASE HeadPut
    BY <1>1, <1>6, PutsEventless DEF HeadPut, MayPut
  <1>7. CASE HeadsUnwound \/ HeadsCancel
    BY <1>1, <1>7, PutsEventless DEF HeadsUnwound, HeadsCancel
  <1>8. CASE HeadsClosed \/ HeadsStart
    BY <1>1, <1>8, PutsEventless DEF HeadsClosed, HeadsStart
  <1>9. CASE Taken
    BY <1>1, <1>9, PutsEventless DEF Taken
  <1>10. CASE NodeStep
    BY <1>10 DEF NodeStep, BlockAnnounced, BestAnnounced, FinalityAnnounced, FollowStopped, LegacyHead
  <1>11. CASE Subscribed \/ FallsBack \/ SubscribedLegacy \/ Initialized \/ HeaderRead
              \/ FinalityRecorded \/ Unpinned \/ LegacyReceived
    BY <1>11 DEF Subscribed, FallsBack, SubscribedLegacy, Initialized, HeaderRead,
                 FinalityRecorded, Unpinned, LegacyReceived
  <1>12. QED
    BY <1>4, <1>5, <1>6, <1>7, <1>8, <1>9, <1>10, <1>11 DEF FollowMoves, FollowSteps, TaskStep, HandlerStep

-----------------------------------------------------------------------------
(* The two streams together. *)

LoopType ==
    /\ kind \in {"heads", "events"} /\ events \in Streams /\ got \in Seq(Items)
    /\ loop = [at |-> loop.at, head |-> loop.head]
    /\ loop.at = "events" => loop.head \in Chain

\* While the events are read, the heads are open and have not ended.
EndInv ==
    /\ FollowType /\ LoopType /\ Eventless(heads)
    /\ Ended => got[Len(got)].kind = "error"
    /\ kind = "heads" => Told(heads, Ended) /\ events = NewStream
    /\ kind = "events" =>
        /\ Told(events, Ended)
        /\ events.task \in {"unstarted", "running", "put"} =>
               heads.close = "open" /\ Told(heads, FALSE)

LEMMA EndIsToldNow ==
    ASSUME EndInv
    PROVE  EndIsTold
  <1>1. Told(Front, Ended)
    BY DEF EndInv, LoopType, Front
  <1>2. Front.task = "done" /\ Opened /\ Front.queue = <<>> => Ended
    <2>1. <<>> # <<Sentinel>> /\ ~SentinelLast(<<>>)
      BY DEF SentinelLast
    <2>2. QED
      BY <1>1, <2>1 DEF Told, Opened
  <1>3. QED
    BY <1>2 DEF EndInv, EndIsTold

LEMMA GotTyped ==
    ASSUME got \in Seq(Items), NEW item \in Items, got' = Append(got, item), ~Ended
    PROVE  /\ got' \in Seq(Items) /\ got'[Len(got')] = item
           /\ Ended' <=> ~Good(item)
  <1>1. /\ got' \in Seq(Items) /\ Len(got') = Len(got) + 1 /\ got'[Len(got')] = item
        /\ got' # <<>>
    OBVIOUS
  <1>2. QED
    BY <1>1 DEF Ended, Good

LEMMA CloseKept ==
    ASSUME FollowType, NodeStep \/ TaskStep \/ HeadsStart \/ FollowFails
    PROVE  heads'.close = heads.close
  <1>1. heads \in Streams
    BY DEF FollowType
  <1>2. ASSUME NEW x, Fails(x)
        PROVE  heads'.close = heads.close
    BY <1>1, <1>2 DEF Streams, Fails, PutsLast
  <1>3. ASSUME NEW item, heads' = Puts(heads, item)
        PROVE  heads'.close = heads.close
    BY <1>1, <1>3 DEF Streams, Puts
  <1>4. CASE BlockRecorded \/ FollowFails \/ StopReceived \/ BestEmitted \/ LegacyLookup
    BY <1>2, <1>3, <1>4
    DEF BlockRecorded, FollowFails, StopReceived, BestEmitted, LegacyLookup, Fails
  <1>5. CASE HeadPut \/ HeadsUnwound
    BY <1>1, <1>5 DEF HeadPut, MayPut, HeadsUnwound, PutDone, Unwound, Ends, Streams
  <1>6. CASE HeadsStart
    BY <1>1, <1>6 DEF HeadsStart, Streams
  <1>7. CASE NodeStep
    BY <1>7 DEF NodeStep, BlockAnnounced, BestAnnounced, FinalityAnnounced, FollowStopped, LegacyHead
  <1>8. CASE Subscribed \/ FallsBack \/ SubscribedLegacy \/ Initialized \/ HeaderRead
              \/ FinalityRecorded \/ Unpinned \/ LegacyReceived
    BY <1>8 DEF Subscribed, FallsBack, SubscribedLegacy, Initialized, HeaderRead,
                FinalityRecorded, Unpinned, LegacyReceived
  <1>9. QED
    BY <1>4, <1>5, <1>6, <1>7, <1>8 DEF TaskStep, HandlerStep

LEMMA FollowEnd ==
    ASSUME EndInv, Unlooped,
           \/ NodeStep \/ TaskStep \/ HeadsStart \/ FollowFails \/ HeadsClosed
           \/ HeadsCancel /\ (kind = "heads" \/ events.task = "finally")
    PROVE  EndInv'
  <1>0. FollowSteps
    BY DEF FollowSteps
  <1>1. FollowType' /\ Eventless(heads')
    BY <1>0, FollowTypeStep, EventlessStep DEF EndInv, FollowMoves
  <1>2. LoopType' /\ Ended' = Ended /\ got' = got /\ kind' = kind /\ events' = events
    BY DEF EndInv, LoopType, Unlooped, Ended
  <1>3. \A e : Told(heads, e) => Told(heads', e)
    BY <1>0, HeadsTold DEF EndInv
  <1>4. CASE kind = "heads"
    BY <1>1, <1>2, <1>3, <1>4 DEF EndInv
  <1>5. CASE kind = "events"
    <2>1. ASSUME events.task \in {"unstarted", "running", "put"}
          PROVE  heads'.close = "open" /\ Told(heads', FALSE)
      <3>1. heads.close = "open" /\ Told(heads, FALSE)
        BY <1>5, <2>1 DEF EndInv
      <3>2. NodeStep \/ TaskStep \/ HeadsStart \/ FollowFails
        BY <1>5, <2>1, <3>1 DEF HeadsClosed, Awaited
      <3>3. QED
        BY <1>3, <3>1, <3>2, CloseKept DEF EndInv
    <2>2. QED
      BY <1>1, <1>2, <1>5, <2>1 DEF EndInv
  <1>6. QED
    BY <1>4, <1>5 DEF EndInv, LoopType

LEMMA LoopTakesEnd ==
    ASSUME EndInv, LoopTakes
    PROVE  EndInv'
  <1>1. /\ kind = "events" /\ events \in Streams /\ events.task = "running" /\ heads \in Streams
        /\ heads.queue # <<>> /\ heads' = [heads EXCEPT !.queue = Tail(@)]
        /\ UNCHANGED <<node, wire, follow, kind, got>>
    BY DEF LoopTakes, Polling, EndInv, LoopType, FollowType, NewStream
  <1>2. FollowType' /\ Eventless(heads')
    <2>1. FollowMoves
      BY <1>1 DEF FollowMoves, Taken
    <2>2. QED
      BY <2>1, FollowTypeStep, EventlessStep DEF EndInv
  <1>3. heads.close = "open" /\ Told(heads, FALSE) /\ Told(events, Ended) /\ Ended' = Ended
    BY <1>1 DEF EndInv, Ended
  <1>4. Good(heads.queue[1]) \/ heads.queue[1].kind = "error"
    BY <1>1, <1>3, TakeTold
  <1>5. heads.queue[1] \in Items /\ heads.queue[1].kind # "event"
    <2>1. heads.queue \in Seq(Items) /\ 1 \in 1..Len(heads.queue)
      BY <1>1 DEF Streams
    <2>2. QED
      BY <2>1 DEF EndInv, Eventless
  <1>6. CASE Good(heads.queue[1])
    <2>1. heads.queue[1].kind = "head" /\ heads.queue[1].block \in Chain
      BY <1>5, <1>6 DEF Good, Items
    <2>2. loop' = [at |-> "events", head |-> heads.queue[1].block] /\ UNCHANGED events
      BY <2>1 DEF LoopTakes
    <2>3. LoopType'
      BY <1>1, <2>1, <2>2 DEF EndInv, LoopType
    <2>4. heads'.close = "open" /\ Told(heads', FALSE)
      <3>1. (~Good(heads.queue[1])) = FALSE
        BY <1>6
      <3>2. Told(heads', ~Good(heads.queue[1]))
        BY <1>1, <1>3, TakeTold
      <3>3. QED
        BY <1>1, <1>3, <3>1, <3>2 DEF Streams
    <2>5. QED
      BY <1>1, <1>2, <1>3, <2>2, <2>3, <2>4 DEF EndInv
  <1>7. CASE heads.queue[1].kind = "error"
    <2>1. events' = PutsLast(events, heads.queue[1]) /\ UNCHANGED loop
      BY <1>7 DEF LoopTakes
    <2>2. LoopType'
      BY <1>1, <1>5, <2>1, PutsTyped DEF EndInv, LoopType
    <2>3. Told(events', Ended') /\ events'.task = "put_last"
      BY <1>1, <1>3, <1>5, <1>7, <2>1, PutsTold DEF PutsLast, Streams
    <2>4. QED
      BY <1>1, <1>2, <2>2, <2>3 DEF EndInv, Ended
  <1>8. QED
    BY <1>4, <1>6, <1>7

LEMMA EventsEnd ==
    ASSUME EndInv, EventsStart \/ EventsRead \/ LoopFails \/ EventPut \/ EventsUnwound
                   \/ EventsClosed \/ (RuntimeCloses /\ kind = "events")
    PROVE  EndInv'
  <1>1. /\ events \in Streams /\ UNCHANGED <<followVars, kind, got>>
        /\ Ended' = Ended /\ FollowType' /\ Eventless(heads')
    BY DEF EventsStart, EventsRead, LoopFails, EventPut, EventsUnwound, EventsClosed, RuntimeCloses,
           EndInv, LoopType, Ended, FollowType, FollowTyped, followVars, Eventless
  <1>2. kind = "events"
    BY DEF EventsStart, EventsRead, LoopFails, EventPut, EventsUnwound, EventsClosed,
           EndInv, LoopType, Polling, MayPut, Awaited, NewStream
  <1>3. Told(events, Ended)
    BY <1>2 DEF EndInv
  <1> DEFINE Kept == /\ events' \in Streams /\ Told(events', Ended)
                     /\ events'.task \in {"unstarted", "running", "put"} =>
                            events.task \in {"unstarted", "running", "put"}
             LoopOk == /\ loop' = [at |-> loop'.at, head |-> loop'.head]
                       /\ loop'.at = "events" => loop'.head \in Chain
  <1>4. CASE EventsStart
    <2>1. Kept
      BY <1>1, <1>3, <1>4, StopTyped, StopTold DEF EventsStart
    <2>2. LoopOk
      BY <1>4 DEF EventsStart, EndInv, LoopType
    <2>3. QED
      BY <1>1, <1>2, <2>1, <2>2 DEF EndInv, LoopType, followVars
  <1>5. CASE EventsRead
    <2>1. /\ EventOf(loop.head) \in Items /\ Good(EventOf(loop.head)) /\ events.task = "running"
      BY <1>5 DEF EventsRead, Polling, EndInv, LoopType, EventOf, Items, Good
    <2>2. Kept
      BY <1>1, <1>3, <1>5, <2>1, PutsTyped, PutsTold DEF EventsRead
    <2>3. LoopOk
      BY <1>5 DEF EventsRead, EndInv, LoopType
    <2>4. QED
      BY <1>1, <1>2, <2>2, <2>3 DEF EndInv, LoopType, followVars
  <1>6. CASE LoopFails
    <2>1. Kept
      BY <1>1, <1>3, <1>6, ErrorTyped, PutsTyped, PutsTold DEF LoopFails
    <2>2. QED
      BY <1>1, <1>2, <1>6, <2>1 DEF LoopFails, EndInv, LoopType, followVars
  <1>7. CASE EventPut
    <2>1. Kept
      <3>1. events' = PutDone(events) /\ events.task \in {"put", "put_last", "finally"}
        BY <1>7 DEF EventPut, MayPut
      <3>2. events' \in Streams /\ Told(events', Ended)
        BY <1>1, <1>3, <3>1, PutDoneTyped, PutDoneTold
      <3>3. events.task \in {"put_last", "finally"} => events'.task \in {"finally", "done"}
        BY <1>1, <3>1 DEF PutDone, Ends, Streams
      <3>4. QED
        BY <3>1, <3>2, <3>3
    <2>2. QED
      BY <1>1, <1>2, <1>7, <2>1 DEF EventPut, EndInv, LoopType, followVars
  <1>8. CASE EventsUnwound
    <2>1. Kept
      <3>1. events' = Unwound(events) /\ events.cancelled
        BY <1>8 DEF EventsUnwound
      <3>2. events'.task \in {"finally", "done"}
        BY <1>1, <3>1 DEF Unwound, Ends, Streams
      <3>3. QED
        BY <1>1, <1>3, <3>1, <3>2, StopTyped, StopTold
    <2>2. QED
      BY <1>1, <1>2, <1>8, <2>1 DEF EventsUnwound, EndInv, LoopType, followVars
  <1>9. CASE EventsClosed
    <2>1. Kept
      BY <1>1, <1>3, <1>9, StopTyped, StopTold DEF EventsClosed, Streams
    <2>2. QED
      BY <1>1, <1>2, <1>9, <2>1 DEF EventsClosed, EndInv, LoopType, followVars
  <1>10. CASE RuntimeCloses
    <2>1. events' = Cancelled(events) /\ UNCHANGED loop
      BY <1>2, <1>10 DEF RuntimeCloses
    <2>2. events'.task = events.task
      BY <1>1, <2>1 DEF Cancelled, Streams
    <2>3. Kept
      BY <1>1, <1>3, <2>1, <2>2, StopTyped, StopTold
    <2>4. QED
      BY <1>1, <1>2, <2>1, <2>3 DEF EndInv, LoopType, followVars
  <1>11. QED
    BY <1>4, <1>5, <1>6, <1>7, <1>8, <1>9, <1>10

LEMMA RuntimeTakesEnd ==
    ASSUME EndInv, RuntimeTakes
    PROVE  EndInv'
  <1>1. /\ Front.close = "open" /\ Front.queue # <<>> /\ ~Ended
        /\ got' = Append(got, Front.queue[1]) /\ UNCHANGED <<node, wire, follow, kind, loop>>
        /\ got \in Seq(Items) /\ heads \in Streams /\ events \in Streams
    BY DEF RuntimeTakes, Opened, EndInv, LoopType, FollowType
  <1>2. Front \in Streams /\ Front.queue[1] \in Items /\ Told(Front, FALSE)
    <2>1. Front \in Streams /\ Told(Front, Ended)
      BY <1>1 DEF Front, EndInv, LoopType
    <2>2. Front.queue \in Seq(Items)
      BY <2>1 DEF Streams
    <2>3. Ended = FALSE
      BY <1>1 DEF Ended
    <2>4. Front.queue[1] \in Items
      <3> DEFINE q == Front.queue
      <3>1. q \in Seq(Items) /\ q # <<>>
        BY <1>1, <2>2
      <3> HIDE DEF q
      <3>2. q[1] \in Items
        BY <3>1
      <3>3. QED
        BY <3>2 DEF q
    <2>5. Told(Front, FALSE)
      BY <2>1, <2>3
    <2>6. QED
      BY <2>1, <2>4, <2>5
  <1> DEFINE item == Front.queue[1]
             t == [Front EXCEPT !.queue = Tail(@)]
  <1>3. /\ got' \in Seq(Items) /\ got'[Len(got')] = item /\ (Ended' <=> ~Good(item))
        /\ Good(item) \/ item.kind = "error"
        /\ Told(t, ~Good(item)) /\ t \in Streams
    BY <1>1, <1>2, GotTyped, TakeTold, StopTyped
  <1>4. Ended' = ~Good(item)
    BY <1>3 DEF Ended, Good
  <1>5. Told(t, Ended') /\ (Ended' => got'[Len(got')].kind = "error")
    BY <1>3, <1>4
  <1>6. CASE kind = "heads"
    <2>1. heads' = t /\ UNCHANGED events
      BY <1>6 DEF RuntimeTakes, Front
    <2>2. Taken
      BY <1>1, <1>6, <2>1 DEF Taken, Front
    <2>3. FollowType' /\ Eventless(heads')
      BY <2>2, FollowTypeStep, EventlessStep DEF EndInv, FollowMoves
    <2>4. LoopType'
      BY <1>1, <1>3, <2>1 DEF EndInv, LoopType
    <2>5. kind' = "heads" /\ events' = NewStream /\ Told(heads', Ended')
      BY <1>1, <1>5, <1>6, <2>1 DEF EndInv
    <2>6. QED
      BY <1>5, <2>3, <2>4, <2>5 DEF EndInv
  <1>7. CASE kind = "events"
    <2>1. events' = t /\ UNCHANGED heads /\ events'.task = events.task
      BY <1>1, <1>7 DEF RuntimeTakes, Front, Streams
    <2>2. FollowType' /\ Eventless(heads')
      BY <1>1, <2>1 DEF EndInv, FollowType, FollowTyped, Eventless
    <2>3. LoopType'
      BY <1>1, <1>3, <2>1 DEF EndInv, LoopType
    <2>4. kind' = "events" /\ Told(events', Ended')
      BY <1>1, <1>5, <1>7, <2>1
    <2>5. QED
      BY <1>5, <1>7, <2>1, <2>2, <2>3, <2>4 DEF EndInv
  <1>8. QED
    BY <1>6, <1>7 DEF EndInv, LoopType

LEMMA EndStep ==
    ASSUME EndInv, [Next]_streamVars
    PROVE  EndInv'
  <1>1. CASE UNCHANGED streamVars
    BY <1>1 DEF streamVars, followVars, EndInv, FollowType, FollowTyped, LoopType, Eventless,
                Ended, Told
  <1>2. CASE (NodeStep \/ TaskStep \/ HeadsClosed \/ FollowFails) /\ Unlooped
    BY <1>2, FollowEnd
  <1>3. CASE LoopStarts \/ LoopShuts
    BY <1>3, FollowEnd DEF LoopStarts, LoopShuts, Unlooped
  <1>4. CASE LoopTakes
    BY <1>4, LoopTakesEnd
  <1>5. CASE EventsRead \/ EventPut \/ EventsUnwound \/ EventsClosed \/ LoopFails
    BY <1>5, EventsEnd
  <1>6. CASE RuntimeStarts
    BY <1>6, FollowEnd, EventsEnd DEF RuntimeStarts, Unlooped
  <1>7. CASE RuntimeTakes
    BY <1>7, RuntimeTakesEnd
  <1>8. CASE RuntimeCloses
    <2>1. CASE kind = "heads"
      BY <1>8, <2>1, FollowEnd DEF RuntimeCloses, Unlooped
    <2>2. CASE kind = "events"
      BY <1>8, <2>2, EventsEnd
    <2>3. QED
      BY <2>1, <2>2 DEF EndInv, LoopType
  <1>9. QED
    BY <1>1, <1>2, <1>3, <1>4, <1>5, <1>6, <1>7, <1>8 DEF Next, ClientStep, LoopStep

LEMMA InitEnd ==
    ASSUME Init
    PROVE  EndInv
  <1>1. PICK initial \in Initial : FollowInit({<<>>} \cup initial)
    BY DEF Init
  <1>2. <<>> \in Chain /\ <<>> \in Seq(Items) /\ <<>> \in Seq(Messages) /\ <<>> \in Seq(Chain)
    BY DEF Chain
  <1>3. NewStream \in Streams /\ Eventless(NewStream) /\ Told(NewStream, FALSE)
    BY <1>2, SentinelTyped DEF NewStream, Streams, Tasks, Eventless, Told
  <1>4. ~Ended /\ LoopType
    BY <1>2, <1>3 DEF Init, Ended, LoopType, IdleLoop
  <1>5. node \in Nodes
    <2>1. {<<>>} \cup initial \in SUBSET Place
      BY <1>2 DEF Place
    <2>2. QED
      BY <1>1, <1>2, <2>1 DEF FollowInit, Nodes
  <1>6. FollowTyped
    BY <1>1 DEF FollowInit, FollowTyped, NewFollow, NumbersTyped
  <1>7. FollowType
    BY <1>1, <1>2, <1>3, <1>5, <1>6 DEF FollowInit, FollowType
  <1>8. heads = NewStream /\ events = NewStream /\ kind \in {"heads", "events"} /\ Ended = FALSE
    BY <1>1, <1>4 DEF Init, FollowInit, Ended
  <1>9. QED
    BY <1>3, <1>4, <1>7, <1>8 DEF EndInv, NewStream

(* Whoever consumes a stream that fails or ends is told why by an error,     *)
(* before anything else ends it, and never waits at the queue of a task that *)
(* is gone (bittensor.py:1951-1978, 2253-2263): whatever the node announces  *)
(* and the queues hold.                                                      *)
THEOREM EndsAreTold == Spec => []EndIsTold
  <1>1. Init => EndInv
    BY InitEnd
  <1>2. EndInv /\ [Next]_streamVars => EndInv'
    BY EndStep
  <1>3. EndInv => EndIsTold
    BY EndIsToldNow
  <1>4. QED
    BY <1>1, <1>2, <1>3, PTL DEF Spec

-----------------------------------------------------------------------------
(* Closing a stream: its task waits for nothing but the cancellation, or     *)
(* puts the sentinel on an empty queue, or is gone.                          *)

Closing(s) ==
    s.close = "await" =>
        /\ s.task # "unstarted"
        /\ \/ s.cancelled /\ s.queue = <<>>
           \/ ~s.cancelled /\ s.task = "finally" /\ s.queue = <<>>
           \/ ~s.cancelled /\ s.task = "done"

LEMMA ClosingKept ==
    ASSUME NEW s \in Streams, Closing(s)
    PROVE  /\ \A item : s.task = "running" /\ ~s.cancelled =>
                  Closing(Puts(s, item)) /\ Closing(PutsLast(s, item))
           /\ \A size : MayPut(s, size) => Closing(PutDone(s))
           /\ s.cancelled => Closing(Unwound(s))
           /\ Closing(Cancelled(s))
           /\ Closing([s EXCEPT !.close = "closed"])
           /\ s.task = "unstarted" => Closing([s EXCEPT !.task = "running"])
           /\ s.queue # <<>> => Closing([s EXCEPT !.queue = Tail(@)])
  <1>1. \A item : s.task = "running" /\ ~s.cancelled =>
            Closing(Puts(s, item)) /\ Closing(PutsLast(s, item))
    BY DEF Closing, Puts, PutsLast, Streams
  <1>2. ASSUME NEW size, MayPut(s, size)
        PROVE  Closing(PutDone(s))
    <2>1. CASE s.close = "await"
      <3>1. s.task = "finally" /\ ~s.cancelled
        BY <1>2, <2>1 DEF Closing, MayPut
      <3>2. PutDone(s).task = "done" /\ PutDone(s).cancelled = s.cancelled
        BY <3>1 DEF PutDone, Streams
      <3>3. QED
        BY <3>1, <3>2 DEF Closing
    <2>2. CASE s.close # "await"
      <3>1. PutDone(s).close = s.close
        BY <1>2 DEF MayPut, PutDone, Ends, Streams
      <3>2. QED
        BY <2>2, <3>1 DEF Closing
    <2>3. QED
      BY <2>1, <2>2
  <1>3. ASSUME s.cancelled
        PROVE  Closing(Unwound(s))
    <2>1. /\ Unwound(s).task \in {"finally", "done"} /\ Unwound(s).cancelled = FALSE
          /\ Unwound(s).queue = s.queue /\ Unwound(s).close = s.close
      BY DEF Unwound, Ends, Streams
    <2>2. QED
      BY <1>3, <2>1 DEF Closing
  <1>4. Closing(Cancelled(s))
    <2>1. /\ Cancelled(s).task = s.task /\ Cancelled(s).queue = <<>>
          /\ Cancelled(s).cancelled = (s.task \notin {"unstarted", "done"})
          /\ Cancelled(s).close = IF s.task = "unstarted" THEN "closed" ELSE "await"
      BY DEF Cancelled, Streams
    <2>2. QED
      BY <2>1 DEF Closing
  <1>5. Closing([s EXCEPT !.close = "closed"])
    BY DEF Closing, Streams
  <1>6. s.task = "unstarted" => Closing([s EXCEPT !.task = "running"])
    BY DEF Closing, Streams
  <1>7. s.queue # <<>> => Closing([s EXCEPT !.queue = Tail(@)])
    <2> DEFINE t == [s EXCEPT !.queue = Tail(@)]
    <2>1. t.task = s.task /\ t.cancelled = s.cancelled /\ t.close = s.close
      BY DEF Streams
    <2> HIDE DEF t
    <2>2. s.queue # <<>> => Closing(t)
      BY <2>1 DEF Closing
    <2>3. QED
      BY <2>2 DEF t
  <1>8. QED
    BY <1>1, <1>2, <1>3, <1>4, <1>5, <1>6, <1>7

LEMMA HeadsClosing ==
    ASSUME heads \in Streams, FollowMoves, Closing(heads)
    PROVE  Closing(heads')
  <1>1. ASSUME NEW x, Running, heads' = Puts(heads, x) \/ heads' = PutsLast(heads, x)
        PROVE  Closing(heads')
    BY <1>1, ClosingKept DEF Running
  <1>2. ASSUME NEW x, Running, Fails(x)
        PROVE  Closing(heads')
    BY <1>1, <1>2 DEF Fails
  <1>3. CASE BlockRecorded \/ FollowFails \/ StopReceived \/ BestEmitted
    BY <1>1, <1>2, <1>3 DEF BlockRecorded, FollowFails, StopReceived, BestEmitted, Receives
  <1>4. CASE LegacyLookup
    <2>1. Running /\ \E x : heads' = Puts(heads, x) \/ heads' = PutsLast(heads, x)
      BY <1>4 DEF LegacyLookup
    <2>2. QED
      BY <1>1, <2>1
  <1>5. CASE HeadPut
    BY <1>5, ClosingKept DEF HeadPut
  <1>6. CASE HeadsUnwound \/ HeadsCancel
    BY <1>6, ClosingKept DEF HeadsUnwound, HeadsCancel
  <1>7. CASE HeadsClosed \/ HeadsStart
    BY <1>7, ClosingKept DEF HeadsClosed, HeadsStart
  <1>8. CASE Taken
    BY <1>8, ClosingKept DEF Taken
  <1>9. CASE NodeStep
    BY <1>9 DEF NodeStep, BlockAnnounced, BestAnnounced, FinalityAnnounced, FollowStopped, LegacyHead
  <1>10. CASE Subscribed \/ FallsBack \/ SubscribedLegacy \/ Initialized \/ HeaderRead
              \/ FinalityRecorded \/ Unpinned \/ LegacyReceived
    BY <1>10 DEF Subscribed, FallsBack, SubscribedLegacy, Initialized, HeaderRead,
                 FinalityRecorded, Unpinned, LegacyReceived
  <1>11. QED
    BY <1>3, <1>4, <1>5, <1>6, <1>7, <1>8, <1>9, <1>10
    DEF FollowMoves, FollowSteps, TaskStep, HandlerStep

LEMMA EventsClosing ==
    ASSUME EndInv, [Next]_streamVars, Closing(events)
    PROVE  Closing(events')
  <1>0. events \in Streams
    BY DEF EndInv, LoopType
  <1>1. CASE LoopTakes
    <2>1. heads.queue[1].kind \in {"head", "error", "end"}
      <3>1. heads.queue \in Seq(Items) /\ heads.queue # <<>>
        BY <1>1 DEF LoopTakes, EndInv, FollowType, Streams
      <3>2. heads.queue[1] \in Items /\ 1 \in 1..Len(heads.queue)
        BY <3>1
      <3>3. heads.queue[1].kind # "event"
        BY <3>2 DEF EndInv, Eventless
      <3>4. QED
        BY <3>2, <3>3 DEF Items
    <2>2. UNCHANGED events \/ \E x : events' = PutsLast(events, x)
      BY <1>1, <2>1 DEF LoopTakes
    <2>3. events.task = "running" /\ ~events.cancelled
      BY <1>1 DEF LoopTakes, Polling
    <2>4. QED
      BY <1>0, <2>2, <2>3, ClosingKept
  <1>2. CASE EventsRead
    BY <1>2, <1>0, ClosingKept DEF EventsRead, Polling
  <1>3. CASE LoopFails
    BY <1>3, <1>0, ClosingKept DEF LoopFails
  <1>4. CASE EventPut
    BY <1>4, <1>0, ClosingKept DEF EventPut
  <1>5. CASE EventsUnwound
    BY <1>5, <1>0, ClosingKept DEF EventsUnwound
  <1>6. CASE EventsClosed
    BY <1>6, <1>0, ClosingKept DEF EventsClosed
  <1>7. CASE RuntimeCloses
    BY <1>7, <1>0, ClosingKept DEF RuntimeCloses
  <1>8. CASE RuntimeStarts
    BY <1>8, <1>0, ClosingKept DEF RuntimeStarts, EventsStart
  <1>9. CASE RuntimeTakes
    BY <1>9, <1>0, ClosingKept DEF RuntimeTakes, Front
  <1>10. CASE UNCHANGED events
    BY <1>10
  <1>11. QED
    BY <1>1, <1>2, <1>3, <1>4, <1>5, <1>6, <1>7, <1>8, <1>9, <1>10
    DEF Next, ClientStep, LoopStep, LoopStarts, LoopShuts, Unlooped, streamVars

CloseInv == EndInv /\ Closing(heads) /\ Closing(events)

LEMMA CloseStep ==
    ASSUME CloseInv, [Next]_streamVars
    PROVE  CloseInv'
  <1>1. EndInv' /\ heads \in Streams /\ events \in Streams
    BY EndStep DEF CloseInv, EndInv, FollowType, LoopType
  <1>2. Closing(heads')
    <2>1. CASE FollowMoves
      BY <1>1, <2>1, HeadsClosing DEF CloseInv
    <2>2. CASE UNCHANGED followVars
      BY <2>2 DEF followVars, CloseInv
    <2>3. QED
      BY <2>1, <2>2, StepMoves
  <1>3. Closing(events')
    BY EventsClosing DEF CloseInv
  <1>4. QED
    BY <1>1, <1>2, <1>3 DEF CloseInv

\* A stream that is being closed lacks nothing, except that an inner stream
\* may have to be closed first.
LEMMA ClosingGoesOn ==
    ASSUME NEW s \in Streams, Closing(s), s.close = "await", NEW size \in Nat \ {0}
    PROVE  s.cancelled \/ Awaited(s) \/ (s.task = "finally" /\ ~s.cancelled /\ MayPut(s, size))
  <1>1. s.queue = <<>> => Len(s.queue) < size
    OBVIOUS
  <1>2. QED
    BY <1>1 DEF Closing, Awaited, MayPut

LEMMA CloseIsNotStuckNow ==
    ASSUME StreamAssumption, CloseInv
    PROVE  CloseIsNeverStuck
  <1>1. /\ heads \in Streams /\ events \in Streams /\ kind \in {"heads", "events"}
        /\ QueueSize \in Nat \ {0} /\ EventQueueSize \in Nat \ {0}
    BY DEF CloseInv, EndInv, FollowType, LoopType, StreamAssumption
  <1>2. heads.close = "await" => CloseGoesOn
    BY <1>1, ClosingGoesOn DEF CloseInv, CloseGoesOn
  <1>3. ASSUME kind = "events", events.close = "await"
        PROVE  CloseGoesOn
    <2>1. heads.close \in {"open", "await", "closed"}
      BY <1>1 DEF Streams
    <2>2. events.cancelled \/ Awaited(events)
          \/ (events.task = "finally" /\ ~events.cancelled /\ MayPut(events, EventQueueSize))
      BY <1>1, <1>3, ClosingGoesOn DEF CloseInv
    <2>3. CASE heads.close = "open"
      BY <1>3, <2>2, <2>3 DEF CloseGoesOn, MayClose
    <2>4. CASE heads.close = "await"
      BY <1>2, <2>4
    <2>5. CASE heads.close = "closed"
      BY <2>2, <2>5 DEF CloseGoesOn, HeadsAreShut
    <2>6. QED
      BY <2>1, <2>3, <2>4, <2>5
  <1>4. QED
    BY <1>1, <1>2, <1>3 DEF CloseIsNeverStuck, Front

(* Closing a stream never waits for ever: until the close has ended, the     *)
(* task or that of the inner stream can go on, whatever it waited for when   *)
(* it was cancelled (bittensor.py:2149-2170, 2391-2401).                     *)
THEOREM ClosesGoOn ==
    ASSUME StreamAssumption
    PROVE  Spec => []CloseIsNeverStuck
  <1>1. Init => CloseInv
    <2>1. ASSUME Init
          PROVE  CloseInv
      <3>1. heads = NewStream /\ events = NewStream
        BY <2>1 DEF Init, FollowInit
      <3>2. QED
        BY <2>1, <3>1, InitEnd DEF CloseInv, Closing, NewStream
    <2>2. QED
      BY <2>1
  <1>2. CloseInv /\ [Next]_streamVars => CloseInv'
    BY CloseStep
  <1>3. CloseInv => CloseIsNeverStuck
    BY CloseIsNotStuckNow
  <1>4. QED
    BY <1>1, <1>2, <1>3, PTL DEF Spec

-----------------------------------------------------------------------------
(* The story that the node tells: between two notifications the subscriber   *)
(* could know a tree, a final block and how many best heads were announced.  *)
(* The first of these views is what the handler has been told, the last is   *)
(* the node's own, and each notification under way leads from one to the     *)
(* next.                                                                     *)

Views == [tree : SUBSET Chain, final : Chain, count : Nat]
Root == [tree |-> {<<>>}, final |-> <<>>, count |-> 0]
ViewOf(o) == [tree |-> o.tree, final |-> o.final, count |-> Len(o.sent)]
Reached(v, b) == b \in v.tree /\ Prefix(v.final, b)

Tells(o, m, v, u) ==
    /\ m.event = "newBlock" =>
           /\ m.block \notin v.tree /\ m.block # <<>> /\ Reached(v, Parent(m.block))
           /\ u.tree = v.tree \cup {m.block} /\ u.final = v.final /\ u.count = v.count
    /\ m.event = "bestBlockChanged" =>
           /\ Reached(v, m.block)
           /\ u.tree = v.tree /\ u.final = v.final /\ u.count = v.count + 1
           /\ u.count <= Len(o.sent) /\ m.block = o.sent[u.count]
    /\ m.event = "finalized" =>
           /\ Reached(v, u.final) /\ u.final # v.final /\ u.tree = v.tree /\ u.count = v.count
           /\ m.final = [n \in 1..(Len(u.final) - Len(v.final)) |->
                             SubSeq(u.final, 1, Len(v.final) + n)]
           /\ m.pruned = {c \in v.tree : Reached(v, c) /\ ~Related(u.final, c)}
    /\ m.event = "initialized" => m.older = o.initial \ {<<>>} /\ v = Root /\ u = Root
    /\ m.event = "stop" => u = v
    /\ m.event # "header"

Story(o, w, vs) ==
    /\ Len(vs) = Len(w) + 1 /\ vs[Len(vs)] = ViewOf(o)
    /\ \A i \in 1..Len(w) : Tells(o, w[i], vs[i], vs[i + 1])
    /\ \A i \in 1..Len(vs) : \A j \in i..Len(vs) : vs[i].tree \subseteq vs[j].tree
    /\ \A i \in 1..Len(w) : w[i].event = "initialized" => i = 1

\* The node adds to what it has announced, and never changes it.
Grows == /\ node'.initial = node.initial
         /\ Len(node.sent) \in Nat /\ Len(node'.sent) \in Nat /\ Len(node.sent) <= Len(node'.sent)
         /\ \A k \in 1..Len(node.sent) : node'.sent[k] = node.sent[k]

LEMMA TellsStill ==
    ASSUME Grows, NEW m, NEW v \in Views, NEW u \in Views, Tells(node, m, v, u)
    PROVE  Tells(node', m, v, u)
  <1>1. u.count \in Nat /\ v.count \in Nat
    BY DEF Views
  <1>2. u.count = v.count + 1 /\ u.count <= Len(node.sent) =>
            u.count <= Len(node'.sent) /\ u.count \in 1..Len(node.sent)
    BY <1>1 DEF Grows
  <1>3. m.event = "bestBlockChanged" => u.count <= Len(node'.sent) /\ m.block = node'.sent[u.count]
    BY <1>2 DEF Tells, Grows
  <1>4. m.event = "initialized" => m.older = node'.initial \ {<<>>}
    BY DEF Tells, Grows
  <1>5. QED
    BY <1>3, <1>4 DEF Tells

\* The node sends a notification.
LEMMA StoryGoesOn ==
    ASSUME wire \in Seq(Messages), NEW vs \in Seq(Views), Story(node, wire, vs), Grows,
           NEW m \in Messages, wire' = Append(wire, m),
           NEW u \in Views, u = ViewOf(node'), Tells(node', m, ViewOf(node), u),
           node.tree \subseteq u.tree, m.event = "initialized" => wire = <<>>
    PROVE  \E us \in Seq(Views) : Story(node', wire', us) /\ us[1] = vs[1]
  <1> DEFINE us == Append(vs, u)
             n == Len(wire)
  <1>1. /\ n \in Nat /\ Len(vs) = n + 1 /\ vs[n + 1] = ViewOf(node) /\ wire \in Seq(Messages)
        /\ Len(us) = n + 2 /\ us \in Seq(Views) /\ us[n + 2] = u
        /\ \A i \in 1..(n + 1) : us[i] = vs[i]
    <2>1. n \in Nat /\ Len(vs) = n + 1 /\ vs[Len(vs)] = ViewOf(node)
      BY DEF Story
    <2>2. /\ Len(us) = Len(vs) + 1 /\ us \in Seq(Views) /\ us[Len(vs) + 1] = u
          /\ \A i \in 1..Len(vs) : us[i] = vs[i]
      OBVIOUS
    <2> HIDE DEF us, n
    <2>3. QED
      BY <2>1, <2>2
  <1>2. /\ Len(wire') = n + 1 /\ wire'[n + 1] = m /\ \A i \in 1..n : wire'[i] = wire[i]
    OBVIOUS
  <1> HIDE DEF us, n
  <1>3. Len(us) = Len(wire') + 1 /\ us[Len(us)] = ViewOf(node')
    BY <1>1, <1>2
  <1>4. ASSUME NEW i \in 1..Len(wire')
        PROVE  Tells(node', wire'[i], us[i], us[i + 1])
    <2>1. CASE i \in 1..n
      <3>1. /\ i \in 1..(n + 1) /\ i + 1 \in 1..(n + 1) /\ i \in 1..Len(vs) /\ i + 1 \in 1..Len(vs)
        BY <1>1, <2>1
      <3>2. vs[i] \in Views /\ vs[i + 1] \in Views /\ Tells(node, wire[i], vs[i], vs[i + 1])
        BY <2>1, <3>1 DEF Story, n
      <3>3. Tells(node', wire[i], vs[i], vs[i + 1])
        BY <3>2, TellsStill
      <3>4. QED
        BY <1>1, <1>2, <2>1, <3>1, <3>3
    <2>2. CASE i = n + 1
      <3>1. us[i] = ViewOf(node) /\ us[i + 1] = u /\ wire'[i] = m
        <4>1. n + 1 \in 1..(n + 1) /\ n + 1 + 1 = n + 2
          BY <1>1
        <4>2. QED
          BY <1>1, <1>2, <2>2, <4>1
      <3>2. QED
        BY <3>1
    <2>3. QED
      BY <1>1, <1>2, <2>1, <2>2
  <1>5. ASSUME NEW i \in 1..Len(us), NEW j \in i..Len(us)
        PROVE  us[i].tree \subseteq us[j].tree
    <2>1. CASE j \in 1..(n + 1)
      <3>1. i \in 1..(n + 1) /\ i \in 1..Len(vs) /\ j \in i..Len(vs)
        BY <1>1, <2>1
      <3>2. vs[i].tree \subseteq vs[j].tree
        BY <3>1 DEF Story
      <3>3. QED
        BY <1>1, <2>1, <3>1, <3>2
    <2>2. CASE j = n + 2
      <3>1. CASE i = n + 2
        BY <2>2, <3>1
      <3>2. CASE i # n + 2
        <4>1. i \in 1..(n + 1) /\ i \in 1..Len(vs) /\ n + 1 \in i..Len(vs)
          BY <1>1, <3>2
        <4>2. vs[i].tree \subseteq vs[n + 1].tree
          BY <4>1 DEF Story
        <4>3. vs[n + 1].tree = node.tree
          BY <1>1 DEF ViewOf
        <4>4. QED
          BY <1>1, <2>2, <4>1, <4>2, <4>3
      <3>3. QED
        BY <3>1, <3>2
    <2>3. QED
      BY <1>1, <2>1, <2>2
  <1>6. ASSUME NEW i \in 1..Len(wire'), wire'[i].event = "initialized"
        PROVE  i = 1
    <2>1. CASE i \in 1..n
      BY <1>2, <1>6, <2>1 DEF Story, n
    <2>2. CASE i = n + 1
      BY <1>2, <1>6, <2>2 DEF n
    <2>3. QED
      BY <1>1, <1>2, <2>1, <2>2
  <1>7. us[1] = vs[1]
    BY <1>1
  <1>8. Story(node', wire', us)
    BY <1>3, <1>4, <1>5, <1>6 DEF Story
  <1>9. QED
    BY <1>1, <1>7, <1>8

\* The handler takes the first notification.
LEMMA StoryIsHeard ==
    ASSUME wire \in Seq(Messages), NEW vs \in Seq(Views), Story(node, wire, vs), node' = node, node \in Nodes,
           wire # <<>>, wire' = Tail(wire)
    PROVE  /\ vs[1] \in Views /\ vs[2] \in Views /\ Tells(node, Message, vs[1], vs[2])
           /\ vs[1].tree \subseteq vs[2].tree
           /\ \A i \in 1..Len(wire') : wire'[i].event # "initialized" /\ wire'[i] = wire[i + 1]
           /\ \E us \in Seq(Views) : Story(node', wire', us) /\ us[1] = vs[2]
  <1> DEFINE us == Tail(vs)
             n == Len(wire)
  <1>1. /\ n \in Nat \ {0} /\ Len(vs) = n + 1 /\ vs[n + 1] = ViewOf(node)
        /\ Len(us) = n /\ us \in Seq(Views)
        /\ \A i \in 1..n : us[i] = vs[i + 1]
    <2>1. n \in Nat \ {0} /\ Len(vs) = n + 1 /\ vs[Len(vs)] = ViewOf(node) /\ vs # <<>>
      BY DEF Story
    <2>2. /\ Len(us) = Len(vs) - 1 /\ us \in Seq(Views)
          /\ \A i \in 1..(Len(vs) - 1) : us[i] = vs[i + 1]
      BY <2>1
    <2> HIDE DEF us, n
    <2>3. QED
      BY <2>1, <2>2
  <1>2. /\ Len(wire') = n - 1 /\ \A i \in 1..(n - 1) : wire'[i] = wire[i + 1]
    BY <1>1
  <1> HIDE DEF us, n
  <1>3. Len(us) = Len(wire') + 1 /\ us[Len(us)] = ViewOf(node')
    <2>1. n \in 1..n
      BY <1>1
    <2>2. ViewOf(node') = ViewOf(node)
      BY DEF ViewOf
    <2>3. QED
      BY <1>1, <1>2, <2>1, <2>2
  <1>4. Grows
    BY DEF Grows, Nodes
  <1>5. ASSUME NEW i \in 1..Len(wire')
        PROVE  /\ Tells(node', wire'[i], us[i], us[i + 1])
               /\ wire'[i].event # "initialized" /\ wire'[i] = wire[i + 1]
    <2>1. /\ i \in 1..(n - 1) /\ i + 1 \in 1..n /\ i \in 1..n /\ i + 1 # 1
          /\ i + 1 \in 1..Len(vs) /\ i + 1 + 1 \in 1..Len(vs)
      BY <1>1, <1>2
    <2>2. /\ Tells(node, wire[i + 1], vs[i + 1], vs[i + 1 + 1]) /\ wire[i + 1].event # "initialized"
          /\ vs[i + 1] \in Views /\ vs[i + 1 + 1] \in Views
      BY <2>1 DEF Story, n
    <2>3. Tells(node', wire[i + 1], vs[i + 1], vs[i + 1 + 1])
      BY <1>4, <2>2, TellsStill
    <2>4. QED
      BY <1>1, <1>2, <2>1, <2>2, <2>3
  <1>6. ASSUME NEW i \in 1..Len(us), NEW j \in i..Len(us)
        PROVE  us[i].tree \subseteq us[j].tree
    <2>1. /\ i \in 1..n /\ j \in 1..n /\ i + 1 \in 1..Len(vs) /\ j + 1 \in (i + 1)..Len(vs)
      BY <1>1
    <2>2. vs[i + 1].tree \subseteq vs[j + 1].tree
      BY <2>1 DEF Story
    <2>3. QED
      BY <1>1, <2>1, <2>2
  <1>7. us[1] = vs[2]
    <2>1. 1 \in 1..n /\ 1 + 1 = 2
      BY <1>1
    <2>2. QED
      BY <1>1, <2>1
  <1>8. /\ vs[1] \in Views /\ vs[2] \in Views /\ Tells(node, Message, vs[1], vs[2])
        /\ vs[1].tree \subseteq vs[2].tree
    <2>1. 1 \in 1..Len(vs) /\ 2 \in 1..Len(vs) /\ 1 \in 1..Len(wire) /\ 2 \in 1..Len(vs) /\ 1 + 1 = 2
      BY <1>1 DEF n
    <2>2. Tells(node, wire[1], vs[1], vs[1 + 1])
      BY <2>1 DEF Story
    <2>3. QED
      BY <2>1, <2>2 DEF Story, Message
  <1>9. Story(node', wire', us)
    BY <1>3, <1>5, <1>6 DEF Story
  <1>10. QED
    BY <1>1, <1>5, <1>7, <1>8, <1>9

LEMMA StoryStays ==
    ASSUME node \in Nodes, UNCHANGED wire, ViewOf(node') = ViewOf(node), node'.sent = node.sent,
           node'.initial = node.initial, NEW vs \in Seq(Views), Story(node, wire, vs)
    PROVE  Story(node', wire', vs)
  <1>1. \A m, v, u : Tells(node, m, v, u) => Tells(node', m, v, u)
    BY DEF Tells
  <1>2. QED
    BY <1>1 DEF Story

-----------------------------------------------------------------------------
(* What the node says. *)

\* The blocks that the handler has not been told of yet.
Fresh(w) == {w[i].block : i \in {j \in 1..Len(w) : w[j].event = "newBlock"}}
NewIn(m) == IF m.event = "newBlock" THEN {m.block} ELSE {}

LEMMA FreshAppended ==
    ASSUME NEW w \in Seq(Messages), NEW m \in Messages
    PROVE  Fresh(Append(w, m)) = Fresh(w) \cup NewIn(m)
  <1> DEFINE x == Append(w, m)
             n == Len(w)
  <1>1. n \in Nat /\ Len(x) = n + 1 /\ x[n + 1] = m /\ \A i \in 1..n : x[i] = w[i]
    OBVIOUS
  <1>2. \A i \in 1..(n + 1) : i \in 1..n \/ i = n + 1
    BY <1>1
  <1>3. \A i \in 1..n : i \in 1..(n + 1)
    BY <1>1
  <1>4. n + 1 \in 1..(n + 1)
    BY <1>1
  <1> HIDE DEF x
  <1>5. Fresh(x) \subseteq Fresh(w) \cup NewIn(m)
    BY <1>1, <1>2 DEF Fresh, NewIn
  <1>6. Fresh(w) \cup NewIn(m) \subseteq Fresh(x)
    BY <1>1, <1>3, <1>4 DEF Fresh, NewIn
  <1>7. QED
    BY <1>5, <1>6 DEF x

LEMMA FreshTaken ==
    ASSUME NEW w \in Seq(Messages), w # <<>>
    PROVE  Fresh(w) = Fresh(Tail(w)) \cup NewIn(w[1])
  <1> DEFINE x == Tail(w)
             n == Len(w)
  <1>1. n \in Nat \ {0} /\ Len(x) = n - 1 /\ \A i \in 1..(n - 1) : x[i] = w[i + 1]
    OBVIOUS
  <1>2. /\ \A i \in 1..(n - 1) : i + 1 \in 1..n
        /\ \A i \in 1..n : i = 1 \/ (i - 1 \in 1..(n - 1) /\ i - 1 + 1 = i)
        /\ 1 \in 1..n
    BY <1>1
  <1> HIDE DEF x, n
  <1>3. Fresh(w) \subseteq Fresh(x) \cup NewIn(w[1])
    <2>1. ASSUME NEW i \in 1..n, w[i].event = "newBlock"
          PROVE  w[i].block \in Fresh(x) \cup NewIn(w[1])
      <3>1. CASE i = 1
        BY <2>1, <3>1 DEF NewIn
      <3>2. CASE i # 1
        <4>1. i - 1 \in 1..Len(x) /\ x[i - 1] = w[i]
          BY <1>1, <1>2, <3>2
        <4>2. QED
          BY <2>1, <4>1 DEF Fresh
      <3>3. QED
        BY <3>1, <3>2
    <2>2. QED
      BY <2>1 DEF Fresh, n
  <1>4. Fresh(x) \cup NewIn(w[1]) \subseteq Fresh(w)
    <2>1. ASSUME NEW i \in 1..Len(x), x[i].event = "newBlock"
          PROVE  x[i].block \in Fresh(w)
      <3>1. i + 1 \in 1..n /\ x[i] = w[i + 1]
        BY <1>1, <1>2
      <3>2. QED
        BY <2>1, <3>1 DEF Fresh, n
    <2>2. NewIn(w[1]) \subseteq Fresh(w)
      BY <1>2 DEF NewIn, Fresh, n
    <2>3. QED
      BY <2>1, <2>2 DEF Fresh
  <1>5. QED
    BY <1>3, <1>4 DEF x

\* A notification tells a view of the node from its view before.
Says(m) == /\ wire' = Append(wire, m) /\ m.event # "initialized"
           /\ Tells(node', m, ViewOf(node), ViewOf(node'))
           /\ node.tree \subseteq node'.tree /\ Grows
           /\ node' = [node' EXCEPT !.on = node.on, !.legacy = node.legacy,
                                    !.misused = node.misused, !.pins = node.pins \cup NewIn(m)]

LEMMA NodeSays ==
    ASSUME FollowType, NodeStep, ~node.legacy
    PROVE  node.on /\ Heard /\ \E m \in Messages : Says(m)
  <1>1. node \in Nodes /\ wire \in Seq(Messages) /\ node' \in Nodes
    BY NodeTyped DEF FollowType
  <1>2. ViewOf(node).tree = node.tree /\ ViewOf(node).final = node.final
        /\ ViewOf(node).count = Len(node.sent)
        /\ ViewOf(node').tree = node'.tree /\ ViewOf(node').final = node'.final
        /\ ViewOf(node').count = Len(node'.sent)
    BY DEF ViewOf
  <1>3. \A b : Live(b) <=> Reached(ViewOf(node), b)
    BY <1>2 DEF Live, Reached
  <1>4. CASE BlockAnnounced
    <2>1. PICK b \in Blocks \ (node.tree \cup {<<>>}) :
            /\ Live(Parent(b))
            /\ node' = [node EXCEPT !.tree = @ \cup {b}, !.pins = @ \cup {b}]
            /\ Tell([event |-> "newBlock", block |-> b])
      BY <1>4 DEF BlockAnnounced
    <2> DEFINE m == [event |-> "newBlock", block |-> b]
    <2>2. m \in Messages
      BY BlocksAreChains DEF Messages
    <2>3. Tells(node', m, ViewOf(node), ViewOf(node'))
      BY <1>1, <1>2, <1>3, <2>1 DEF Tells, Nodes
    <2>4. Grows /\ node.tree \subseteq node'.tree
      BY <1>1, <2>1 DEF Grows, Nodes
    <2>5. Says(m)
      BY <1>1, <2>1, <2>3, <2>4 DEF Says, Tell, NewIn, Nodes
    <2>6. QED
      BY <1>4, <2>2, <2>5 DEF BlockAnnounced, Following
  <1>5. CASE BestAnnounced
    <2>1. PICK b \in node.tree \ {node.best} :
            /\ Live(b)
            /\ node' = [node EXCEPT !.best = b, !.sent = Append(@, b)]
            /\ Tell([event |-> "bestBlockChanged", block |-> b])
      BY <1>5 DEF BestAnnounced
    <2> DEFINE m == [event |-> "bestBlockChanged", block |-> b]
    <2>2. m \in Messages /\ b \in Chain
      BY <1>1 DEF Messages, Nodes
    <2>3. /\ Len(node.sent) \in Nat /\ Len(node'.sent) = Len(node.sent) + 1
          /\ node'.sent[Len(node.sent) + 1] = b
          /\ \A k \in 1..Len(node.sent) : node'.sent[k] = node.sent[k]
      BY <1>1, <2>1, <2>2 DEF Nodes
    <2>4. Grows /\ node.tree \subseteq node'.tree
      BY <1>1, <2>1, <2>3 DEF Grows, Nodes
    <2>5. Tells(node', m, ViewOf(node), ViewOf(node'))
      BY <1>1, <1>2, <1>3, <2>1, <2>3 DEF Tells, Nodes
    <2>6. Says(m)
      BY <1>1, <2>1, <2>4, <2>5 DEF Says, Tell, NewIn, Nodes
    <2>7. QED
      BY <1>5, <2>2, <2>6 DEF BestAnnounced, Following
  <1>6. CASE FinalityAnnounced
    <2> DEFINE Pruned(b) == {c \in node.tree : Live(c) /\ ~Related(b, c)}
               Path(b) == [n \in 1..(Len(b) - Len(node.final)) |->
                                SubSeq(b, 1, Len(node.final) + n)]
               M(b) == [event |-> "finalized", pruned |-> Pruned(b), final |-> Path(b)]
    <2>1. PICK b \in node.tree \ {node.final} :
            /\ Live(b) /\ node' = [node EXCEPT !.final = b]
            /\ Tell(M(b))
      BY <1>6 DEF FinalityAnnounced
    <2>2. Pruned(b) = {c \in node.tree : Reached(ViewOf(node), c) /\ ~Related(b, c)}
      BY <1>3
    <2>3. M(b) \in Messages
      <3>1. wire' \in Seq(Messages) /\ wire' = Append(wire, M(b))
        BY <2>1, NodeTyped DEF FollowType, Tell
      <3>2. Len(wire) + 1 \in 1..Len(wire') /\ wire'[Len(wire) + 1] = M(b)
        BY <1>1, <3>1
      <3>3. QED
        BY <3>1, <3>2
    <2>4. Grows /\ node.tree \subseteq node'.tree
      BY <1>1, <2>1 DEF Grows, Nodes
    <2> DEFINE pruned == Pruned(b)
               path == Path(b)
    <2>5. path = [n \in 1..(Len(b) - Len(node.final)) |-> SubSeq(b, 1, Len(node.final) + n)]
          /\ M(b) = [event |-> "finalized", pruned |-> pruned, final |-> path]
          /\ pruned = {c \in node.tree : Reached(ViewOf(node), c) /\ ~Related(b, c)}
      BY <2>2
    <2> HIDE DEF Pruned, Path, M, pruned, path
    <2>6. Tells(node', M(b), ViewOf(node), ViewOf(node'))
      BY <1>1, <1>2, <1>3, <2>1, <2>5 DEF Tells, Nodes
    <2>7. Says(M(b))
      <3>1. M(b).event = "finalized" /\ NewIn(M(b)) = {}
        BY <2>5 DEF NewIn
      <3>2. node' = [node' EXCEPT !.on = node.on, !.legacy = node.legacy,
                                  !.misused = node.misused, !.pins = node.pins \cup {}]
        BY <1>1, <2>1 DEF Nodes
      <3>3. wire' = Append(wire, M(b))
        BY <2>1 DEF Tell
      <3>4. QED
        BY <2>4, <2>6, <3>1, <3>2, <3>3 DEF Says
    <2>8. QED
      BY <1>6, <2>3, <2>7 DEF FinalityAnnounced, Following
  <1>7. CASE FollowStopped
    <2> DEFINE m == [event |-> "stop"]
    <2>1. node' = [node EXCEPT !.stopped = TRUE] /\ Tell(m) /\ m \in Messages
      BY <1>7 DEF FollowStopped, Messages
    <2>2. ViewOf(node') = ViewOf(node)
      BY <1>1, <2>1 DEF ViewOf, Nodes
    <2>3. Grows /\ node.tree \subseteq node'.tree
      BY <1>1, <2>1 DEF Grows, Nodes
    <2>4. Says(m)
      BY <1>1, <2>1, <2>2, <2>3 DEF Says, Tell, NewIn, Nodes, Tells
    <2>5. QED
      BY <1>7, <2>1, <2>4 DEF FollowStopped, Following
  <1>8. QED
    BY <1>4, <1>5, <1>6, <1>7 DEF NodeStep, LegacyHead

-----------------------------------------------------------------------------
(* What the handler knows, of what it has been told: v is its view. *)

InitialOk == IsFiniteSet(node.initial) /\ node.initial \cap Chain = {<<>>}
Blank == /\ follow.pinned = {} /\ follow.pending = {} /\ DOMAIN follow.numbers = {}
         /\ follow.arg = {}
Before == /\ ~node.on /\ ~node.legacy /\ wire = <<>> /\ ViewOf(node) = Root
          /\ node.pins = node.initial /\ Blank

Waiting(v) == v = Root /\ Blank /\ node.pins = node.initial \cup Fresh(wire)
Greeted(v) == /\ v = Root /\ follow.arg = node.initial \ {<<>>} /\ follow.pinned = node.initial
              /\ follow.pending = {} /\ DOMAIN follow.numbers = {}
              /\ node.pins = node.initial \cup Fresh(wire)
\* What may still matter is known and pinned; the rest of the pinned blocks are
\* on their way to be unpinned, and are fewer than a batch when it waits.
Exact(v) ==
    /\ follow.final = v.final
    /\ \A b : Reached(v, b) => b \in DOMAIN follow.numbers
    /\ \A b \in DOMAIN follow.numbers :
           b \in Chain /\ b \in follow.pinned /\ follow.numbers[b] = Len(b)
    /\ follow.pending \subseteq follow.pinned /\ follow.arg \subseteq follow.pinned
    /\ \A b \in follow.pinned : Reached(v, b) <=> b \notin follow.pending \cup follow.arg
    /\ follow.pinned \subseteq v.tree \cup node.initial /\ IsFiniteSet(follow.pinned)
    /\ follow.step = "idle" => follow.arg = {} /\ Cardinality(follow.pending) < Batch
    /\ follow.step = "unpin" => follow.pending \subseteq follow.arg
    /\ node.pins = follow.pinned \cup Fresh(wire)

Greets == wire # <<>> /\ wire[1].event = "initialized"
Handles(v) ==
    \/ follow.step = "subscribe" /\ Before
    \/ follow.step = "idle" /\ Greets /\ Waiting(v)
    \/ follow.step = "header" /\ ~Greets /\ Greeted(v)
    \/ follow.step \in {"idle", "unpin"} /\ ~Greets /\ Exact(v)

HandlerInv(v) ==
    /\ InitialOk /\ ~node.misused
    /\ node.legacy => ~node.on /\ \A i \in 1..Len(wire) : wire[i].event = "header"
    /\ heads.task = "unstarted" => Before /\ follow = NewFollow
    /\ Heard /\ node.legacy => follow.mode = "legacy" /\ follow.step \in {"idle", "lookup"}
    /\ Heard /\ ~node.legacy /\ follow.mode = "legacy" => follow.step = "subscribe" /\ Before
    /\ Heard /\ ~node.legacy /\ follow.mode = "chainHead" => Handles(v)

LEMMA NodeHandled ==
    ASSUME FollowType, NodeStep, NEW v, HandlerInv(v)
    PROVE  HandlerInv(v)'
  <1>1. node \in Nodes /\ wire \in Seq(Messages) /\ FollowTyped /\ node' \in Nodes
        /\ UNCHANGED <<follow, heads>>
    BY NodeTyped DEF FollowType, NodeStep, BlockAnnounced, BestAnnounced, FinalityAnnounced,
                     FollowStopped, LegacyHead
  <1>2. CASE node.legacy
    <2>1. LegacyHead
      BY <1>2 DEF HandlerInv, NodeStep, BlockAnnounced, BestAnnounced, FinalityAnnounced,
                  FollowStopped, Following
    <2>2. PICK b \in Blocks : /\ node' = [node EXCEPT !.best = b, !.sent = Append(@, b)]
                              /\ Tell([event |-> "header", number |-> Len(b)])
      BY <2>1 DEF LegacyHead
    <2> DEFINE m == [event |-> "header", number |-> Len(b)]
    <2>3. wire' = Append(wire, m)
      BY <2>2 DEF Tell
    <2>4. /\ node'.legacy = node.legacy /\ node'.on = node.on /\ node'.misused = node.misused
          /\ node'.initial = node.initial
      BY <1>1, <2>2 DEF Nodes
    <2>5. Len(wire') = Len(wire) + 1 /\ wire'[Len(wire) + 1].event = "header"
          /\ \A i \in 1..Len(wire) : wire'[i] = wire[i]
      <3>1. m.event = "header"
        OBVIOUS
      <3>2. m \in Messages
        BY BlocksAreChains DEF Messages, Chain
      <3> HIDE DEF m
      <3>3. QED
        BY <1>1, <2>3, <3>1, <3>2
    <2>6. \A i \in 1..Len(wire') : wire'[i].event = "header"
      <3>1. \A i \in 1..Len(wire') : i \in 1..Len(wire) \/ i = Len(wire) + 1
        BY <1>1, <2>5
      <3>2. QED
        BY <1>2, <2>5, <3>1 DEF HandlerInv
    <2>7. heads.task # "unstarted"
      BY <1>2 DEF HandlerInv, Before
    <2>8. QED
      BY <1>1, <1>2, <2>4, <2>6, <2>7 DEF HandlerInv, InitialOk, Heard
  <1>3. CASE ~node.legacy
    <2>1. PICK m \in Messages : Says(m)
      BY <1>3, NodeSays
    <2>2. node.on /\ Heard
      BY <1>3, NodeSays
    <2>3. heads.task # "unstarted" /\ ~Before /\ follow.mode = "chainHead" /\ Handles(v)
      BY <1>1, <1>3, <2>2 DEF HandlerInv, Before, Heard, FollowTyped
    <2>4. /\ node'.on = node.on /\ node'.legacy = node.legacy /\ node'.misused = node.misused
          /\ node'.pins = node.pins \cup NewIn(m) /\ node'.initial = node.initial
      <3>1. node' = [node' EXCEPT !.on = node.on, !.legacy = node.legacy,
                                  !.misused = node.misused, !.pins = node.pins \cup NewIn(m)]
        BY <2>1 DEF Says
      <3>2. QED
        BY <1>1, <2>1, <3>1 DEF Nodes, Says, Grows
    <2>5. Fresh(wire') = Fresh(wire) \cup NewIn(m)
      BY <1>1, <2>1, FreshAppended DEF Says
    <2>6. Greets' <=> Greets
      <3>1. /\ wire' # <<>> /\ wire # <<>> => wire'[1] = wire[1]
            /\ wire = <<>> => wire'[1] = m
        BY <1>1, <2>1 DEF Says
      <3>2. QED
        BY <2>1, <3>1 DEF Greets, Says
    <2>7. Handles(v)'
      <3>1. Waiting(v) => Waiting(v)'
        BY <1>1, <2>4, <2>5 DEF Waiting, Blank
      <3>2. Greeted(v) => Greeted(v)'
        BY <1>1, <2>4, <2>5 DEF Greeted
      <3>3. Exact(v) => Exact(v)'
        BY <1>1, <2>4, <2>5 DEF Exact
      <3>4. QED
        BY <1>1, <2>3, <2>6, <3>1, <3>2, <3>3 DEF Handles
    <2>8. QED
      BY <1>1, <1>3, <2>2, <2>3, <2>4, <2>7 DEF HandlerInv, InitialOk, Heard
  <1>4. QED
    BY <1>2, <1>3

-----------------------------------------------------------------------------
(* Blocks and their heights. *)

LEMMA ParentIs ==
    ASSUME NEW b \in Chain, b # <<>>
    PROVE  /\ Parent(b) \in Chain /\ Len(b) = Len(Parent(b)) + 1
           /\ \A f \in Chain : Prefix(f, Parent(b)) => Prefix(f, b)
  <1>1. Len(b) \in Nat \ {0}
    BY DEF Chain
  <1>2. Len(b) - 1 \in 0..Len(b)
    BY <1>1
  <1>3. /\ Parent(b) \in Chain /\ Len(Parent(b)) = Len(b) - 1
        /\ \A i \in 1..(Len(b) - 1) : Parent(b)[i] = b[i]
    BY <1>2, ChainParts DEF Parent
  <1>4. ASSUME NEW f \in Chain, Prefix(f, Parent(b))
        PROVE  Prefix(f, b)
    <2>1. Len(f) \in Nat
      BY DEF Chain
    <2>2. Len(f) <= Len(Parent(b)) /\ \A i \in 1..Len(f) : f[i] = Parent(b)[i]
      BY <1>3, <1>4, PrefixIs
    <2>3. Len(f) <= Len(b) /\ \A i \in 1..Len(f) : i \in 1..(Len(b) - 1)
      BY <1>1, <1>3, <2>1, <2>2
    <2>4. \A i \in 1..Len(f) : f[i] = b[i]
      BY <1>3, <2>2, <2>3
    <2>5. QED
      BY <2>3, <2>4, PrefixIs
  <1>5. QED
    BY <1>1, <1>3, <1>4

LEMMA PrefixOfAll ==
    /\ <<>> \in Chain
    /\ \A b \in Chain : Prefix(b, b) /\ (Prefix(b, <<>>) <=> b = <<>>)
  <1>1. <<>> \in Chain /\ Len(<<>>) = 0
    BY DEF Chain
  <1>2. \A b \in Chain : Len(b) \in Nat
    BY DEF Chain
  <1>3. \A b \in Chain : Prefix(b, b)
    BY <1>2, PrefixIs
  <1>4. ASSUME NEW b \in Chain
        PROVE  Prefix(b, <<>>) <=> b = <<>>
    <2>1. Prefix(b, <<>>) => Len(b) = 0
      BY <1>1, <1>2, PrefixIs
    <2>2. Len(b) = 0 => b = <<>>
      BY <1>1, <1>2, ChainEqual
    <2>3. QED
      BY <1>1, <1>3, <2>1, <2>2
  <1>5. QED
    BY <1>1, <1>3, <1>4

\* What finality makes obsolete is what can no longer become final.
LEMMA FinalityForgets ==
    ASSUME NEW v \in Views, NEW u \in Views, NEW m, m.event = "finalized",
           NEW o, Tells(o, m, v, u)
    PROVE  LET last == m.final[Len(m.final)]
               gone == (m.pruned \cup {v.final} \cup {m.final[n] : n \in 1..Len(m.final)}) \ {last}
           IN /\ last = u.final
              /\ \A b : Reached(u, b) => Reached(v, b) /\ b \notin gone
              /\ \A b : Reached(v, b) /\ ~Reached(u, b) => b \in gone
  <1> DEFINE k == Len(v.final)
             l == Len(u.final)
             last == m.final[Len(m.final)]
             gone == (m.pruned \cup {v.final} \cup {m.final[n] : n \in 1..Len(m.final)}) \ {last}
  <1>1. /\ Reached(v, u.final) /\ u.final # v.final /\ u.tree = v.tree
        /\ m.final = [n \in 1..(l - k) |-> SubSeq(u.final, 1, k + n)]
        /\ m.pruned = {c \in v.tree : Reached(v, c) /\ ~Related(u.final, c)}
        /\ v.final \in Chain /\ u.final \in Chain /\ v.tree \subseteq Chain
    BY DEF Tells, Views
  <1>2. k \in Nat /\ l \in Nat /\ k < l /\ \A i \in 1..k : v.final[i] = u.final[i]
    <2>1. k \in Nat /\ l \in Nat
      BY <1>1 DEF Chain
    <2>2. k <= l /\ \A i \in 1..k : v.final[i] = u.final[i]
      BY <1>1, PrefixIs DEF Reached
    <2>3. k # l
      BY <1>1, <2>2, ChainEqual
    <2>4. QED
      BY <2>1, <2>2, <2>3
  <1>3. /\ l - k \in Nat /\ Len(m.final) = l - k /\ l - k \in 1..(l - k) /\ k + (l - k) = l
    <2>1. l - k \in Nat /\ l - k \in 1..(l - k) /\ k + (l - k) = l
      BY <1>2
    <2> DEFINE n == l - k
    <2> HIDE DEF n
    <2>2. Len(m.final) = n
      <3>1. m.final = [j \in 1..n |-> SubSeq(u.final, 1, k + j)] /\ n \in Nat
        BY <1>1, <2>1 DEF n
      <3>2. QED
        BY <3>1
    <2>3. QED
      BY <2>1, <2>2 DEF n
  <1> HIDE DEF k, l
  <1>4. last = u.final
    <2>1. last = SubSeq(u.final, 1, l)
      BY <1>1, <1>3
    <2>2. l \in 0..Len(u.final) /\ l = Len(u.final)
      BY <1>2 DEF l
    <2>3. SubSeq(u.final, 1, l) = u.final
      <3> DEFINE s == SubSeq(u.final, 1, l)
      <3>1. s \in Chain /\ Len(s) = Len(u.final) /\ \A i \in 1..Len(s) : s[i] = u.final[i]
        BY <1>1, <2>2, ChainParts
      <3> HIDE DEF s
      <3>2. s = u.final
        BY <1>1, <3>1, ChainEqual
      <3>3. QED
        BY <3>2 DEF s
    <2>4. QED
      BY <2>1, <2>3
  <1>5. ASSUME NEW n \in 1..(l - k)
        PROVE  /\ m.final[n] \in Chain /\ Len(m.final[n]) = k + n
               /\ \A i \in 1..(k + n) : m.final[n][i] = u.final[i]
    <2>1. k + n \in 0..Len(u.final)
      BY <1>2, <1>3 DEF l
    <2>2. m.final[n] = SubSeq(u.final, 1, k + n)
      BY <1>1
    <2>3. QED
      BY <1>1, <2>1, <2>2, ChainParts
  <1>6. ASSUME NEW b, Reached(u, b)
        PROVE  Reached(v, b) /\ b \notin gone
    <2>1. b \in Chain /\ b \in v.tree /\ Len(b) \in Nat /\ l <= Len(b)
          /\ \A i \in 1..l : u.final[i] = b[i]
      BY <1>1, <1>6, PrefixIs DEF Reached, Chain, l
    <2>2. Prefix(v.final, b)
      <3>1. k <= Len(b) /\ \A i \in 1..k : i \in 1..l
        BY <1>2, <2>1
      <3>2. \A i \in 1..k : v.final[i] = b[i]
        BY <1>2, <2>1, <3>1
      <3>3. QED
        BY <1>1, <2>1, <3>1, <3>2, PrefixIs DEF k
    <2>3. b \notin m.pruned
      BY <1>1, <1>6 DEF Reached, Related
    <2>4. b # v.final
      BY <1>2, <2>1 DEF k
    <2>5. ASSUME NEW n \in 1..Len(m.final), b = m.final[n]
          PROVE  b = last
      <3>1. n \in 1..(l - k) /\ k + n = Len(b)
        BY <1>3, <1>5, <2>5
      <3>2. n = l - k
        BY <1>2, <1>3, <2>1, <3>1
      <3>3. QED
        BY <1>3, <2>5, <3>2
    <2>6. QED
      BY <2>1, <2>2, <2>3, <2>4, <2>5 DEF Reached
  <1>7. ASSUME NEW b, Reached(v, b), ~Reached(u, b)
        PROVE  b \in gone
    <2>1. b \in Chain /\ b \in v.tree /\ Len(b) \in Nat /\ k <= Len(b)
          /\ \A i \in 1..k : v.final[i] = b[i]
      BY <1>1, <1>7, PrefixIs DEF Reached, Chain, k
    <2>2. ~Prefix(u.final, b) /\ b # last
      BY <1>1, <1>4, <1>7, <2>1, PrefixOfAll DEF Reached
    <2>3. CASE ~Prefix(b, u.final)
      BY <1>1, <1>7, <2>1, <2>2, <2>3 DEF Related
    <2>4. CASE Prefix(b, u.final)
      <3>1. Len(b) <= l /\ \A i \in 1..Len(b) : b[i] = u.final[i]
        BY <1>1, <2>1, <2>4, PrefixIs DEF l
      <3>2. Len(b) # l
        BY <1>1, <1>4, <2>1, <2>2, <3>1, ChainEqual DEF l
      <3>3. CASE Len(b) = k
        <4>1. b = v.final
          BY <1>1, <2>1, <3>3, ChainEqual DEF k
        <4>2. QED
          BY <2>2, <4>1
      <3>4. CASE Len(b) # k
        <4> DEFINE n == Len(b) - k
        <4>1. n \in 1..(l - k) /\ k + n = Len(b)
          BY <1>2, <2>1, <3>1, <3>2, <3>4
        <4> HIDE DEF n
        <4>2. m.final[n] = b
          <5>1. m.final[n] \in Chain /\ Len(m.final[n]) = Len(b)
                /\ \A i \in 1..Len(b) : m.final[n][i] = u.final[i]
            BY <1>5, <4>1
          <5>2. QED
            BY <2>1, <3>1, <5>1, ChainEqual
        <4>3. QED
          BY <1>3, <2>2, <4>1, <4>2
      <3>5. QED
        BY <3>3, <3>4
    <2>5. QED
      BY <2>3, <2>4
  <1>8. QED
    BY <1>4, <1>6, <1>7

-----------------------------------------------------------------------------
(* The handler keeps up with what it is told. *)

Follows(vs) == ~node.legacy => Story(node, wire, vs)
FollowInv(vs) == /\ FollowType /\ vs \in Seq(Views) /\ vs # <<>>
                 /\ Follows(vs) /\ HandlerInv(vs[1])

\* A notification of the follow is received: us are the views that are left.
LEMMA Listening ==
    ASSUME FollowType, NEW vs \in Seq(Views), Follows(vs), HandlerInv(vs[1]),
           NEW e, Receives(e), e # "header"
    PROVE  /\ ~node.legacy /\ follow.mode = "chainHead" /\ Heard /\ ~Greets' /\ UNCHANGED node
           /\ heads.task = "running" /\ follow.step = "idle"
           /\ Message.event = e /\ Message \in Messages /\ wire' = Tail(wire)
           /\ vs[1] \in Views /\ vs[2] \in Views /\ Tells(node, Message, vs[1], vs[2])
           /\ IF e = "initialized" THEN Waiting(vs[1]) ELSE Exact(vs[1])
           /\ Fresh(wire) = Fresh(wire') \cup NewIn(Message)
           /\ \E us \in Seq(Views) : us[1] = vs[2] /\ Follows(us)'
  <1>1. /\ wire \in Seq(Messages) /\ wire # <<>> /\ wire' = Tail(wire) /\ UNCHANGED node
        /\ Message.event = e /\ Message = wire[1] /\ follow.step = "idle" /\ Heard
        /\ heads.task = "running" /\ node \in Nodes
    BY DEF FollowType, Receives, Running, Heard, Message
  <1>2. 1 \in 1..Len(wire)
    BY <1>1
  <1>3. ~node.legacy
    BY <1>1, <1>2 DEF HandlerInv
  <1>4. follow.mode = "chainHead" /\ Handles(vs[1])
    BY <1>1, <1>3 DEF HandlerInv, Before, FollowType, FollowTyped
  <1>5. Greets <=> e = "initialized"
    BY <1>1 DEF Greets
  <1>6. IF e = "initialized" THEN Waiting(vs[1]) ELSE Exact(vs[1])
    BY <1>1, <1>4, <1>5 DEF Handles
  <1>7. Story(node, wire, vs)
    BY <1>3 DEF Follows
  <1>8. /\ vs[1] \in Views /\ vs[2] \in Views /\ Tells(node, Message, vs[1], vs[2])
        /\ \A i \in 1..Len(wire') : wire'[i].event # "initialized"
        /\ \E us \in Seq(Views) : Story(node', wire', us) /\ us[1] = vs[2]
    BY <1>1, <1>7, StoryIsHeard
  <1>9. ~Greets'
    <2>1. wire' # <<>> => 1 \in 1..Len(wire')
      BY <1>1, MessageTyped
    <2>2. QED
      BY <1>8, <2>1 DEF Greets
  <1>10. Message \in Messages
    BY <1>1, MessageTyped
  <1>11. Fresh(wire) = Fresh(wire') \cup NewIn(Message)
    BY <1>1, FreshTaken
  <1>12. QED
    BY <1>1, <1>3, <1>4, <1>6, <1>8, <1>9, <1>10, <1>11 DEF Follows

LEMMA InitializedHandled ==
    ASSUME FollowType, NEW vs \in Seq(Views), Follows(vs), HandlerInv(vs[1]), Initialized
    PROVE  HandlerInv(vs[2])'
  <1>1. Receives("initialized")
    BY DEF Initialized
  <1>2. /\ ~node.legacy /\ follow.mode = "chainHead" /\ Heard /\ ~Greets' /\ UNCHANGED node
        /\ heads.task = "running" /\ Waiting(vs[1]) /\ Message.event = "initialized"
        /\ Tells(node, Message, vs[1], vs[2]) /\ Fresh(wire) = Fresh(wire') \cup NewIn(Message)
    BY <1>1, Listening
  <1>3. Message.older = node.initial \ {<<>>} /\ vs[2] = Root /\ NewIn(Message) = {}
    BY <1>2 DEF Tells, NewIn
  <1>4. follow' = [follow EXCEPT !.pinned = @ \cup {<<>>} \cup Message.older,
                                 !.arg = Message.older, !.step = "header"] /\ UNCHANGED heads
    BY DEF Initialized
  <1>5. <<>> \in node.initial
    BY DEF HandlerInv, InitialOk
  <1>6. /\ follow'.pinned = node.initial /\ follow'.arg = node.initial \ {<<>>}
        /\ follow'.step = "header" /\ follow'.mode = "chainHead" /\ follow'.pending = {}
        /\ follow'.numbers = follow.numbers
    BY <1>2, <1>3, <1>4, <1>5 DEF Waiting, Blank, FollowType, FollowTyped
  <1>7. Greeted(vs[2])'
    BY <1>2, <1>3, <1>6 DEF Waiting, Blank, Greeted
  <1>8. Handles(vs[2])'
    BY <1>2, <1>6, <1>7 DEF Handles
  <1>9. QED
    BY <1>2, <1>4, <1>8 DEF HandlerInv, InitialOk, Heard

LEMMA HeaderHandled ==
    ASSUME StreamAssumption, FollowType, NEW v, HandlerInv(v), HeaderRead
    PROVE  HandlerInv(v)'
  <1>1. /\ follow.step = "header" /\ UNCHANGED <<node, wire, heads>> /\ Heard
        /\ follow' = [follow EXCEPT !.numbers = Numbers(<<>>, 0), !.final = <<>>,
                                    !.step = IF follow.arg = {} THEN "idle" ELSE "unpin"]
        /\ heads.task = "running"
    BY DEF HeaderRead, Running, Heard
  <1>2. ~node.legacy /\ follow.mode = "chainHead" /\ ~Greets /\ Greeted(v)
    BY <1>1 DEF HandlerInv, Handles, FollowType, FollowTyped
  <1>3. /\ follow'.numbers = Numbers(<<>>, 0) /\ follow'.final = <<>>
        /\ follow'.pinned = follow.pinned /\ follow'.pending = {} /\ follow'.arg = follow.arg
        /\ follow'.mode = follow.mode /\ follow'.step \in {"idle", "unpin"}
        /\ follow'.step = "idle" => follow.arg = {}
    BY <1>1, <1>2 DEF Greeted, FollowType, FollowTyped
  <1>4. DOMAIN follow'.numbers = {<<>>} /\ follow'.numbers[<<>>] = 0
    BY <1>2, <1>3 DEF Numbers, Greeted
  <1>5. /\ v.tree = {<<>>} /\ v.final = <<>> /\ <<>> \in Chain /\ Len(<<>>) = 0
        /\ \A b : Reached(v, b) <=> b = <<>>
    <2>1. v.tree = {<<>>} /\ v.final = <<>>
      BY <1>2 DEF Greeted, Root
    <2>2. <<>> \in Chain /\ Prefix(<<>>, <<>>)
      BY PrefixOfAll
    <2>3. QED
      BY <2>1, <2>2 DEF Reached
  <1>6. Cardinality({}) = 0 /\ 0 < Batch
    BY FS_EmptySet DEF StreamAssumption
  <1>7. IsFiniteSet(node.initial) /\ <<>> \in node.initial
    BY DEF HandlerInv, InitialOk
  <1>8. Exact(v)'
    <2>1. \A b \in follow'.pinned : Reached(v, b) <=> b \notin follow'.pending \cup follow'.arg
      BY <1>2, <1>3, <1>5 DEF Greeted
    <2>2. follow'.step = "idle" => follow'.arg = {} /\ Cardinality(follow'.pending) < Batch
      BY <1>3, <1>6
    <2>3. QED
      BY <1>1, <1>2, <1>3, <1>4, <1>5, <1>7, <2>1, <2>2 DEF Greeted, Exact
  <1>9. Handles(v)'
    BY <1>1, <1>2, <1>3, <1>8 DEF Handles, Greets
  <1>10. QED
    BY <1>1, <1>2, <1>3, <1>9 DEF HandlerInv, InitialOk, Heard

LEMMA BlockHandled ==
    ASSUME FollowType, NEW vs \in Seq(Views), Follows(vs), HandlerInv(vs[1]), BlockRecorded
    PROVE  HandlerInv(vs[2])' /\ UNCHANGED heads
  <1> DEFINE b == Message.block
             v == vs[1]
             u == vs[2]
  <1>1. Receives("newBlock")
    BY DEF BlockRecorded
  <1>2. /\ ~node.legacy /\ follow.mode = "chainHead" /\ Heard /\ ~Greets' /\ UNCHANGED node
        /\ heads.task = "running" /\ Exact(v) /\ Message.event = "newBlock" /\ Message \in Messages
        /\ Tells(node, Message, v, u) /\ Fresh(wire) = Fresh(wire') \cup {b} /\ follow.step = "idle"
        /\ v \in Views /\ u \in Views
    BY <1>1, Listening DEF NewIn
  <1>3. /\ b \notin v.tree /\ b # <<>> /\ Reached(v, Parent(b)) /\ u.tree = v.tree \cup {b}
        /\ u.final = v.final /\ b \in Chain
    BY <1>2 DEF Tells, Messages
  <1> HIDE DEF b, v, u
  <1>4. Known(Parent(b))
    BY <1>2, <1>3 DEF Exact, Known
  <1>5. /\ follow' = [follow EXCEPT !.pinned = @ \cup {b},
                                    !.numbers = Numbers(b, @[Parent(b)] + 1)]
        /\ UNCHANGED heads
    BY <1>4 DEF BlockRecorded, b
  <1>6. /\ follow'.pinned = follow.pinned \cup {b} /\ follow'.pending = follow.pending
        /\ follow'.arg = follow.arg /\ follow'.step = "idle" /\ follow'.mode = "chainHead"
        /\ follow'.numbers = Numbers(b, follow.numbers[Parent(b)] + 1)
        /\ follow'.final = follow.final
    BY <1>2, <1>5 DEF FollowType, FollowTyped
  <1>7. follow.numbers[Parent(b)] + 1 = Len(b)
    BY <1>2, <1>3, <1>4, ParentIs DEF Exact, Known
  <1>8. \A c : Reached(u, c) <=> Reached(v, c) \/ c = b
    <2>1. Prefix(u.final, b)
      BY <1>2, <1>3, ParentIs DEF Reached, Views
    <2>2. QED
      BY <1>3, <2>1 DEF Reached
  <1>9. b \notin follow.pinned
    <2>1. b \notin node.initial
      BY <1>3 DEF HandlerInv, InitialOk
    <2>2. QED
      BY <1>2, <1>3, <2>1 DEF Exact
  <1>10. IsFiniteSet(follow'.pinned)
    <2>1. IsFiniteSet(follow.pinned)
      BY <1>2 DEF Exact
    <2>2. IsFiniteSet(follow.pinned \cup {b})
      BY <2>1, FS_AddElement
    <2>3. QED
      BY <1>6, <2>2
  <1>11. /\ DOMAIN follow'.numbers = DOMAIN follow.numbers \cup {b}
         /\ \A c \in DOMAIN follow.numbers \cup {b} :
                follow'.numbers[c] = IF c = b THEN Len(b) ELSE follow.numbers[c]
    BY <1>6, <1>7 DEF Numbers
  <1>12. Exact(u)'
    <2>1. \A c : Reached(u, c) => c \in DOMAIN follow'.numbers
      BY <1>2, <1>8, <1>11 DEF Exact
    <2>2. \A c \in DOMAIN follow'.numbers :
              c \in Chain /\ c \in follow'.pinned /\ follow'.numbers[c] = Len(c)
      BY <1>2, <1>3, <1>6, <1>11 DEF Exact
    <2>3. \A c \in follow'.pinned : Reached(u, c) <=> c \notin follow'.pending \cup follow'.arg
      BY <1>2, <1>6, <1>8, <1>9 DEF Exact
    <2>4. follow'.pinned \subseteq u.tree \cup node'.initial
      BY <1>2, <1>3, <1>6 DEF Exact
    <2>5. node'.pins = follow'.pinned \cup Fresh(wire')
      BY <1>2, <1>6 DEF Exact
    <2>6. /\ follow'.final = u.final /\ follow'.pending \subseteq follow'.pinned
          /\ follow'.arg \subseteq follow'.pinned
          /\ follow'.arg = {} /\ Cardinality(follow'.pending) < Batch
      BY <1>2, <1>3, <1>6 DEF Exact
    <2>7. QED
      BY <1>6, <1>10, <2>1, <2>2, <2>3, <2>4, <2>5, <2>6 DEF Exact
  <1>13. Handles(u)'
    BY <1>2, <1>6, <1>12 DEF Handles
  <1>14. QED
    BY <1>2, <1>5, <1>13 DEF HandlerInv, InitialOk, Heard, u

LEMMA FinalityHandled ==
    ASSUME StreamAssumption, FollowType, NEW vs \in Seq(Views), Follows(vs), HandlerInv(vs[1]),
           FinalityRecorded
    PROVE  HandlerInv(vs[2])'
  <1> DEFINE v == vs[1]
             u == vs[2]
             gone == Obsolete(Message.final, Message.pruned)
             last == Message.final[Len(Message.final)]
             pending == follow.pending \cup (gone \cap follow.pinned)
  <1>1. Receives("finalized")
    BY DEF FinalityRecorded
  <1>2. /\ ~node.legacy /\ follow.mode = "chainHead" /\ Heard /\ ~Greets' /\ UNCHANGED node
        /\ heads.task = "running" /\ Exact(v) /\ Message.event = "finalized"
        /\ Tells(node, Message, v, u) /\ Fresh(wire) = Fresh(wire') /\ follow.step = "idle"
        /\ v \in Views /\ u \in Views
    <2>1. /\ ~node.legacy /\ follow.mode = "chainHead" /\ Heard /\ ~Greets' /\ UNCHANGED node
          /\ heads.task = "running" /\ Exact(v) /\ Message.event = "finalized"
          /\ Tells(node, Message, v, u) /\ follow.step = "idle"
          /\ v \in Views /\ u \in Views /\ Fresh(wire) = Fresh(wire') \cup NewIn(Message)
      BY <1>1, Listening
    <2>2. NewIn(Message) = {}
      BY <2>1 DEF NewIn
    <2>3. QED
      BY <2>1, <2>2
  <1>3. PICK full \in BOOLEAN :
            /\ full <=> Cardinality(pending) >= Batch
            /\ follow' = [follow EXCEPT !.final = last, !.pending = pending,
                                        !.arg = IF full THEN pending ELSE {},
                                        !.step = IF full THEN "unpin" ELSE "idle"]
            /\ UNCHANGED heads
    BY DEF FinalityRecorded
  <1>4. gone = (Message.pruned \cup {v.final} \cup {Message.final[n] : n \in 1..Len(Message.final)})
                   \ {last}
    BY <1>2 DEF Obsolete, Exact
  <1>5. /\ last = u.final
        /\ \A b : Reached(u, b) => Reached(v, b) /\ b \notin gone
        /\ \A b : Reached(v, b) /\ ~Reached(u, b) => b \in gone
    BY <1>2, <1>4, FinalityForgets
  <1>6. u.tree = v.tree
    BY <1>2 DEF Tells
  <1> HIDE DEF v, u, gone, last, pending
  <1>7. /\ follow'.pinned = follow.pinned /\ follow'.numbers = follow.numbers
        /\ follow'.final = u.final /\ follow'.pending = pending /\ follow'.mode = "chainHead"
        /\ follow'.arg = IF full THEN pending ELSE {}
        /\ follow'.step = IF full THEN "unpin" ELSE "idle"
    BY <1>2, <1>3, <1>5 DEF FollowType, FollowTyped
  <1>8. /\ pending \subseteq follow.pinned /\ IsFiniteSet(follow.pinned) /\ follow.arg = {}
        /\ \A b \in follow.pinned : b \in pending <=> b \in follow.pending \/ b \in gone
    BY <1>2 DEF Exact, pending
  <1>9. IsFiniteSet(pending) /\ Cardinality(pending) \in Nat
    BY <1>8, FS_Subset, FS_CardinalityType
  <1>10. ~full => Cardinality(pending) < Batch
    <2> DEFINE size == Cardinality(pending)
    <2>1. size \in Nat /\ Batch \in Nat /\ (full <=> size >= Batch)
      BY <1>3, <1>9 DEF StreamAssumption
    <2> HIDE DEF size
    <2>2. ~full => size < Batch
      BY <2>1
    <2>3. QED
      BY <2>2 DEF size
  <1>11. Exact(u)'
    <2>1. \A b : Reached(u, b) => b \in DOMAIN follow'.numbers
      BY <1>2, <1>5, <1>7 DEF Exact
    <2>2. \A b \in DOMAIN follow'.numbers :
              b \in Chain /\ b \in follow'.pinned /\ follow'.numbers[b] = Len(b)
      BY <1>2, <1>7 DEF Exact
    <2>3. \A b \in follow'.pinned : Reached(u, b) <=> b \notin follow'.pending \cup follow'.arg
      <3>1. \A b \in follow.pinned : Reached(v, b) <=> b \notin follow.pending
        BY <1>2, <1>8 DEF Exact
      <3>2. \A b \in follow.pinned : Reached(u, b) <=> b \notin pending
        BY <1>5, <1>8, <3>1
      <3>3. QED
        BY <1>7, <3>2
    <2>4. follow'.pinned \subseteq u.tree \cup node'.initial
      BY <1>2, <1>6, <1>7 DEF Exact
    <2>5. node'.pins = follow'.pinned \cup Fresh(wire')
      BY <1>2, <1>7 DEF Exact
    <2>6. follow'.pending \subseteq follow'.pinned /\ follow'.arg \subseteq follow'.pinned
          /\ IsFiniteSet(follow'.pinned)
      BY <1>7, <1>8
    <2>7. follow'.step = "idle" => follow'.arg = {} /\ Cardinality(follow'.pending) < Batch
      BY <1>7, <1>10
    <2>8. follow'.step = "unpin" => follow'.pending \subseteq follow'.arg
      BY <1>7
    <2>9. QED
      BY <1>7, <2>1, <2>2, <2>3, <2>4, <2>5, <2>6, <2>7, <2>8 DEF Exact
  <1>12. Handles(u)'
    BY <1>2, <1>7, <1>11 DEF Handles
  <1>13. QED
    BY <1>2, <1>3, <1>7, <1>12 DEF HandlerInv, InitialOk, Heard, u

\* The node is asked to unpin only what it still has pinned.
LEMMA UnpinHandled ==
    ASSUME StreamAssumption, FollowType, NEW vs \in Seq(Views), Follows(vs), HandlerInv(vs[1]),
           Unpinned
    PROVE  HandlerInv(vs[1])'
  <1> DEFINE v == vs[1]
  <1>1. /\ follow.step = "unpin" /\ heads.task = "running" /\ Heard /\ UNCHANGED <<wire, heads>>
        /\ node' = [node EXCEPT !.pins = @ \ follow.arg,
                                !.misused = ~(follow.arg \subseteq node.pins)]
        /\ follow' = [follow EXCEPT
              !.pinned = @ \ follow.arg, !.pending = @ \ follow.arg,
              !.numbers = [b \in DOMAIN @ \ follow.arg |-> @[b]],
              !.arg = {}, !.step = "idle"]
    BY DEF Unpinned, Running, Heard
  <1>2. ~node.legacy /\ follow.mode = "chainHead" /\ ~Greets /\ Exact(v)
    BY <1>1 DEF HandlerInv, Handles, FollowType, FollowTyped
  <1>3. /\ follow'.pinned = follow.pinned \ follow.arg /\ follow'.arg = {}
        /\ follow'.pending = follow.pending \ follow.arg /\ follow'.step = "idle"
        /\ follow'.numbers = [b \in DOMAIN follow.numbers \ follow.arg |-> follow.numbers[b]]
        /\ follow'.mode = "chainHead" /\ follow'.final = follow.final
    BY <1>1, <1>2 DEF FollowType, FollowTyped
  <1>4. /\ node'.pins = node.pins \ follow.arg /\ node'.initial = node.initial
        /\ node'.misused = ~(follow.arg \subseteq node.pins)
        /\ node'.legacy = node.legacy /\ node'.on = node.on
    BY <1>1 DEF FollowType, Nodes
  <1>5. follow'.pending = {}
    BY <1>1, <1>2, <1>3 DEF Exact
  <1>6. ASSUME NEW b \in Fresh(wire)
        PROVE  b \notin follow.arg
    <2>1. PICK i \in 1..Len(wire) : wire[i].event = "newBlock" /\ b = wire[i].block
      BY <1>6 DEF Fresh
    <2>2. Story(node, wire, vs) /\ wire \in Seq(Messages) /\ Len(wire) \in Nat
      BY <1>2 DEF Follows, FollowType
    <2>3. wire[i] \in Messages /\ i \in Nat \ {0} /\ i \in 1..Len(vs) /\ 1 \in 1..Len(vs)
          /\ i \in 1..Len(vs)
      BY <2>2 DEF Story
    <2>4. b \in Chain /\ b # <<>> /\ b \notin vs[i].tree
      BY <2>1, <2>2, <2>3 DEF Story, Tells, Messages
    <2>5. v.tree \subseteq vs[i].tree
      BY <2>2, <2>3 DEF Story
    <2>6. b \notin node.initial
      BY <2>4 DEF HandlerInv, InitialOk
    <2>7. QED
      BY <1>2, <2>4, <2>5, <2>6 DEF Exact
  <1> HIDE DEF v
  <1>7. follow.arg \subseteq node.pins
    BY <1>2 DEF Exact
  <1>8. Cardinality({}) = 0 /\ 0 < Batch
    BY FS_EmptySet DEF StreamAssumption
  <1>9. Exact(v)'
    <2>1. \A b : Reached(v, b) => b \in DOMAIN follow'.numbers
      BY <1>2, <1>3 DEF Exact
    <2>2. \A b \in DOMAIN follow'.numbers :
              b \in Chain /\ b \in follow'.pinned /\ follow'.numbers[b] = Len(b)
      BY <1>2, <1>3 DEF Exact
    <2>3. \A b \in follow'.pinned : Reached(v, b) <=> b \notin follow'.pending \cup follow'.arg
      BY <1>2, <1>3, <1>5 DEF Exact
    <2>4. follow'.pinned \subseteq v.tree \cup node'.initial
      BY <1>2, <1>3, <1>4 DEF Exact
    <2>5. node'.pins = follow'.pinned \cup Fresh(wire')
      BY <1>1, <1>2, <1>3, <1>4, <1>6 DEF Exact
    <2>6. IsFiniteSet(follow'.pinned)
      BY <1>2, <1>3, FS_Subset DEF Exact
    <2>7. Cardinality(follow'.pending) < Batch
      BY <1>5, <1>8
    <2>8. follow'.final = v.final
      BY <1>2, <1>3 DEF Exact
    <2>9. QED
      BY <1>3, <1>5, <2>1, <2>2, <2>3, <2>4, <2>5, <2>6, <2>7, <2>8 DEF Exact
  <1>10. Handles(v)'
    BY <1>1, <1>2, <1>3, <1>9 DEF Handles, Greets
  <1>11. QED
    BY <1>1, <1>2, <1>3, <1>4, <1>7, <1>10 DEF HandlerInv, InitialOk, Heard, v

LEMMA BestHandled ==
    ASSUME FollowType, NEW vs \in Seq(Views), Follows(vs), HandlerInv(vs[1]), BestEmitted
    PROVE  /\ HandlerInv(vs[2])' /\ heads.task = "running" /\ UNCHANGED node
           /\ vs[1].count \in Nat /\ vs[2].count = vs[1].count + 1
           /\ vs[2].count <= Len(node.sent)
           /\ LET b == node.sent[vs[2].count]
              IN b \in Chain /\ heads' = Puts(heads, BlockRef(b, Len(b)))
  <1> DEFINE b == Message.block
             v == vs[1]
             u == vs[2]
  <1>1. Receives("bestBlockChanged")
    BY DEF BestEmitted
  <1>2. /\ ~node.legacy /\ follow.mode = "chainHead" /\ Heard /\ ~Greets' /\ UNCHANGED node
        /\ heads.task = "running" /\ Exact(v) /\ Message.event = "bestBlockChanged"
        /\ Tells(node, Message, v, u) /\ follow.step = "idle" /\ Message \in Messages
        /\ v \in Views /\ u \in Views /\ Fresh(wire) = Fresh(wire') \cup NewIn(Message)
    BY <1>1, Listening
  <1>3. NewIn(Message) = {}
    BY <1>2 DEF NewIn
  <1>4. /\ Reached(v, b) /\ u.tree = v.tree /\ u.final = v.final /\ u.count = v.count + 1
        /\ u.count <= Len(node.sent) /\ b = node.sent[u.count] /\ b \in Chain /\ v.count \in Nat
    BY <1>2 DEF Tells, Messages, Views
  <1> HIDE DEF b, v, u
  <1>5. Known(b) /\ follow.numbers[b] = Len(b)
    BY <1>2, <1>4 DEF Exact, Known
  <1>6. heads' = Puts(heads, BlockRef(b, Len(b))) /\ UNCHANGED follow
    BY <1>5 DEF BestEmitted, b
  <1>7. heads'.task = "put"
    BY <1>6 DEF Puts, FollowType, Streams
  <1>8. \A c : Reached(u, c) <=> Reached(v, c)
    BY <1>4 DEF Reached
  <1>9. Exact(u)'
    BY <1>2, <1>3, <1>4, <1>6, <1>8 DEF Exact
  <1>10. Handles(u)'
    BY <1>2, <1>6, <1>9 DEF Handles
  <1>11. HandlerInv(u)'
    BY <1>2, <1>6, <1>7, <1>10 DEF HandlerInv, InitialOk, Heard
  <1>12. QED
    BY <1>2, <1>4, <1>6, <1>11 DEF u, v

LEMMA SubscribeHandled ==
    ASSUME FollowType, NEW vs \in Seq(Views), Follows(vs), HandlerInv(vs[1]),
           Subscribed \/ FallsBack \/ SubscribedLegacy
    PROVE  /\ HandlerInv(vs[1])' /\ UNCHANGED heads
           /\ \E us \in Seq(Views) : us[1] = vs[1] /\ Follows(us)'
  <1> DEFINE v == vs[1]
  <1>1. heads.task = "running" /\ Heard /\ UNCHANGED heads /\ follow.step = "subscribe"
    BY DEF Subscribed, FallsBack, SubscribedLegacy, Running, Heard
  <1>2. Before
    BY <1>1 DEF HandlerInv, Handles, FollowType, FollowTyped
  <1>3. Story(node, wire, vs) /\ node \in Nodes /\ wire = <<>> /\ ~node.legacy /\ ViewOf(node) = Root
    BY <1>2 DEF Follows, Before, FollowType
  <1>4. CASE SubscribedLegacy
    <2>1. /\ node' = [node EXCEPT !.legacy = TRUE] /\ follow' = [follow EXCEPT !.step = "idle"]
          /\ UNCHANGED wire /\ follow.mode = "legacy"
      BY <1>4 DEF SubscribedLegacy
    <2>2. /\ node'.legacy /\ ~node'.on /\ node'.misused = node.misused /\ wire' = <<>>
          /\ node'.initial = node.initial /\ follow'.step = "idle" /\ follow'.mode = "legacy"
      BY <1>2, <2>1 DEF Before, FollowType, Nodes, FollowTyped
    <2>3. \A i \in 1..Len(wire') : wire'[i].event = "header"
      BY <2>2
    <2>4. HandlerInv(v)'
      BY <1>1, <2>2, <2>3 DEF HandlerInv, InitialOk, Heard
    <2>5. QED
      BY <1>1, <2>2, <2>4 DEF Follows
  <1>5. CASE FallsBack
    <2>1. follow' = [follow EXCEPT !.mode = "legacy"] /\ UNCHANGED <<node, wire>>
      BY <1>5 DEF FallsBack
    <2>2. /\ follow'.mode = "legacy" /\ follow'.step = "subscribe"
          /\ follow'.pinned = follow.pinned /\ follow'.pending = follow.pending
          /\ follow'.numbers = follow.numbers /\ follow'.arg = follow.arg
      BY <1>1, <2>1 DEF FollowType, FollowTyped
    <2>3. Before'
      BY <1>2, <2>1, <2>2 DEF Before, Blank
    <2>4. HandlerInv(v)'
      BY <1>1, <1>2, <2>1, <2>2, <2>3 DEF HandlerInv, InitialOk, Heard, Before
    <2>5. Follows(vs)'
      BY <1>3, <2>1, StoryStays DEF Follows
    <2>6. QED
      BY <1>1, <2>4, <2>5
  <1>6. CASE Subscribed
    <2> DEFINE m == [event |-> "initialized", older |-> node.initial \ {<<>>}]
    <2>1. /\ node' = [node EXCEPT !.on = TRUE] /\ wire' = <<m>>
          /\ follow' = [follow EXCEPT !.step = "idle", !.id = TRUE] /\ follow.mode = "chainHead"
      BY <1>6 DEF Subscribed
    <2>2. /\ follow'.mode = "chainHead" /\ follow'.step = "idle"
          /\ follow'.pinned = follow.pinned /\ follow'.pending = follow.pending
          /\ follow'.numbers = follow.numbers /\ follow'.arg = follow.arg
          /\ node'.pins = node.pins /\ node'.initial = node.initial /\ ~node'.legacy
          /\ node'.misused = node.misused /\ node'.tree = node.tree
          /\ node'.sent = node.sent /\ node'.final = node.final
      BY <1>2, <2>1 DEF FollowType, FollowTyped, Nodes, Before
    <2>3. Greets' /\ Fresh(wire') = {}
      <3>1. wire' # <<>> /\ Len(wire') = 1 /\ wire'[1] = m /\ m.event = "initialized"
        BY <2>1
      <3>2. \A i \in 1..Len(wire') : wire'[i].event = "initialized"
        BY <3>1
      <3>3. QED
        BY <3>1, <3>2 DEF Greets, Fresh
    <2>4. v = Root /\ wire \in Seq(Messages)
      BY <1>3 DEF Story
    <2>5. m \in Messages
      BY <1>3 DEF Messages, Nodes
    <2>6. wire' = Append(wire, m)
      BY <1>3, <2>1
    <2>7. ViewOf(node') = Root /\ Root \in Views
      <3>1. <<>> \in Chain
        BY PrefixOfAll
      <3>2. QED
        BY <1>3, <2>2, <3>1 DEF ViewOf, Root, Views
    <2>8. Grows
      BY <1>3, <2>2 DEF Grows, Nodes
    <2>9. Tells(node', m, ViewOf(node), ViewOf(node'))
      BY <1>3, <2>2, <2>7 DEF Tells
    <2> HIDE DEF m, v
    <2>10. node.tree \subseteq ViewOf(node').tree
      BY <2>2 DEF ViewOf
    <2>11. \E us \in Seq(Views) : Story(node', wire', us) /\ us[1] = vs[1]
      BY <1>3, <2>4, <2>5, <2>6, <2>7, <2>8, <2>9, <2>10, StoryGoesOn
    <2>12. Waiting(v)'
      BY <1>2, <2>2, <2>3, <2>4 DEF Waiting, Before, Blank
    <2>13. Handles(v)'
      BY <2>2, <2>3, <2>12 DEF Handles
    <2>14. HandlerInv(v)'
      BY <1>1, <2>2, <2>13 DEF HandlerInv, InitialOk, Heard
    <2>15. QED
      BY <1>1, <2>11, <2>14 DEF Follows, v
  <1>7. QED
    BY <1>4, <1>5, <1>6

LEMMA StopHandled ==
    ASSUME FollowType, NEW vs \in Seq(Views), Follows(vs), HandlerInv(vs[1]), StopReceived
    PROVE  /\ HandlerInv(vs[2])' /\ vs[2] = vs[1] /\ UNCHANGED node
           /\ heads.task = "running" /\ Fails("stopped")
  <1>1. Receives("stop") /\ Fails("stopped") /\ follow' = [follow EXCEPT !.stopped = TRUE]
    BY DEF StopReceived
  <1>2. /\ ~node.legacy /\ UNCHANGED node /\ heads.task = "running" /\ Message.event = "stop"
        /\ Tells(node, Message, vs[1], vs[2])
    BY <1>1, Listening
  <1>3. heads'.task = "put_last"
    BY <1>1 DEF Fails, PutsLast, FollowType, Streams
  <1>4. QED
    BY <1>1, <1>2, <1>3 DEF Tells, HandlerInv, InitialOk, Heard

\* The legacy subscription: its heads have the height that was notified.
LEMMA LegacyHandled ==
    ASSUME FollowType, NEW vs \in Seq(Views), Follows(vs), HandlerInv(vs[1]),
           LegacyReceived \/ LegacyLookup
    PROVE  /\ HandlerInv(vs[1])' /\ node.legacy /\ UNCHANGED node /\ heads.task = "running"
           /\ \/ UNCHANGED heads \/ Fails("unresolved")
              \/ \E b \in Chain : heads' = Puts(heads, BlockRef(b, Len(b)))
  <1>1. heads.task = "running" /\ Heard /\ UNCHANGED node /\ heads \in Streams /\ node \in Nodes
    BY DEF LegacyReceived, LegacyLookup, Receives, Running, Heard, FollowType
  <1>2. CASE LegacyReceived
    <2>1. /\ Receives("header") /\ UNCHANGED heads /\ wire \in Seq(Messages)
          /\ follow' = [follow EXCEPT !.step = "lookup", !.arg = {Message.number}]
      BY <1>2 DEF LegacyReceived, FollowType
    <2>2. node.legacy
      <3>1. wire # <<>> /\ wire[1].event = "header" /\ 1 \in 1..Len(wire)
        BY <2>1 DEF Receives, Message
      <3>2. QED
        BY <3>1 DEF Follows, Story, Tells
    <2>3. /\ follow'.step = "lookup" /\ follow'.mode = follow.mode /\ follow.mode = "legacy"
      BY <1>1, <2>1, <2>2 DEF HandlerInv, FollowType, FollowTyped
    <2>4. \A i \in 1..Len(wire') : wire'[i].event = "header"
      <3>1. wire' = Tail(wire) /\ wire # <<>>
        BY <2>1 DEF Receives
      <3>2. \A i \in 1..Len(wire') : i + 1 \in 1..Len(wire) /\ wire'[i] = wire[i + 1]
        BY <2>1, <3>1
      <3>3. QED
        BY <2>2, <3>2 DEF HandlerInv
    <2>5. QED
      BY <1>1, <2>1, <2>2, <2>3, <2>4 DEF HandlerInv, InitialOk, Heard
  <1>3. CASE LegacyLookup
    <2>1. PICK n \in follow.arg :
            /\ follow.step = "lookup" /\ UNCHANGED wire
            /\ follow' = [follow EXCEPT !.step = "idle", !.arg = {}]
            /\ heads' = IF n <= Len(node.best) THEN Puts(heads, BlockRef(Carried(n), n))
                                               ELSE PutsLast(heads, Error("unresolved"))
      BY <1>3 DEF LegacyLookup
    <2>2. node.legacy /\ follow.mode = "legacy"
      BY <1>1, <2>1 DEF HandlerInv, Handles, FollowType, FollowTyped
    <2>3. follow'.step = "idle" /\ follow'.mode = "legacy"
      BY <2>1, <2>2 DEF FollowType, FollowTyped
    <2>4. n \in Nat /\ node.best \in Chain /\ Len(node.best) \in Nat
      BY <1>1, <2>1 DEF FollowType, FollowTyped, Nodes, Chain
    <2>5. n <= Len(node.best) => Carried(n) \in Chain /\ n = Len(Carried(n))
      BY <2>4, ChainParts DEF Carried
    <2>6. \/ Fails("unresolved") \/ \E b \in Chain : heads' = Puts(heads, BlockRef(b, Len(b)))
      <3>1. CASE n <= Len(node.best)
        BY <2>1, <2>5, <3>1
      <3>2. CASE ~(n <= Len(node.best))
        BY <2>1, <3>2 DEF Fails
      <3>3. QED
        BY <3>1, <3>2
    <2>7. heads'.task # "unstarted"
      <3>1. heads'.task \in {"put", "put_last"}
        BY <1>1, <2>6 DEF Fails, Puts, PutsLast, Streams
      <3>2. QED
        BY <3>1
    <2>8. QED
      BY <1>1, <2>1, <2>2, <2>3, <2>6, <2>7 DEF HandlerInv, InitialOk, Heard
  <1>4. QED
    BY <1>2, <1>3

-----------------------------------------------------------------------------
(* The steps of the stream. *)

\* What becomes of the stream when no best head is told of.
Quiet == \/ UNCHANGED heads
         \/ heads.task = "unstarted" /\ heads' = [heads EXCEPT !.task = "running"]
         \/ heads.task = "running" /\ \E e \in {"provider", "stopped", "unresolved"} : Fails(e)
         \/ MayPut(heads, QueueSize) /\ heads' = PutDone(heads)
         \/ heads' = Unwound(heads) /\ heads.cancelled
         \/ HeadsCancel
         \/ heads' = [heads EXCEPT !.close = "closed"] /\ Awaited(heads)

LEMMA StreamHandled ==
    ASSUME FollowType, NEW v, HandlerInv(v),
           HeadPut \/ HeadsUnwound \/ HeadsCancel \/ FollowFails \/ HeadsStart \/ HeadsClosed
    PROVE  /\ HandlerInv(v)' /\ Quiet /\ UNCHANGED wire
           /\ node'.sent = node.sent /\ ViewOf(node') = ViewOf(node) /\ node'.initial = node.initial
           /\ node'.legacy = node.legacy
  <1>1. heads \in Streams /\ node \in Nodes /\ FollowTyped
    BY DEF FollowType
  <1>2. CASE HeadPut \/ HeadsUnwound \/ HeadsCancel \/ FollowFails
    <2>1. UNCHANGED <<node, wire, follow>>
      BY <1>2 DEF HeadPut, HeadsUnwound, HeadsCancel, FollowFails
    <2>2. /\ heads'.task = "unstarted" => heads.task = "unstarted"
          /\ Heard' => Heard
      <3>1. CASE HeadPut
        <4> DEFINE stored == [heads EXCEPT !.queue = Append(@, heads.item)]
        <4>1. stored.task = heads.task /\ heads' = PutDone(heads)
              /\ heads.task \in {"put", "put_last", "finally"} /\ stored \in Streams
          <5>1. Append(heads.queue, heads.item) \in Seq(Items)
            BY <1>1 DEF Streams
          <5>2. QED
            BY <1>1, <3>1, <5>1 DEF HeadPut, MayPut, Streams
        <4>2. heads'.task = CASE heads.task = "put" -> "running" [] heads.task = "put_last" -> "finally"
                              [] heads.task = "finally" -> "done"
          <5>1. heads' = CASE heads.task = "put" -> [stored EXCEPT !.task = "running"]
                           [] heads.task = "put_last" -> Ends(stored)
                           [] heads.task = "finally" -> [stored EXCEPT !.task = "done"]
            BY <4>1 DEF PutDone
          <5> HIDE DEF stored
          <5>2. Ends(stored).task = "finally"
            BY <4>1 DEF Ends, Streams
          <5>3. QED
            BY <4>1, <5>1, <5>2 DEF Streams
        <4>3. QED
          BY <4>1, <4>2 DEF Heard
      <3>2. CASE HeadsUnwound
        <4>1. heads'.task \in {"done", "finally"}
          BY <1>1, <3>2 DEF HeadsUnwound, Unwound, Ends, Streams
        <4>2. QED
          BY <4>1 DEF Heard
      <3>3. CASE HeadsCancel
        BY <1>1, <3>3 DEF HeadsCancel, Cancelled, Streams, Heard
      <3>4. CASE FollowFails
        BY <1>1, <3>4 DEF FollowFails, Fails, PutsLast, Streams, Heard
      <3>5. QED
        BY <1>2, <3>1, <3>2, <3>3, <3>4
    <2>3. Quiet
      BY <1>2 DEF Quiet, HeadPut, HeadsUnwound, FollowFails, Running
    <2>4. HandlerInv(v)'
      <3>1. Before => Before'
        BY <2>1 DEF Blank, Before
      <3>2. InitialOk => InitialOk'
        BY <2>1 DEF InitialOk
      <3>3. Handles(v) => Handles(v)'
        <4>1. (Greets' <=> Greets) /\ (Waiting(v) => Waiting(v)') /\ (Greeted(v) => Greeted(v)')
          BY <2>1 DEF Greets, Waiting, Blank, Greeted
        <4>2. Exact(v) => Exact(v)'
          BY <2>1 DEF Exact
        <4>3. QED
          BY <2>1, <3>1, <4>1, <4>2 DEF Handles
      <3>4. QED
        BY <2>1, <2>2, <3>1, <3>2, <3>3 DEF HandlerInv
    <2>5. QED
      BY <2>1, <2>3, <2>4
  <1>3. CASE HeadsStart
    <2>1. /\ heads' = [heads EXCEPT !.task = "running"] /\ heads.task = "unstarted"
          /\ follow' = [follow EXCEPT !.step = "subscribe"] /\ UNCHANGED <<node, wire>>
      BY <1>3 DEF HeadsStart
    <2>2. Before /\ follow = NewFollow
      BY <2>1 DEF HandlerInv
    <2>3. /\ follow'.step = "subscribe" /\ follow'.mode = "chainHead" /\ heads'.task = "running"
          /\ follow'.pinned = follow.pinned /\ follow'.pending = follow.pending
          /\ follow'.numbers = follow.numbers /\ follow'.arg = follow.arg
      BY <1>1, <2>1, <2>2 DEF NewFollow, Streams
    <2>4. Before' /\ ~node.legacy
      BY <2>1, <2>2, <2>3 DEF Before, Blank
    <2>5. HandlerInv(v)'
      BY <2>1, <2>3, <2>4 DEF HandlerInv, InitialOk, Handles
    <2>6. QED
      BY <2>1, <2>5 DEF Quiet
  <1>4. CASE HeadsClosed
    <2>1. /\ Awaited(heads) /\ heads' = [heads EXCEPT !.close = "closed"] /\ UNCHANGED wire
          /\ node' = [node EXCEPT !.on = node.on /\ (follow.stopped \/ ~follow.id)]
      BY <1>4 DEF HeadsClosed
    <2>2. /\ heads'.task = "done" /\ node'.legacy = node.legacy /\ node'.misused = node.misused
          /\ node'.sent = node.sent /\ node'.initial = node.initial
          /\ node'.tree = node.tree /\ node'.final = node.final
          /\ node'.on => node.on
      BY <1>1, <2>1 DEF Awaited, Streams, Nodes
    <2>3. HandlerInv(v)'
      BY <2>1, <2>2 DEF HandlerInv, InitialOk, Heard
    <2>4. QED
      BY <2>1, <2>2, <2>3 DEF Quiet, ViewOf
  <1>5. QED
    BY <1>2, <1>3, <1>4

-----------------------------------------------------------------------------
(* Every step of the subscription. *)

Emits(v, u) ==
    /\ heads.task = "running" /\ UNCHANGED node
    /\ v.count \in Nat /\ u.count = v.count + 1 /\ u.count <= Len(node.sent)
    /\ LET b == node.sent[u.count]
       IN b \in Chain /\ heads' = Puts(heads, BlockRef(b, Len(b)))
EmitsLegacy == /\ heads.task = "running" /\ node.legacy
               /\ \E b \in Chain : heads' = Puts(heads, BlockRef(b, Len(b)))
Advances(v, u) ==
    /\ node.legacy => node'.legacy
    /\ ~node.legacy => Grows
    /\ Emits(v, u) \/ EmitsLegacy \/ (Quiet /\ u.count = v.count)

LEMMA FollowStep ==
    ASSUME StreamAssumption, NEW vs, FollowInv(vs), FollowSteps
    PROVE  \E us : FollowInv(us)' /\ Advances(vs[1], us[1])
  <1>1. /\ FollowType /\ vs \in Seq(Views) /\ vs # <<>> /\ Follows(vs) /\ HandlerInv(vs[1])
        /\ vs[1] \in Views /\ vs[1].count \in Nat /\ node \in Nodes
    <2>1. FollowType /\ vs \in Seq(Views) /\ vs # <<>> /\ Follows(vs) /\ HandlerInv(vs[1])
      BY DEF FollowInv
    <2>2. vs[1] \in Views
      BY <2>1
    <2>3. QED
      BY <2>1, <2>2 DEF Views, FollowType
  <1>2. FollowType'
    BY <1>1, FollowTypeStep DEF FollowMoves
  <1>3. \A us \in Seq(Views) : Story(node', wire', us) => us # <<>>
    BY <1>2 DEF Story, FollowType
  <1>4. UNCHANGED node => (node.legacy => node'.legacy) /\ (~node.legacy => Grows)
    BY <1>1 DEF Grows, Nodes
  <1>5. CASE NodeStep
    <2>1. HandlerInv(vs[1])' /\ UNCHANGED heads
      BY <1>1, <1>5, NodeHandled DEF NodeStep, BlockAnnounced, BestAnnounced, FinalityAnnounced,
                                     FollowStopped, LegacyHead
    <2>2. CASE node.legacy
      <3>1. node'.legacy
        <4>1. LegacyHead
          BY <1>1, <1>5, <2>2 DEF HandlerInv, NodeStep, BlockAnnounced, BestAnnounced, FinalityAnnounced,
                                  FollowStopped, Following
        <4>2. QED
          BY <1>1, <2>2, <4>1 DEF LegacyHead, Nodes
      <3>2. FollowInv(vs)' /\ Advances(vs[1], vs[1])
        BY <1>1, <1>2, <2>1, <2>2, <3>1 DEF FollowInv, Follows, Advances, Quiet
      <3>3. QED
        BY <3>2
    <2>3. CASE ~node.legacy
      <3>1. PICK m \in Messages : Says(m)
        BY <1>1, <1>5, <2>3, NodeSays
      <3>2. ViewOf(node') \in Views /\ ViewOf(node').tree = node'.tree
        BY <1>2 DEF ViewOf, Views, FollowType, Nodes
      <3>3. \E us \in Seq(Views) : Story(node', wire', us) /\ us[1] = vs[1]
        BY <1>1, <2>3, <3>1, <3>2, StoryGoesOn DEF Says, Follows, FollowType
      <3>4. PICK us \in Seq(Views) : Story(node', wire', us) /\ us[1] = vs[1]
        BY <3>3
      <3>5. FollowInv(us)'
        BY <1>2, <1>3, <2>1, <3>4 DEF FollowInv, Follows
      <3>6. Advances(vs[1], us[1])
        BY <2>1, <2>3, <3>1, <3>4 DEF Advances, Quiet, Says
      <3>7. QED
        BY <3>5, <3>6
    <2>4. QED
      BY <2>2, <2>3
  <1>6. CASE Subscribed \/ FallsBack \/ SubscribedLegacy
    <2>1. PICK us \in Seq(Views) : us[1] = vs[1] /\ Follows(us)'
      BY <1>1, <1>6, SubscribeHandled
    <2>2. HandlerInv(us[1])' /\ UNCHANGED heads
      BY <1>1, <1>6, <2>1, SubscribeHandled
    <2>3. node'.sent = node.sent /\ node'.initial = node.initial /\ (node.legacy => node'.legacy)
      BY <1>1, <1>6 DEF Subscribed, FallsBack, SubscribedLegacy, Nodes
    <2>4. Advances(vs[1], us[1])
      BY <1>1, <2>1, <2>2, <2>3 DEF Advances, Quiet, Grows, Nodes
    <2>5. CASE ~node'.legacy
      BY <1>2, <1>3, <2>1, <2>2, <2>4, <2>5 DEF FollowInv, Follows
    <2>6. CASE node'.legacy
      <3>1. FollowInv(vs)' /\ Advances(vs[1], vs[1])
        BY <1>1, <1>2, <2>1, <2>2, <2>4, <2>6 DEF FollowInv, Follows
      <3>2. QED
        BY <3>1
    <2>7. QED
      BY <2>5, <2>6
  <1>7. CASE Initialized \/ BlockRecorded \/ BestEmitted \/ FinalityRecorded \/ StopReceived
    <2>1. PICK e \in {"initialized", "newBlock", "bestBlockChanged", "finalized", "stop"} :
              Receives(e) /\ (e = "bestBlockChanged" => BestEmitted)
      BY <1>7 DEF Initialized, BlockRecorded, BestEmitted, FinalityRecorded, StopReceived
    <2>2. /\ ~node.legacy /\ UNCHANGED node /\ Message.event = e /\ Tells(node, Message, vs[1], vs[2])
          /\ \E us \in Seq(Views) : us[1] = vs[2] /\ Follows(us)'
      BY <1>1, <2>1, Listening
    <2>3. PICK us \in Seq(Views) : us[1] = vs[2] /\ Follows(us)'
      BY <2>2
    <2>4. HandlerInv(vs[2])'
      BY <1>1, <1>7, InitializedHandled, BlockHandled, BestHandled, FinalityHandled, StopHandled
    <2>5. FollowInv(us)'
      BY <1>2, <1>3, <2>2, <2>3, <2>4 DEF FollowInv, Follows
    <2>6. Emits(vs[1], vs[2]) \/ (Quiet /\ vs[2].count = vs[1].count)
      <3>1. CASE BestEmitted
        BY <1>1, <2>2, <3>1, BestHandled DEF Emits
      <3>2. CASE ~BestEmitted
        <4>1. vs[2].count = vs[1].count
          BY <2>1, <2>2, <3>2 DEF Tells
        <4>2. Quiet
          <5>1. UNCHANGED heads \/ (heads.task = "running" /\ Fails("stopped"))
            BY <1>1, <1>7, <3>2, BlockHandled, StopHandled DEF Initialized, FinalityRecorded
          <5>2. QED
            BY <5>1 DEF Quiet
        <4>3. QED
          BY <4>1, <4>2
      <3>3. QED
        BY <3>1, <3>2
    <2>7. QED
      BY <1>4, <2>2, <2>3, <2>5, <2>6 DEF Advances
  <1>8. CASE HeaderRead \/ Unpinned
    <2>1. /\ HandlerInv(vs[1])' /\ UNCHANGED <<wire, heads>> /\ node'.sent = node.sent
          /\ ViewOf(node') = ViewOf(node) /\ node'.initial = node.initial
          /\ node'.legacy = node.legacy
      <3>1. CASE HeaderRead
        BY <1>1, <3>1, HeaderHandled DEF HeaderRead
      <3>2. CASE Unpinned
        BY <1>1, <3>2, UnpinHandled DEF Unpinned, ViewOf, Nodes
      <3>3. QED
        BY <1>8, <3>1, <3>2
    <2>2. Follows(vs)'
      BY <1>1, <2>1, StoryStays DEF Follows
    <2>3. FollowInv(vs)' /\ Advances(vs[1], vs[1])
      BY <1>1, <1>2, <2>1, <2>2 DEF FollowInv, Advances, Quiet, Grows, Nodes
    <2>4. QED
      BY <2>3
  <1>9. CASE LegacyReceived \/ LegacyLookup
    <2>1. /\ HandlerInv(vs[1])' /\ node.legacy /\ UNCHANGED node /\ heads.task = "running"
          /\ \/ UNCHANGED heads \/ Fails("unresolved")
             \/ \E b \in Chain : heads' = Puts(heads, BlockRef(b, Len(b)))
      BY <1>1, <1>9, LegacyHandled
    <2>2. FollowInv(vs)'
      BY <1>1, <1>2, <2>1 DEF FollowInv, Follows
    <2>3. Advances(vs[1], vs[1])
      BY <2>1 DEF Advances, Quiet, EmitsLegacy
    <2>4. QED
      BY <2>2, <2>3
  <1>10. CASE HeadPut \/ HeadsUnwound \/ HeadsCancel \/ FollowFails \/ HeadsStart \/ HeadsClosed
    <2>1. /\ HandlerInv(vs[1])' /\ Quiet /\ UNCHANGED wire
          /\ node'.sent = node.sent /\ ViewOf(node') = ViewOf(node) /\ node'.initial = node.initial
          /\ node'.legacy = node.legacy
      BY <1>1, <1>10, StreamHandled
    <2>2. Follows(vs)'
      BY <1>1, <2>1, StoryStays DEF Follows
    <2>3. FollowInv(vs)' /\ Advances(vs[1], vs[1])
      BY <1>1, <1>2, <2>1, <2>2 DEF FollowInv, Advances, Grows, Nodes
    <2>4. QED
      BY <2>3
  <1>11. QED
    BY <1>5, <1>6, <1>7, <1>8, <1>9, <1>10 DEF FollowSteps, TaskStep, HandlerStep

-----------------------------------------------------------------------------
(* What a step makes of a stream s, when it puts nothing good on it.         *)

Keeps(s, t) == /\ t.queue = s.queue /\ (t.item = s.item \/ ~Good(t.item))
               /\ t.task = "put" => s.task = "put" /\ t.item = s.item
               /\ t.task = "running" => s.task \in {"running", "unstarted"}
               /\ t.task = "unstarted" => s.task = "unstarted"
               /\ t.close = "open" => s.close = "open"
Stores(s, t) == /\ s.task \in {"put", "put_last", "finally"}
                /\ t.queue = Append(s.queue, s.item) /\ (t.item = s.item \/ ~Good(t.item))
                /\ t.task = "running" <=> s.task = "put"
                /\ t.task \notin {"put", "unstarted"} /\ t.close = s.close
Clears(s, t) == t.queue = <<>> /\ t.item = s.item /\ t.task = s.task /\ t.close # "open"
Gives(s, t) == /\ s.queue # <<>> /\ t.queue = Tail(s.queue) /\ t.item = s.item
               /\ t.task = s.task /\ t.close = s.close
Idles(s, t) == Keeps(s, t) \/ Stores(s, t) \/ Clears(s, t)

Undecoded(item) == item.kind = "error" => item.error # "decode"

LEMMA SentinelIsNotGood == ~Good(Sentinel) /\ Undecoded(Sentinel)
  BY DEF Good, Sentinel, Undecoded

LEMMA StreamIdles ==
    ASSUME NEW s \in Streams
    PROVE  /\ Keeps(s, s)
           /\ s.task = "unstarted" => Keeps(s, [s EXCEPT !.task = "running"])
           /\ \A item \in Items : ~Good(item) => Keeps(s, PutsLast(s, item))
           /\ s.task \in {"put", "put_last", "finally"} => Stores(s, PutDone(s))
           /\ Keeps(s, Unwound(s)) /\ Clears(s, Cancelled(s))
           /\ Keeps(s, [s EXCEPT !.close = "closed"])
           /\ s.queue # <<>> => Gives(s, [s EXCEPT !.queue = Tail(@)])
  <1>1. Keeps(s, s) /\ (s.task = "unstarted" => Keeps(s, [s EXCEPT !.task = "running"]))
        /\ Keeps(s, [s EXCEPT !.close = "closed"])
    BY DEF Keeps, Streams, Tasks
  <1>2. \A item \in Items : ~Good(item) => Keeps(s, PutsLast(s, item))
    BY DEF Keeps, Streams, PutsLast
  <1>3. ASSUME s.task \in {"put", "put_last", "finally"}
        PROVE  Stores(s, PutDone(s))
    <2> DEFINE q == Append(s.queue, s.item)
    <2>1. PutDone(s).queue = q /\ (PutDone(s).item = s.item \/ PutDone(s).item = Sentinel)
          /\ PutDone(s).close = s.close
          /\ PutDone(s).task = CASE s.task = "put" -> "running" [] s.task = "put_last" -> "finally"
                                 [] s.task = "finally" -> "done"
      BY <1>3 DEF Streams, PutDone, Ends
    <2>2. QED
      BY <1>3, <2>1, SentinelIsNotGood DEF Stores
  <1>4. Keeps(s, Unwound(s))
    <2>1. /\ Unwound(s).queue = s.queue /\ (Unwound(s).item = s.item \/ Unwound(s).item = Sentinel)
          /\ Unwound(s).close = s.close /\ Unwound(s).task \in {"done", "finally"}
      BY DEF Unwound, Ends, Streams
    <2>2. QED
      BY <2>1, SentinelIsNotGood DEF Keeps
  <1>5. Clears(s, Cancelled(s))
    BY DEF Clears, Cancelled, Streams
  <1>6. s.queue # <<>> => Gives(s, [s EXCEPT !.queue = Tail(@)])
    BY DEF Gives, Streams
  <1>7. QED
    BY <1>1, <1>2, <1>3, <1>4, <1>5, <1>6

LEMMA QuietIs ==
    ASSUME FollowType, Quiet
    PROVE  Idles(heads, heads') /\ (heads'.item = heads.item \/ Undecoded(heads'.item))
  <1>1. heads \in Streams
    BY DEF FollowType
  <1>2. CASE heads.task = "running" /\ \E e \in {"provider", "stopped", "unresolved"} : Fails(e)
    <2>1. PICK e \in {"provider", "stopped", "unresolved"} : Fails(e)
      BY <1>2
    <2>2. Error(e) \in Items /\ ~Good(Error(e)) /\ Undecoded(Error(e))
      BY ErrorTyped DEF Good, Error, Undecoded
    <2>3. heads'.item = Error(e)
      BY <1>1, <2>1 DEF Fails, PutsLast, Streams
    <2>4. QED
      BY <1>1, <2>1, <2>2, <2>3, StreamIdles DEF Fails, Idles
  <1>3. CASE MayPut(heads, QueueSize) /\ heads' = PutDone(heads)
    <2>1. heads.task \in {"put", "put_last", "finally"}
      BY <1>3 DEF MayPut
    <2>2. heads'.item = heads.item \/ heads'.item = Sentinel
      BY <1>1, <1>3, <2>1 DEF PutDone, Ends, Streams
    <2>3. Stores(heads, heads')
      BY <1>1, <1>3, <2>1, StreamIdles
    <2>4. QED
      BY <2>2, <2>3, SentinelIsNotGood DEF Idles
  <1>4. CASE heads' = Unwound(heads)
    <2>1. heads'.item = heads.item \/ heads'.item = Sentinel
      BY <1>1, <1>4 DEF Unwound, Ends, Streams
    <2>2. Keeps(heads, heads')
      BY <1>1, <1>4, StreamIdles
    <2>3. QED
      BY <2>1, <2>2, SentinelIsNotGood DEF Idles
  <1>5. CASE HeadsCancel
    BY <1>1, <1>5, StreamIdles DEF Idles, Clears, HeadsCancel
  <1>6. CASE heads' = [heads EXCEPT !.close = "closed"]
    BY <1>1, <1>6, StreamIdles DEF Idles, Streams
  <1>7. CASE heads.task = "unstarted" /\ heads' = [heads EXCEPT !.task = "running"]
    BY <1>1, <1>7, StreamIdles DEF Idles, Streams
  <1>8. CASE UNCHANGED heads
    BY <1>1, <1>8, StreamIdles DEF Idles
  <1>9. QED
    BY <1>2, <1>3, <1>4, <1>5, <1>6, <1>7, <1>8 DEF Quiet

-----------------------------------------------------------------------------
(* The heads carry their true height, and the handler never meets a block    *)
(* that it does not know.                                                    *)

Honest(item) == Undecoded(item) /\ (item.kind = "head" => item.number = Len(item.block))
HeadsHonest == /\ Honest(heads.item)
               /\ \A i \in 1..Len(heads.queue) : Honest(heads.queue[i])

LEMMA HonestyLasts ==
    ASSUME FollowType, HeadsHonest, NEW v, NEW u, Advances(v, u) \/ Taken
    PROVE  HeadsHonest'
  <1>1. heads \in Streams /\ heads.queue \in Seq(Items) /\ heads.item \in Items
    BY DEF FollowType, Streams
  <1>2. CASE Emits(v, u) \/ EmitsLegacy
    <2>1. PICK b \in Chain : heads' = Puts(heads, BlockRef(b, Len(b)))
      BY <1>2 DEF Emits, EmitsLegacy
    <2>2. heads'.queue = heads.queue /\ heads'.item = BlockRef(b, Len(b))
      BY <1>1, <2>1 DEF Puts, Streams
    <2>3. QED
      BY <2>2 DEF HeadsHonest, Honest, Undecoded, BlockRef
  <1>3. CASE Quiet \/ Taken
    <2>1. \/ Idles(heads, heads') /\ (heads'.item = heads.item \/ Undecoded(heads'.item))
          \/ Gives(heads, heads')
      BY <1>1, <1>3, QuietIs, StreamIdles DEF Taken
    <2>2. heads'.item = heads.item \/ (Undecoded(heads'.item) /\ ~Good(heads'.item))
      BY <2>1 DEF Idles, Keeps, Stores, Clears, Gives
    <2>3. Honest(heads'.item)
      BY <2>2 DEF HeadsHonest, Honest, Good
    <2>4. CASE heads'.queue = heads.queue \/ heads'.queue = <<>>
      BY <2>3, <2>4 DEF HeadsHonest
    <2>5. CASE heads'.queue = Append(heads.queue, heads.item)
      <3>1. /\ \A i \in 1..Len(heads'.queue) : i \in 1..Len(heads.queue) \/ heads'.queue[i] = heads.item
            /\ \A i \in 1..Len(heads.queue) : heads'.queue[i] = heads.queue[i]
        BY <1>1, <2>5
      <3>2. QED
        BY <2>3, <3>1 DEF HeadsHonest
    <2>6. CASE heads.queue # <<>> /\ heads'.queue = Tail(heads.queue)
      <3>1. \A i \in 1..Len(heads'.queue) :
                i + 1 \in 1..Len(heads.queue) /\ heads'.queue[i] = heads.queue[i + 1]
        BY <1>1, <2>6
      <3>2. QED
        BY <2>3, <3>1 DEF HeadsHonest
    <2>7. \/ heads'.queue = heads.queue \/ heads'.queue = <<>>
          \/ heads'.queue = Append(heads.queue, heads.item)
          \/ heads.queue # <<>> /\ heads'.queue = Tail(heads.queue)
      BY <2>1 DEF Idles, Keeps, Stores, Clears, Gives
    <2>8. QED
      BY <2>4, <2>5, <2>6, <2>7
  <1>4. QED
    BY <1>2, <1>3 DEF Advances

LEMMA FollowKept ==
    ASSUME NEW vs, FollowInv(vs), FollowType', UNCHANGED <<node, wire, follow>>,
           heads'.task = heads.task
    PROVE  FollowInv(vs)'
  <1>1. UNCHANGED <<node, wire, follow>>
    OBVIOUS
  <1>2. Follows(vs)'
    BY <1>1 DEF FollowInv, Follows
  <1>3. Before => Before'
    BY <1>1 DEF Before, Blank
  <1>4. Handles(vs[1]) => Handles(vs[1])'
    <2>1. (Greets' <=> Greets) /\ (Waiting(vs[1]) => Waiting(vs[1])')
          /\ (Greeted(vs[1]) => Greeted(vs[1])')
      BY <1>1 DEF Greets, Waiting, Blank, Greeted
    <2>2. Exact(vs[1]) => Exact(vs[1])'
      BY <1>1 DEF Exact
    <2>3. QED
      BY <1>1, <1>3, <2>1, <2>2 DEF Handles
  <1>5. HandlerInv(vs[1])'
    BY <1>1, <1>3, <1>4 DEF FollowInv, HandlerInv, InitialOk, Heard
  <1>6. QED
    BY <1>2, <1>5 DEF FollowInv

LEMMA FollowBegins ==
    ASSUME StreamAssumption, Init
    PROVE  FollowInv(<<Root>>) /\ HeadsHonest
  <1>1. PICK initial \in Initial : FollowInit({<<>>} \cup initial)
    BY DEF Init
  <1>2. FollowType
    BY InitEnd DEF EndInv
  <1>3. /\ node.initial = {<<>>} \cup initial /\ node.pins = node.initial /\ ~node.on /\ ~node.legacy
        /\ ~node.misused /\ node.tree = {<<>>} /\ node.final = <<>> /\ Len(node.sent) = 0
        /\ wire = <<>> /\ follow = NewFollow /\ heads = NewStream
    BY <1>1 DEF FollowInit
  <1>4. ViewOf(node) = Root
    BY <1>3 DEF ViewOf, Root
  <1>5. <<>> \in Chain
    BY PrefixOfAll
  <1>6. InitialOk
    <2>1. IsFiniteSet(initial) /\ initial \cap Chain = {}
      BY DEF StreamAssumption, Chain
    <2>2. IsFiniteSet(initial \cup {<<>>})
      BY <2>1, FS_AddElement
    <2>3. QED
      BY <1>3, <1>5, <2>1, <2>2 DEF InitialOk
  <1>7. Before
    BY <1>3, <1>4 DEF Before, Blank, NewFollow
  <1> DEFINE vs == <<Root>>
  <1>8. vs \in Seq(Views) /\ vs # <<>> /\ Len(vs) = 1 /\ vs[1] = Root
    BY <1>5 DEF Views, Root
  <1> HIDE DEF vs
  <1>9. Story(node, wire, vs)
    <2>1. \A i \in 1..Len(vs) : \A j \in i..Len(vs) : i = 1 /\ j = 1
      BY <1>8
    <2>2. Len(wire) = 0
      BY <1>3
    <2>3. QED
      BY <1>4, <1>8, <2>1, <2>2 DEF Story
  <1>10. HandlerInv(vs[1])
    BY <1>3, <1>6, <1>7 DEF HandlerInv, Heard, NewStream
  <1>11. HeadsHonest
    BY <1>3, SentinelIsNotGood DEF HeadsHonest, Honest, Good, NewStream
  <1>12. QED
    BY <1>2, <1>8, <1>9, <1>10, <1>11 DEF FollowInv, Follows, vs

\* What the invariant says once the handler has caught up.
LEMMA CaughtUpIsExact ==
    ASSUME NEW vs, FollowInv(vs), HeadsHonest
    PROVE  FollowIsExact
  <1>1. ASSUME CaughtUp, node.on
        PROVE  /\ {b \in node.tree : Live(b)} \subseteq node.pins
               /\ Cardinality({b \in node.pins : ~Live(b)}) < Batch
    <2>1. Heard /\ follow.mode = "chainHead" /\ follow.step = "idle" /\ wire = <<>>
      BY <1>1 DEF CaughtUp, Running, Heard
    <2>2. ~node.legacy
      BY <1>1 DEF FollowInv, HandlerInv
    <2>3. Exact(vs[1])
      BY <2>1, <2>2 DEF FollowInv, HandlerInv, Handles, Greets
    <2>4. vs[1] = ViewOf(node)
      BY <2>1, <2>2 DEF FollowInv, Follows, Story
    <2>5. \A b : Live(b) <=> Reached(vs[1], b)
      BY <2>4 DEF Live, Reached, ViewOf
    <2>6. Fresh(wire) = {}
      BY <2>1 DEF Fresh
    <2>7. node.pins = follow.pinned /\ follow.arg = {} /\ IsFiniteSet(follow.pinned)
          /\ follow.pending \subseteq follow.pinned
      BY <2>1, <2>3, <2>6 DEF Exact
    <2>8. {b \in node.tree : Live(b)} \subseteq node.pins
      BY <2>3, <2>5, <2>7 DEF Exact
    <2>9. {b \in node.pins : ~Live(b)} = follow.pending
      BY <2>3, <2>5, <2>7 DEF Exact
    <2>10. Cardinality(follow.pending) < Batch
      BY <2>1, <2>3 DEF Exact
    <2>11. QED
      BY <2>8, <2>9, <2>10
  <1>2. ~(heads.item.kind = "error" /\ heads.item.error = "decode")
    BY DEF HeadsHonest, Honest, Undecoded
  <1>3. \A i \in 1..Len(heads.queue) :
            heads.queue[i].kind = "head" => heads.queue[i].number = Len(heads.queue[i].block)
    BY DEF HeadsHonest, Honest
  <1>4. ~node.misused
    BY DEF FollowInv, HandlerInv
  <1>5. QED
    BY <1>1, <1>2, <1>3, <1>4 DEF FollowIsExact

ExactInv == HeadsHonest /\ \E vs : FollowInv(vs)

LEMMA TakenKept ==
    ASSUME NEW vs, FollowInv(vs), Taken \/ UNCHANGED followVars
    PROVE  FollowInv(vs)'
  <1>1. FollowType /\ heads \in Streams
    BY DEF FollowInv, FollowType
  <1>2. UNCHANGED <<node, wire, follow>> /\ heads'.task = heads.task
    BY <1>1 DEF Taken, followVars, Streams
  <1>3. FollowType'
    <2>1. CASE Taken
      BY <1>1, <2>1, FollowTypeStep DEF FollowMoves
    <2>2. CASE UNCHANGED followVars
      BY <1>1, <2>2 DEF followVars, FollowType, FollowTyped
    <2>3. QED
      BY <2>1, <2>2
  <1>4. QED
    BY <1>2, <1>3, FollowKept

LEMMA ExactStep ==
    ASSUME StreamAssumption, ExactInv, [Next]_streamVars
    PROVE  ExactInv'
  <1>1. PICK vs : FollowInv(vs)
    BY DEF ExactInv
  <1>2. CASE FollowSteps
    <2>1. PICK us : FollowInv(us)' /\ Advances(vs[1], us[1])
      BY <1>1, <1>2, FollowStep
    <2>2. HeadsHonest'
      BY <1>1, <2>1, HonestyLasts DEF ExactInv, FollowInv
    <2>3. QED
      BY <2>1, <2>2 DEF ExactInv
  <1>3. CASE Taken \/ UNCHANGED followVars
    <2>1. FollowInv(vs)'
      BY <1>1, <1>3, TakenKept
    <2>2. CASE Taken
      BY <1>1, <2>1, <2>2, HonestyLasts DEF ExactInv, FollowInv
    <2>3. CASE UNCHANGED followVars
      BY <2>1, <2>3 DEF followVars, ExactInv, HeadsHonest
    <2>4. QED
      BY <1>3, <2>2, <2>3
  <1>4. QED
    BY <1>2, <1>3, StepMoves DEF FollowMoves

(* A node that keeps the protocol is never misunderstood, whatever the size  *)
(* and the shape of its tree, the number of notifications under way and the  *)
(* batch (bittensor.py:2013-2091): each block that it names is known, with   *)
(* its height, nothing is unpinned that is not pinned, and once the handler  *)
(* has caught up it keeps what may still matter and less than a batch more.  *)
THEOREM TheFollowIsExact ==
    ASSUME StreamAssumption
    PROVE  Spec => []FollowIsExact
  <1>1. Init => ExactInv
    BY FollowBegins DEF ExactInv
  <1>2. ExactInv /\ [Next]_streamVars => ExactInv'
    BY ExactStep
  <1>3. ExactInv => FollowIsExact
    BY CaughtUpIsExact DEF ExactInv
  <1>4. QED
    BY <1>1, <1>2, <1>3, PTL DEF Spec

-----------------------------------------------------------------------------
(* The place of a head among those, of the heads that were sent, that the    *)
(* runtime wants when it consumes a stream of kind k.                        *)

WantedOf(k, b) == k = "heads" \/ Carries(b)
RankOf(k, sent, p) == Cardinality({i \in 1..p : WantedOf(k, sent[i])})
IsNth(k, sent, b, n) == \E p \in 1..Len(sent) : /\ WantedOf(k, sent[p]) /\ RankOf(k, sent, p) = n
                                                /\ b = sent[p]

LEMMA RankNext ==
    ASSUME NEW k, NEW sent, NEW p \in Nat
    PROVE  /\ RankOf(k, sent, p) \in Nat
           /\ RankOf(k, sent, p + 1) = IF WantedOf(k, sent[p + 1]) THEN RankOf(k, sent, p) + 1
                                                                  ELSE RankOf(k, sent, p)
  <1> DEFINE W(q) == {i \in 1..q : WantedOf(k, sent[i])}
  <1>1. IsFiniteSet(W(p))
    <2>1. IsFiniteSet(1..p) /\ W(p) \subseteq 1..p
      BY FS_Interval
    <2>2. QED
      BY <2>1, FS_Subset
  <1>2. p + 1 \notin W(p)
    OBVIOUS
  <1>3. WantedOf(k, sent[p + 1]) => W(p + 1) = W(p) \cup {p + 1}
    OBVIOUS
  <1>4. ~WantedOf(k, sent[p + 1]) => W(p + 1) = W(p)
    OBVIOUS
  <1>5. \A q : RankOf(k, sent, q) = Cardinality(W(q))
    BY DEF RankOf
  <1> HIDE DEF W
  <1>6. Cardinality(W(p) \cup {p + 1}) = Cardinality(W(p)) + 1
    BY <1>1, <1>2, FS_AddElement
  <1>7. Cardinality(W(p)) \in Nat
    BY <1>1, FS_CardinalityType
  <1>8. QED
    BY <1>3, <1>4, <1>5, <1>6, <1>7

LEMMA RankZero ==
    ASSUME NEW k, NEW sent
    PROVE  RankOf(k, sent, 0) = 0
  <1>1. {i \in 1..0 : WantedOf(k, sent[i])} = {}
    OBVIOUS
  <1>2. QED
    BY <1>1, FS_EmptySet DEF RankOf

LEMMA RankOfHeads ==
    ASSUME NEW sent, NEW p \in Nat
    PROVE  RankOf("heads", sent, p) = p
  <1>1. {i \in 1..p : WantedOf("heads", sent[i])} = 1..p
    BY DEF WantedOf
  <1>2. Cardinality(1..p) = p
    BY FS_Interval
  <1>3. QED
    BY <1>1, <1>2 DEF RankOf

LEMMA RankLasts ==
    ASSUME Grows, NEW k, NEW p \in Nat, p <= Len(node.sent)
    PROVE  RankOf(k, node'.sent, p) = RankOf(k, node.sent, p)
  <1>1. Len(node.sent) \in Nat /\ \A i \in 1..p : node'.sent[i] = node.sent[i]
    BY DEF Grows
  <1>2. {i \in 1..p : WantedOf(k, node'.sent[i])} = {i \in 1..p : WantedOf(k, node.sent[i])}
    BY <1>1
  <1>3. QED
    BY <1>2 DEF RankOf

LEMMA NthLasts ==
    ASSUME Grows, NEW k, NEW b, NEW n, IsNth(k, node.sent, b, n)
    PROVE  IsNth(k, node'.sent, b, n)
  <1>1. PICK p \in 1..Len(node.sent) : /\ WantedOf(k, node.sent[p]) /\ RankOf(k, node.sent, p) = n
                                       /\ b = node.sent[p]
    BY DEF IsNth
  <1>2. p \in Nat /\ p <= Len(node.sent) /\ p \in 1..Len(node'.sent) /\ node'.sent[p] = node.sent[p]
    BY DEF Grows
  <1>3. RankOf(k, node'.sent, p) = n
    BY <1>1, <1>2, RankLasts
  <1>4. QED
    BY <1>1, <1>2, <1>3 DEF IsNth

-----------------------------------------------------------------------------
(* The heads are told in order.  The consumer of the heads has taken c, and  *)
(* v is the view of the handler.                                             *)

InHand(s) == IF s.task = "put" THEN 1 ELSE 0
HeadsAt(c, v) ==
    /\ c \in Nat
    /\ heads.close = "open" =>
        /\ \A j \in 1..Len(heads.queue) : Good(heads.queue[j]) =>
               c + j <= Len(node.sent) /\ heads.queue[j].block = node.sent[c + j]
        /\ heads.task = "put" => /\ c + Len(heads.queue) + 1 <= Len(node.sent)
                                 /\ heads.item.block = node.sent[c + Len(heads.queue) + 1]
        /\ heads.task \in {"unstarted", "running", "put"} =>
               v.count = c + Len(heads.queue) + InHand(heads)

\* What was put last on a stream is good only while it is being put.
LEMMA StoredGood ==
    ASSUME NEW s \in Streams, NEW e, Told(s, e), s.close = "open",
           s.task \in {"put", "put_last", "finally"}, Good(s.item)
    PROVE  s.task = "put"
  BY SentinelIsNotGood DEF Told, Good

LEMMA HeadsEmitted ==
    ASSUME FollowType, NEW c, NEW v, HeadsAt(c, v), NEW u, Emits(v, u)
    PROVE  HeadsAt(c, u)'
  <1> DEFINE b == node.sent[u.count]
             l == Len(heads.queue)
  <1>1. /\ heads.task = "running" /\ UNCHANGED node /\ u.count = v.count + 1
        /\ u.count <= Len(node.sent) /\ heads' = Puts(heads, BlockRef(b, Len(b)))
        /\ heads \in Streams
    BY DEF Emits, FollowType
  <1>2. /\ heads'.task = "put" /\ heads'.queue = heads.queue /\ heads'.close = heads.close
        /\ heads'.item.block = b /\ l \in Nat
    BY <1>1 DEF Puts, BlockRef, Streams
  <1>3. heads.close = "open" => v.count = c + l /\ u.count = c + l + 1
    BY <1>1, <1>2 DEF HeadsAt, InHand
  <1> HIDE DEF b
  <1>4. QED
    BY <1>1, <1>2, <1>3 DEF HeadsAt, InHand, b

LEMMA HeadsIdle ==
    ASSUME FollowType, NEW c, NEW v, HeadsAt(c, v), NEW u, u.count = v.count,
           Idles(heads, heads'), Grows, NEW e, Told(heads, e)
    PROVE  HeadsAt(c, u)'
  <1> DEFINE q == heads.queue
             n == Len(node.sent)
             n2 == Len(node'.sent)
  <1>1. /\ heads \in Streams /\ q \in Seq(Items) /\ Len(q) \in Nat /\ c \in Nat
        /\ n \in Nat /\ n2 \in Nat /\ n <= n2
        /\ \A k \in 1..n : node'.sent[k] = node.sent[k]
    BY DEF FollowType, Streams, HeadsAt, Grows
  <1>2. \A k \in Nat : k + c + 1 <= n => c + k + 1 <= n2 /\ node'.sent[c + k + 1] = node.sent[c + k + 1]
    BY <1>1
  <1>3. \A j \in 1..Len(q) : c + j <= n => c + j <= n2 /\ node'.sent[c + j] = node.sent[c + j]
    BY <1>1
  <1> SUFFICES ASSUME heads'.close = "open"
               PROVE  HeadsAt(c, u)'
    BY <1>1 DEF HeadsAt
  <1>4. CASE Keeps(heads, heads')
    <2>1. heads.close = "open" /\ heads'.queue = q
      BY <1>4 DEF Keeps
    <2>2. ASSUME heads'.task = "put"
          PROVE  /\ c + Len(q) + 1 <= n2 /\ heads'.item.block = node'.sent[c + Len(q) + 1]
      <3>1. c + Len(q) + 1 <= n /\ heads'.item.block = node.sent[c + Len(q) + 1]
        BY <1>4, <2>1, <2>2 DEF Keeps, HeadsAt
      <3>2. QED
        BY <1>1, <3>1
    <2>3. heads'.task \in {"unstarted", "running", "put"} =>
              u.count = c + Len(q) + (IF heads'.task = "put" THEN 1 ELSE 0)
      BY <1>4, <2>1 DEF Keeps, HeadsAt, InHand
    <2>4. \A j \in 1..Len(q) : Good(q[j]) => c + j <= n2 /\ q[j].block = node'.sent[c + j]
      BY <1>3, <2>1 DEF HeadsAt
    <2>5. QED
      BY <1>1, <2>1, <2>2, <2>3, <2>4 DEF HeadsAt, InHand
  <1>5. CASE Stores(heads, heads')
    <2> DEFINE r == Append(q, heads.item)
    <2>1. heads.close = "open" /\ heads'.queue = r /\ heads'.task # "put" /\ heads'.task # "unstarted"
          /\ (heads'.task = "running" <=> heads.task = "put")
          /\ heads.task \in {"put", "put_last", "finally"}
      BY <1>5 DEF Stores
    <2>2. /\ Len(r) = Len(q) + 1 /\ r[Len(q) + 1] = heads.item
          /\ \A j \in 1..Len(q) : r[j] = q[j]
      BY <1>1 DEF Streams
    <2>3. \A j \in 1..Len(r) : j \in 1..Len(q) \/ j = Len(q) + 1
      BY <1>1, <2>2
    <2> HIDE DEF r
    <2>4. ASSUME Good(heads.item)
          PROVE  /\ c + (Len(q) + 1) <= n2 /\ heads.item.block = node'.sent[c + (Len(q) + 1)]
      <3>1. heads.task = "put"
        BY <1>1, <2>1, <2>4, StoredGood
      <3>2. c + Len(q) + 1 <= n /\ heads.item.block = node.sent[c + Len(q) + 1]
        BY <2>1, <3>1 DEF HeadsAt
      <3>3. c + (Len(q) + 1) = c + Len(q) + 1
        BY <1>1
      <3>4. QED
        BY <1>1, <3>2, <3>3
    <2>5. \A j \in 1..Len(q) : Good(q[j]) => c + j <= n2 /\ q[j].block = node'.sent[c + j]
      BY <1>3, <2>1 DEF HeadsAt
    <2>6. \A j \in 1..Len(r) : Good(r[j]) => c + j <= n2 /\ r[j].block = node'.sent[c + j]
      BY <2>2, <2>3, <2>4, <2>5
    <2>7. heads'.task = "running" => u.count = c + Len(r)
      <3>1. heads.task = "put" => v.count = c + Len(q) + 1
        BY <2>1 DEF HeadsAt, InHand
      <3>2. QED
        BY <1>1, <2>1, <2>2, <3>1
    <2>8. Len(r) \in Nat /\ (heads'.task = "running" => u.count = c + Len(r) + 0)
      BY <1>1, <2>2, <2>7
    <2>9. QED
      BY <1>1, <2>1, <2>6, <2>8 DEF HeadsAt, InHand
  <1>6. QED
    BY <1>4, <1>5 DEF Idles, Clears

LEMMA HeadsGo ==
    ASSUME FollowType, ~node.legacy, NEW c, NEW v, HeadsAt(c, v), NEW u, Advances(v, u),
           NEW e, Told(heads, e)
    PROVE  HeadsAt(c, u)'
  BY HeadsEmitted, HeadsIdle, QuietIs DEF Advances, EmitsLegacy

\* The consumer takes a head.
LEMMA HeadsTaken ==
    ASSUME FollowType, NEW c, NEW v, HeadsAt(c, v), Taken, heads.close = "open"
    PROVE  /\ HeadsAt(c + 1, v)'
           /\ Good(heads.queue[1]) => c + 1 <= Len(node.sent)
                                      /\ heads.queue[1].block = node.sent[c + 1]
  <1> DEFINE q == heads.queue
             r == Tail(q)
  <1>1. /\ heads \in Streams /\ q \in Seq(Items) /\ q # <<>> /\ c \in Nat /\ UNCHANGED node
        /\ heads'.queue = r /\ heads'.task = heads.task /\ heads'.item = heads.item
        /\ heads'.close = heads.close
    BY DEF FollowType, Streams, Taken, HeadsAt
  <1>2. /\ Len(q) \in Nat \ {0} /\ Len(r) = Len(q) - 1 /\ 1 \in 1..Len(q)
        /\ \A j \in 1..Len(r) : j + 1 \in 1..Len(q) /\ r[j] = q[j + 1]
    BY <1>1
  <1>3. \A j \in 1..Len(r) : c + 1 + j = c + (j + 1)
    BY <1>1, <1>2
  <1>4. \A j \in 1..Len(q) : Good(q[j]) => c + j <= Len(node.sent) /\ q[j].block = node.sent[c + j]
    BY DEF HeadsAt
  <1> HIDE DEF r
  <1>5. c + 1 + Len(r) + 1 = c + Len(q) + 1 /\ c + 1 + Len(r) = c + Len(q) /\ c + 1 \in Nat
    <2>1. \A x, y, z \in Nat : z = y - 1 => x + 1 + z + 1 = x + y + 1 /\ x + 1 + z = x + y
      OBVIOUS
    <2>2. c \in Nat
      BY <1>1
    <2>3. Len(q) \in Nat /\ Len(r) = Len(q) - 1 /\ Len(r) \in Nat
      BY <1>2
    <2> HIDE DEF q
    <2>4. QED
      BY <2>1, <2>2, <2>3
  <1>6. \A j \in 1..Len(r) : Good(r[j]) =>
            c + 1 + j <= Len(node.sent) /\ r[j].block = node.sent[c + 1 + j]
    BY <1>2, <1>3, <1>4
  <1>7. heads.task \in {"unstarted", "running", "put"} => v.count = c + Len(q) + InHand(heads)
    BY DEF HeadsAt
  <1>8. HeadsAt(c + 1, v)'
    BY <1>1, <1>5, <1>6, <1>7 DEF HeadsAt, InHand
  <1>9. QED
    BY <1>2, <1>4, <1>8

-----------------------------------------------------------------------------
(* The events are told in the order of their heads.                          *)

Placed ==
    /\ \A j \in 1..Len(events.queue) : Good(events.queue[j]) =>
           IsNth(kind, node.sent, events.queue[j].block, Len(got) + j)
    /\ events.task = "put" =>
           IsNth(kind, node.sent, events.item.block, Len(got) + Len(events.queue) + 1)
\* The loop has taken c heads, and dealt with all of them but the one at hand.
Counts(c) ==
    /\ c \in Nat /\ c <= Len(node.sent)
    /\ loop.at = "events" => c >= 1 /\ loop.head = node.sent[c] /\ events.task = "running"
    /\ RankOf(kind, node.sent, IF loop.at = "events" THEN c - 1 ELSE c)
           = Len(got) + Len(events.queue) + InHand(events)
Going(s) == s.task \in {"unstarted", "running", "put"}
EventsAt(v) ==
    events.close = "open" =>
        Placed /\ (Going(events) => \E c : HeadsAt(c, v) /\ Counts(c))

LEMMA PlacedIdle ==
    ASSUME LoopType, Grows, kind' = kind, got' = got, Idles(events, events'), Placed,
           NEW e, Told(events, e), events'.close = "open"
    PROVE  Placed'
  <1> DEFINE q == events.queue
             g == Len(got)
  <1>1. events \in Streams /\ q \in Seq(Items) /\ Len(q) \in Nat /\ g \in Nat
    BY DEF LoopType, Streams
  <1>2. \A b, n : IsNth(kind, node.sent, b, n) => IsNth(kind', node'.sent, b, n)
    BY NthLasts
  <1>3. \A j \in 1..Len(q) : Good(q[j]) => IsNth(kind', node'.sent, q[j].block, g + j)
    BY <1>2 DEF Placed
  <1>4. events.task = "put" => IsNth(kind', node'.sent, events.item.block, g + Len(q) + 1)
    BY <1>2 DEF Placed
  <1>5. CASE Keeps(events, events')
    <2>1. events'.queue = q /\ (events'.task = "put" => events.task = "put" /\ events'.item = events.item)
      BY <1>5 DEF Keeps
    <2>2. QED
      BY <1>3, <1>4, <2>1 DEF Placed
  <1>6. CASE Stores(events, events')
    <2> DEFINE r == Append(q, events.item)
    <2>1. /\ events'.queue = r /\ events'.task # "put" /\ events.close = "open"
          /\ events.task \in {"put", "put_last", "finally"}
      BY <1>6 DEF Stores
    <2>2. /\ Len(r) = Len(q) + 1 /\ r[Len(q) + 1] = events.item
          /\ \A j \in 1..Len(q) : r[j] = q[j]
      BY <1>1 DEF Streams
    <2>3. \A j \in 1..Len(r) : j \in 1..Len(q) \/ j = Len(q) + 1
      BY <1>1, <2>2
    <2>4. Good(events.item) => IsNth(kind', node'.sent, events.item.block, g + (Len(q) + 1))
      <3>1. g + (Len(q) + 1) = g + Len(q) + 1
        BY <1>1
      <3>2. QED
        BY <1>1, <1>4, <2>1, <3>1, StoredGood
    <2> HIDE DEF r, q
    <2>5. \A j \in 1..Len(r) : Good(r[j]) => IsNth(kind', node'.sent, r[j].block, g + j)
      BY <1>3, <2>2, <2>3, <2>4
    <2>6. QED
      BY <2>1, <2>5 DEF Placed
  <1>7. QED
    BY <1>5, <1>6 DEF Idles, Clears

LEMMA CountsIdle ==
    ASSUME LoopType, Grows, kind' = kind, got' = got, Idles(events, events'), Going(events'),
           loop' = loop \/ (events.task = "unstarted" /\ loop'.at = "head"),
           events'.close = "open", NEW c, Counts(c)
    PROVE  Counts(c)'
  <1> DEFINE q == events.queue
             g == Len(got)
             x == IF loop.at = "events" THEN c - 1 ELSE c
  <1>1. events \in Streams /\ q \in Seq(Items) /\ Len(q) \in Nat /\ g \in Nat
    BY DEF LoopType, Streams
  <1>2. c \in Nat /\ c <= Len(node.sent) /\ c <= Len(node'.sent) /\ x \in Nat /\ x <= Len(node.sent)
    BY DEF Counts, Grows
  <1>3. RankOf(kind', node'.sent, x) = g + Len(q) + InHand(events)
    BY <1>2, RankLasts DEF Counts
  <1>4. c >= 1 => node'.sent[c] = node.sent[c]
    BY <1>2 DEF Grows
  <1>5. events.task = "unstarted" => loop.at # "events"
    BY DEF Counts
  <1>6. g + Len(q) + InHand(events) = g + Len(events'.queue) + InHand(events')
        /\ (events.task = "running" => events'.task = "running")
    <2>1. CASE Keeps(events, events')
      BY <2>1 DEF Keeps, InHand, Going
    <2>2. CASE Stores(events, events')
      <3> DEFINE r == Append(q, events.item)
      <3>1. /\ events'.queue = r /\ events'.task = "running" /\ events.task = "put"
        BY <2>2 DEF Stores, Going
      <3>2. Len(r) = Len(q) + 1
        BY <1>1 DEF Streams
      <3> HIDE DEF r
      <3>3. QED
        BY <1>1, <3>1, <3>2 DEF InHand
    <2>3. QED
      BY <2>1, <2>2 DEF Idles, Clears
  <1>7. loop'.at = "events" => loop' = loop
    OBVIOUS
  <1>8. x = IF loop'.at = "events" THEN c - 1 ELSE c
    BY <1>5
  <1> HIDE DEF x, q, g
  <1>9. loop'.at = "events" => c >= 1 /\ loop'.head = node'.sent[c] /\ events'.task = "running"
    BY <1>4, <1>6, <1>7 DEF Counts
  <1>10. QED
    BY <1>2, <1>3, <1>6, <1>8, <1>9 DEF Counts, g, q

LEMMA EventsIdle ==
    ASSUME LoopType, Grows, kind' = kind, got' = got, Idles(events, events'),
           loop' = loop \/ (events.task = "unstarted" /\ loop'.at = "head"),
           NEW e, Told(events, e), NEW v, EventsAt(v), NEW u,
           Going(events') => \A c : HeadsAt(c, v) => HeadsAt(c, u)'
    PROVE  EventsAt(u)'
  <1> SUFFICES ASSUME events'.close = "open"
               PROVE  EventsAt(u)'
    BY DEF EventsAt
  <1>1. events.close = "open"
    BY DEF Idles, Keeps, Stores, Clears
  <1>2. Placed'
    BY <1>1, PlacedIdle DEF EventsAt
  <1>3. Going(events') => Going(events)
    BY DEF Idles, Keeps, Stores, Clears, Going
  <1>4. ASSUME Going(events')
        PROVE  \E c : HeadsAt(c, u)' /\ Counts(c)'
    <2>1. PICK c : HeadsAt(c, v) /\ Counts(c)
      BY <1>1, <1>3, <1>4 DEF EventsAt
    <2>2. HeadsAt(c, u)' /\ Counts(c)'
      BY <1>4, <2>1, CountsIdle
    <2>3. QED
      BY <2>2
  <1>5. QED
    BY <1>2, <1>4 DEF EventsAt, Going

GotInOrder == \A n \in 1..Received : IsNth(kind, node.sent, got[n].block, n)
OrderInv(v) ==
    ~node.legacy =>
        /\ GotInOrder
        /\ ~Ended /\ kind = "heads" => \E c : c = Len(got) /\ HeadsAt(c, v)
        /\ ~Ended /\ kind = "events" => EventsAt(v)

LEMMA GotStays ==
    ASSUME Grows, kind' = kind, got' = got, GotInOrder
    PROVE  GotInOrder'
  <1>1. Received' = Received
    BY DEF Received, Ended
  <1>2. \A n \in 1..Received : IsNth(kind', node'.sent, got[n].block, n)
    BY NthLasts DEF GotInOrder
  <1>3. QED
    BY <1>1, <1>2 DEF GotInOrder

LEMMA GotMore ==
    ASSUME got \in Seq(Items), ~Ended, NEW item \in Items, got' = Append(got, item),
           UNCHANGED <<node, kind>>, GotInOrder,
           Good(item) => IsNth(kind, node.sent, item.block, Len(got) + 1)
    PROVE  /\ GotInOrder' /\ Len(got') = Len(got) + 1 /\ (~Ended' => Good(item))
  <1>1. /\ Len(got') = Len(got) + 1 /\ got'[Len(got) + 1] = item /\ Len(got) \in Nat
        /\ \A n \in 1..Len(got) : got'[n] = got[n]
    OBVIOUS
  <1>2. Ended' <=> ~Good(item)
    BY GotTyped
  <1>3. Received = Len(got) /\ Received' = IF Good(item) THEN Len(got) + 1 ELSE Len(got)
    BY <1>1, <1>2 DEF Received
  <1>4. \A n \in 1..Received' : n \in 1..Len(got) \/ (n = Len(got) + 1 /\ Good(item))
    BY <1>1, <1>3
  <1>5. ASSUME NEW n \in 1..Received'
        PROVE  IsNth(kind', node'.sent, got'[n].block, n)
    <2>1. CASE n \in 1..Len(got)
      BY <1>1, <1>3, <2>1 DEF GotInOrder
    <2>2. CASE n = Len(got) + 1 /\ Good(item)
      BY <1>1, <2>2
    <2>3. QED
      BY <1>4, <2>1, <2>2
  <1>6. QED
    BY <1>1, <1>2, <1>5 DEF GotInOrder

LEMMA OrderFollow ==
    ASSUME EndInv, FollowSteps, Unlooped, NEW v, OrderInv(v), NEW u, Advances(v, u)
    PROVE  OrderInv(u)'
  <1> SUFFICES ASSUME ~node'.legacy
               PROVE  OrderInv(u)'
    BY DEF OrderInv
  <1>1. ~node.legacy /\ Grows
    BY DEF Advances
  <1>2. UNCHANGED <<kind, events, loop, got>> /\ Ended' = Ended
    BY DEF Unlooped, Ended
  <1>3. FollowType /\ LoopType
    BY DEF EndInv
  <1>4. GotInOrder'
    BY <1>1, <1>2, GotStays DEF OrderInv
  <1>5. ASSUME ~Ended, kind = "heads"
        PROVE  \E c : c = Len(got) /\ HeadsAt(c, u)'
    <2>1. PICK c : c = Len(got) /\ HeadsAt(c, v)
      BY <1>1, <1>5 DEF OrderInv
    <2>2. HeadsAt(c, u)'
      BY <1>1, <1>3, <1>5, <2>1, HeadsGo DEF EndInv
    <2>3. QED
      BY <2>1, <2>2
  <1>6. ASSUME ~Ended, kind = "events"
        PROVE  EventsAt(u)'
    <2>1. Idles(events, events')
      BY <1>2, <1>3, StreamIdles DEF Idles, LoopType
    <2>2. Going(events') => \A c : HeadsAt(c, v) => HeadsAt(c, u)'
      <3>1. ASSUME Going(events'), NEW c, HeadsAt(c, v)
            PROVE  HeadsAt(c, u)'
        <4>1. Told(heads, FALSE)
          BY <1>2, <1>6, <3>1 DEF EndInv, Going
        <4>2. QED
          BY <1>1, <1>3, <3>1, <4>1, HeadsGo
      <3>2. QED
        BY <3>1
    <2>3. Told(events, Ended) /\ EventsAt(v)
      BY <1>1, <1>6 DEF EndInv, OrderInv
    <2>4. QED
      BY <1>1, <1>2, <1>3, <2>1, <2>2, <2>3, EventsIdle
  <1>7. QED
    BY <1>2, <1>4, <1>5, <1>6 DEF OrderInv

\* The loop takes a head, or the end of the heads.
LEMMA OrderLoopTakes ==
    ASSUME EndInv, LoopTakes, NEW v, OrderInv(v)
    PROVE  OrderInv(v)'
  <1> SUFFICES ASSUME ~node'.legacy, ~Ended'
               PROVE  GotInOrder' /\ (kind' = "events" => EventsAt(v)')
                      /\ (kind' = "heads" => \E c : c = Len(got') /\ HeadsAt(c, v)')
    <2>1. UNCHANGED <<node, kind, got>>
      BY DEF LoopTakes
    <2>2. GotInOrder' <=> GotInOrder
      BY <2>1 DEF GotInOrder, Received, Ended
    <2>3. QED
      BY <2>1, <2>2 DEF OrderInv, Ended
  <1>1. /\ heads.queue # <<>> /\ heads' = [heads EXCEPT !.queue = Tail(@)] /\ Taken
        /\ UNCHANGED <<node, wire, follow, kind, got>> /\ events.task = "running" /\ loop.at = "head"
        /\ kind = "events" /\ events \in Streams /\ LoopType /\ FollowType
    BY DEF LoopTakes, Polling, EndInv, LoopType, NewStream, Taken
  <1>2. heads.close = "open" /\ ~node.legacy /\ ~Ended /\ Grows /\ Told(events, Ended)
    BY <1>1 DEF EndInv, Ended, Grows, FollowType, Nodes
  <1>3. GotInOrder'
    BY <1>1, <1>2, GotStays DEF OrderInv
  <1>4. EventsAt(v)
    BY <1>1, <1>2 DEF OrderInv
  <1>5. heads.queue[1] \in Items /\ heads.queue[1].kind # "event"
    <2>1. heads.queue \in Seq(Items) /\ 1 \in 1..Len(heads.queue)
      BY <1>1 DEF Streams, FollowType
    <2>2. QED
      BY <2>1 DEF EndInv, Eventless
  <1>6. CASE heads.queue[1].kind = "head"
    <2>1. loop' = [at |-> "events", head |-> heads.queue[1].block] /\ UNCHANGED events
      BY <1>6 DEF LoopTakes
    <2> SUFFICES ASSUME events'.close = "open"
                 PROVE  EventsAt(v)'
      BY <1>1, <1>3 DEF EventsAt
    <2>2. PICK c : HeadsAt(c, v) /\ Counts(c)
      BY <1>1, <1>4, <2>1 DEF EventsAt, Going
    <2>3. /\ HeadsAt(c + 1, v)' /\ c + 1 <= Len(node.sent) /\ heads.queue[1].block = node.sent[c + 1]
      BY <1>1, <1>2, <1>6, <2>2, HeadsTaken DEF Good
    <2>4. c \in Nat /\ RankOf(kind, node.sent, c) = Len(got) + Len(events.queue) + InHand(events)
      BY <1>1, <2>2 DEF Counts
    <2>5. PICK d : d = c + 1
      OBVIOUS
    <2>6. /\ d \in Nat /\ d >= 1 /\ d - 1 = c /\ d <= Len(node.sent)
          /\ heads.queue[1].block = node.sent[d] /\ HeadsAt(d, v)'
      BY <2>3, <2>4, <2>5
    <2>7. Counts(d)'
      <3>1. loop'.at = "events" /\ loop'.head = node'.sent[d] /\ events'.task = "running"
        BY <1>1, <2>1, <2>6
      <3>2. RankOf(kind', node'.sent, d - 1) = Len(got') + Len(events'.queue) + InHand(events')
        BY <1>1, <2>1, <2>4, <2>6 DEF InHand
      <3>3. d <= Len(node'.sent)
        BY <1>1, <2>6
      <3>4. QED
        BY <2>6, <3>1, <3>2, <3>3 DEF Counts
    <2>8. Placed'
      BY <1>1, <1>4, <2>1 DEF EventsAt, Placed
    <2>9. QED
      BY <2>6, <2>7, <2>8 DEF EventsAt
  <1>7. CASE heads.queue[1].kind # "head"
    <2>1. PICK item \in Items : ~Good(item) /\ events' = PutsLast(events, item)
      <3>1. ~Good(heads.queue[1])
        BY <1>5, <1>7 DEF Good
      <3>2. heads.queue[1].kind \in {"error", "end"}
        BY <1>5, <1>7 DEF Items
      <3>3. CASE heads.queue[1].kind = "error"
        <4>1. events' = PutsLast(events, heads.queue[1])
          BY <3>3 DEF LoopTakes
        <4>2. QED
          BY <1>5, <3>1, <4>1
      <3>4. CASE heads.queue[1].kind = "end"
        <4>1. events' = PutsLast(events, Error("ended"))
          BY <3>4 DEF LoopTakes
        <4>2. Error("ended") \in Items /\ ~Good(Error("ended"))
          BY ErrorTyped DEF Good, Error
        <4>3. QED
          BY <4>1, <4>2
      <3>5. QED
        BY <3>2, <3>3, <3>4
    <2>2. Keeps(events, events')
      BY <1>1, <2>1, StreamIdles
    <2>3. ~Going(events') /\ (events'.close = "open" => events.close = "open")
      BY <1>1, <2>1 DEF PutsLast, Going, Streams
    <2>4. events'.close = "open" => Placed'
      BY <1>1, <1>2, <1>4, <2>2, <2>3, PlacedIdle DEF EventsAt, Idles
    <2>5. QED
      BY <1>1, <1>3, <2>3, <2>4 DEF EventsAt, Going
  <1>8. QED
    BY <1>6, <1>7

\* The events of the head at hand are read.
LEMMA OrderEventsRead ==
    ASSUME EndInv, EventsRead, NEW v, OrderInv(v), ~node.legacy, ~Ended
    PROVE  EventsAt(v)'
  <1>1. /\ kind = "events" /\ events \in Streams /\ events.task = "running" /\ loop.at = "events"
        /\ UNCHANGED <<node, wire, follow, heads, kind, got>> /\ LoopType
    BY DEF EventsRead, Polling, EndInv, LoopType, NewStream, followVars
  <1>2. loop'.at = "head"
    BY <1>1 DEF EventsRead, LoopType
  <1> SUFFICES ASSUME events'.close = "open"
               PROVE  EventsAt(v)'
    BY DEF EventsAt
  <1> DEFINE q == events.queue
             g == Len(got)
             b == loop.head
  <1>3. /\ IF Carries(b) THEN events' = Puts(events, EventOf(b)) ELSE events' = events
        /\ q \in Seq(Items) /\ Len(q) \in Nat /\ g \in Nat
    BY <1>1 DEF EventsRead, LoopType, Streams
  <1>4. /\ events'.close = events.close /\ events'.queue = q
        /\ Carries(b) => events'.task = "put" /\ events'.item.block = b
        /\ ~Carries(b) => events'.task = "running"
    <2>1. CASE Carries(b)
      <3>1. PICK item : item = EventOf(b)
        OBVIOUS
      <3>2. item.block = b
        BY <3>1 DEF EventOf
      <3>3. events' = [events EXCEPT !.task = "put", !.item = item]
        BY <1>3, <2>1, <3>1 DEF Puts
      <3>4. QED
        BY <1>1, <2>1, <3>2, <3>3 DEF Streams
    <2>2. CASE ~Carries(b)
      BY <1>1, <1>3, <2>2
    <2>3. QED
      BY <2>1, <2>2
  <1>5. EventsAt(v)
    BY <1>1 DEF OrderInv
  <1>6. PICK c : HeadsAt(c, v) /\ Counts(c)
    BY <1>1, <1>4, <1>5 DEF EventsAt, Going
  <1>7. /\ c \in Nat \ {0} /\ c <= Len(node.sent) /\ b = node.sent[c]
        /\ RankOf(kind, node.sent, c - 1) = g + Len(q)
    BY <1>1, <1>3, <1>6 DEF Counts, InHand
  <1>8. RankOf(kind, node.sent, c) = IF Carries(b) THEN g + Len(q) + 1 ELSE g + Len(q)
    <2>1. c - 1 \in Nat /\ c - 1 + 1 = c
      BY <1>7
    <2>2. WantedOf(kind, node.sent[c]) <=> Carries(b)
      BY <1>1, <1>7 DEF WantedOf
    <2>3. RankOf(kind, node.sent, c - 1 + 1)
              = IF WantedOf(kind, node.sent[c - 1 + 1]) THEN RankOf(kind, node.sent, c - 1) + 1
                                                        ELSE RankOf(kind, node.sent, c - 1)
      BY <2>1, RankNext
    <2>4. QED
      BY <1>7, <2>1, <2>2, <2>3
  <1>9. Carries(b) => IsNth(kind, node.sent, b, g + Len(q) + 1)
    <2>1. c \in 1..Len(node.sent)
      <3>1. Len(node.sent) \in Nat
        BY DEF EndInv, FollowType, Nodes
      <3>2. QED
        BY <1>7, <3>1
    <2>2. Carries(b) => WantedOf(kind, node.sent[c])
      BY <1>7 DEF WantedOf
    <2>3. QED
      BY <1>7, <1>8, <2>1, <2>2 DEF IsNth
  <1> HIDE DEF b
  <1>10. Placed'
    BY <1>1, <1>4, <1>5, <1>9 DEF EventsAt, Placed
  <1>11. Counts(c)'
    <2>1. RankOf(kind, node.sent, c) = g + Len(q) + InHand(events')
      <3>1. InHand(events') = IF Carries(b) THEN 1 ELSE 0
        BY <1>4 DEF InHand
      <3>2. g + Len(q) + 0 = g + Len(q)
        BY <1>3
      <3>3. QED
        BY <1>8, <3>1, <3>2
    <2>2. RankOf(kind', node'.sent, c) = Len(got') + Len(events'.queue) + InHand(events')
      BY <1>1, <1>4, <2>1
    <2>3. c <= Len(node'.sent) /\ c \in Nat /\ loop'.at # "events"
      BY <1>1, <1>2, <1>7
    <2>4. QED
      BY <2>2, <2>3 DEF Counts
  <1>12. HeadsAt(c, v)'
    BY <1>1, <1>6 DEF HeadsAt, InHand
  <1>13. QED
    BY <1>10, <1>11, <1>12 DEF EventsAt

\* The other steps of the loop, and the close of its stream.
LEMMA OrderEvents ==
    ASSUME EndInv, NEW v, OrderInv(v),
           EventsStart \/ EventsRead \/ LoopFails \/ EventPut \/ EventsUnwound \/ EventsClosed
               \/ (RuntimeCloses /\ kind = "events")
    PROVE  OrderInv(v)'
  <1>1. /\ events \in Streams /\ UNCHANGED <<node, wire, follow, heads, kind, got>>
        /\ Ended' = Ended /\ LoopType /\ FollowType
    BY DEF EventsStart, EventsRead, LoopFails, EventPut, EventsUnwound, EventsClosed, RuntimeCloses,
           EndInv, LoopType, Ended, followVars
  <1>2. kind = "events"
    BY DEF EventsStart, EventsRead, LoopFails, EventPut, EventsUnwound, EventsClosed,
           EndInv, LoopType, Polling, MayPut, Awaited, NewStream
  <1> SUFFICES ASSUME ~node.legacy
               PROVE  OrderInv(v)'
    BY <1>1 DEF OrderInv
  <1>3. Grows /\ GotInOrder /\ Told(events, Ended)
    BY <1>1, <1>2 DEF Grows, OrderInv, FollowType, Nodes, EndInv
  <1>4. GotInOrder'
    BY <1>1, <1>3, GotStays
  <1>5. ASSUME ~Ended
        PROVE  EventsAt(v)'
    <2>1. EventsAt(v)
      BY <1>2, <1>5 DEF OrderInv
    <2>2. CASE EventsRead
      BY <1>5, <2>2, OrderEventsRead
    <2>3. CASE EventsStart \/ LoopFails \/ EventPut \/ EventsUnwound \/ EventsClosed \/ RuntimeCloses
      <3>1. Idles(events, events')
        <4>1. CASE EventsStart \/ EventsClosed
          BY <1>1, <4>1, StreamIdles DEF EventsStart, EventsClosed, Idles
        <4>2. CASE LoopFails
          <5>1. Error("provider") \in Items /\ ~Good(Error("provider"))
            BY ErrorTyped DEF Good, Error
          <5>2. QED
            BY <1>1, <4>2, <5>1, StreamIdles DEF LoopFails, Idles
        <4>3. CASE EventPut
          <5>1. events' = PutDone(events) /\ events.task \in {"put", "put_last", "finally"}
            BY <4>3 DEF EventPut, MayPut
          <5>2. QED
            BY <1>1, <5>1, StreamIdles DEF Idles
        <4>4. CASE EventsUnwound \/ RuntimeCloses
          BY <1>1, <1>2, <4>4, StreamIdles DEF EventsUnwound, RuntimeCloses, Idles
        <4>5. QED
          BY <2>3, <4>1, <4>2, <4>3, <4>4
      <3>2. loop' = loop \/ (events.task = "unstarted" /\ loop'.at = "head")
        BY <1>1, <2>3 DEF EventsStart, LoopFails, EventPut, EventsUnwound, EventsClosed, RuntimeCloses,
                          LoopType
      <3>3. \A c : HeadsAt(c, v) => HeadsAt(c, v)'
        BY <1>1 DEF HeadsAt, InHand
      <3>4. QED
        BY <1>1, <1>3, <2>1, <3>1, <3>2, <3>3, EventsIdle
    <2>4. QED
      BY <2>2, <2>3
  <1>6. QED
    BY <1>1, <1>2, <1>4, <1>5 DEF OrderInv

\* The runtime takes an item.
LEMMA OrderTakes ==
    ASSUME EndInv, NEW v, OrderInv(v), RuntimeTakes
    PROVE  OrderInv(v)'
  <1>1. /\ Front.close = "open" /\ Front.queue # <<>> /\ ~Ended
        /\ got' = Append(got, Front.queue[1]) /\ UNCHANGED <<node, wire, follow, kind, loop>>
        /\ got \in Seq(Items) /\ heads \in Streams /\ events \in Streams /\ FollowType /\ LoopType
    BY DEF RuntimeTakes, Opened, EndInv, LoopType, FollowType
  <1> DEFINE item == Front.queue[1]
  <1>2. item \in Items
    <2> DEFINE q == Front.queue
    <2>1. q \in Seq(Items) /\ q # <<>>
      BY <1>1 DEF Front, Streams
    <2> HIDE DEF q
    <2>2. q[1] \in Items
      BY <2>1
    <2>3. QED
      BY <2>2 DEF q
  <1> SUFFICES ASSUME ~node.legacy
               PROVE  OrderInv(v)'
    BY <1>1 DEF OrderInv
  <1>3. GotInOrder
    BY DEF OrderInv
  <1>4. kind \in {"heads", "events"} /\ Len(got) \in Nat
    BY <1>1 DEF LoopType
  <1>5. CASE kind = "heads"
    <2>1. Taken /\ heads.close = "open" /\ item = heads.queue[1]
      BY <1>1, <1>5 DEF RuntimeTakes, Taken, Front
    <2>2. PICK c : c = Len(got) /\ HeadsAt(c, v)
      BY <1>1, <1>5 DEF OrderInv
    <2>3. /\ HeadsAt(c + 1, v)'
          /\ Good(item) => c + 1 <= Len(node.sent) /\ item.block = node.sent[c + 1]
      BY <1>1, <2>1, <2>2, HeadsTaken
    <2>4. Good(item) => IsNth(kind, node.sent, item.block, Len(got) + 1)
      <3>1. ASSUME Good(item)
            PROVE  IsNth(kind, node.sent, item.block, Len(got) + 1)
        <4>1. PICK d \in Nat : d = Len(got) + 1 /\ d >= 1
          BY <1>4
        <4>2. d <= Len(node.sent) /\ item.block = node.sent[d] /\ Len(node.sent) \in Nat
          BY <1>1, <2>2, <2>3, <3>1, <4>1 DEF FollowType, Nodes
        <4>3. d \in 1..Len(node.sent)
          BY <4>1, <4>2
        <4>4. RankOf(kind, node.sent, d) = d
          BY <1>5, <4>1, RankOfHeads
        <4>5. QED
          BY <1>5, <4>1, <4>2, <4>3, <4>4 DEF IsNth, WantedOf
      <3>2. QED
        BY <3>1
    <2>5. GotInOrder' /\ Len(got') = Len(got) + 1
      BY <1>1, <1>2, <1>3, <2>4, GotMore
    <2>6. PICK d : d = c + 1
      OBVIOUS
    <2>7. HeadsAt(d, v)' /\ d = Len(got')
      BY <2>2, <2>3, <2>5, <2>6
    <2>8. QED
      BY <1>1, <1>5, <2>5, <2>7 DEF OrderInv
  <1>6. CASE kind = "events"
    <2> DEFINE q == events.queue
               r == Tail(q)
               g == Len(got)
    <2>1. /\ item = q[1] /\ events' = [events EXCEPT !.queue = r] /\ UNCHANGED heads
          /\ q \in Seq(Items) /\ q # <<>> /\ EventsAt(v) /\ events.close = "open" /\ g \in Nat
      BY <1>1, <1>4, <1>6 DEF RuntimeTakes, Front, Streams, OrderInv
    <2>2. /\ Len(q) \in Nat /\ Len(r) \in Nat /\ Len(q) = Len(r) + 1 /\ 1 \in 1..Len(q)
          /\ \A j \in 1..Len(r) : j + 1 \in 1..Len(q) /\ r[j] = q[j + 1]
      BY <2>1
    <2>3. /\ events'.queue = r /\ events'.task = events.task /\ events'.item = events.item
          /\ events'.close = events.close
      BY <1>1, <2>1 DEF Streams
    <2> HIDE DEF r, item
    <2>4. Placed
      BY <2>1 DEF EventsAt
    <2>5. Good(item) => IsNth(kind, node.sent, item.block, g + 1)
      BY <2>1, <2>2, <2>4 DEF Placed
    <2>6. GotInOrder' /\ Len(got') = g + 1
      BY <1>1, <1>2, <1>3, <2>5, GotMore DEF item
    <2>7. PICK h \in Nat : h = g + 1 /\ Len(got') = h
      BY <2>1, <2>6
    <2>8. \A j \in 1..Len(r) : g + (j + 1) = h + j
      BY <2>1, <2>7
    <2>9. PICK m \in Nat : m = Len(r)
      BY <2>2
    <2>10. g + Len(q) + 1 = h + Len(r) + 1 /\ g + Len(q) = h + Len(r)
      <3>1. PICK l \in Nat : l = Len(q) /\ l = m + 1
        BY <2>2, <2>9
      <3>2. g + l + 1 = h + m + 1 /\ g + l = h + m
        BY <2>1, <2>7, <3>1
      <3>3. QED
        BY <2>9, <3>1, <3>2
    <2>11. Placed'
      <3>1. \A j \in 1..Len(r) : Good(r[j]) => IsNth(kind, node.sent, r[j].block, h + j)
        BY <2>2, <2>4, <2>8 DEF Placed
      <3>2. events.task = "put" => IsNth(kind, node.sent, events.item.block, h + Len(r) + 1)
        BY <2>4, <2>10 DEF Placed
      <3>3. QED
        BY <1>1, <2>3, <2>7, <3>1, <3>2 DEF Placed
    <2>12. ASSUME Going(events)
           PROVE  \E c : HeadsAt(c, v)' /\ Counts(c)'
      <3>1. PICK c : HeadsAt(c, v) /\ Counts(c)
        BY <2>1, <2>12 DEF EventsAt
      <3>2. HeadsAt(c, v)'
        BY <1>1, <2>1, <3>1 DEF HeadsAt, InHand
      <3>3. Counts(c)'
        <4>1. g + Len(q) + InHand(events) = Len(got') + Len(events'.queue) + InHand(events')
          BY <2>3, <2>7, <2>10 DEF InHand
        <4>2. QED
          BY <1>1, <2>3, <3>1, <4>1 DEF Counts
      <3>4. QED
        BY <3>2, <3>3
    <2>13. EventsAt(v)'
      BY <2>3, <2>11, <2>12 DEF EventsAt, Going
    <2>14. QED
      BY <1>1, <1>6, <2>6, <2>13 DEF OrderInv
  <1>7. QED
    BY <1>4, <1>5, <1>6

OrderedInv == EndInv /\ \E vs : FollowInv(vs) /\ OrderInv(vs[1])

LEMMA OrderStep ==
    ASSUME StreamAssumption, OrderedInv, [Next]_streamVars
    PROVE  OrderedInv'
  <1>1. PICK vs : FollowInv(vs) /\ OrderInv(vs[1])
    BY DEF OrderedInv
  <1>2. EndInv /\ EndInv'
    BY EndStep DEF OrderedInv
  <1>3. CASE FollowSteps /\ Unlooped
    <2>1. PICK us : FollowInv(us)' /\ Advances(vs[1], us[1])
      BY <1>1, <1>3, FollowStep
    <2>2. OrderInv(us[1])'
      BY <1>1, <1>2, <1>3, <2>1, OrderFollow
    <2>3. QED
      BY <1>2, <2>1, <2>2 DEF OrderedInv
  <1>4. CASE LoopTakes
    <2>1. Taken
      BY <1>4 DEF LoopTakes, Taken
    <2>2. FollowInv(vs)' /\ OrderInv(vs[1])'
      BY <1>1, <1>2, <1>4, <2>1, TakenKept, OrderLoopTakes
    <2>3. QED
      BY <1>2, <2>2 DEF OrderedInv
  <1>5. CASE RuntimeTakes
    <2>1. Taken \/ UNCHANGED followVars
      <3>1. CASE kind = "heads"
        BY <1>5, <3>1 DEF RuntimeTakes, Front, Taken
      <3>2. CASE kind # "heads"
        BY <1>5, <3>2 DEF RuntimeTakes, followVars
      <3>3. QED
        BY <3>1, <3>2
    <2>2. FollowInv(vs)' /\ OrderInv(vs[1])'
      BY <1>1, <1>2, <1>5, <2>1, TakenKept, OrderTakes
    <2>3. QED
      BY <1>2, <2>2 DEF OrderedInv
  <1>6. CASE EventsStart \/ EventsRead \/ LoopFails \/ EventPut \/ EventsUnwound \/ EventsClosed
               \/ (RuntimeCloses /\ kind = "events")
    <2>1. UNCHANGED followVars
      BY <1>6 DEF EventsStart, EventsRead, LoopFails, EventPut, EventsUnwound, EventsClosed, RuntimeCloses
    <2>2. FollowInv(vs)' /\ OrderInv(vs[1])'
      BY <1>1, <1>2, <1>6, <2>1, TakenKept, OrderEvents
    <2>3. QED
      BY <1>2, <2>2 DEF OrderedInv
  <1>7. CASE UNCHANGED streamVars
    <2>1. UNCHANGED <<node, wire, follow, heads, kind, events, loop, got>> /\ UNCHANGED followVars
      BY <1>7 DEF streamVars, followVars
    <2>2. FollowInv(vs)'
      BY <1>1, <2>1, TakenKept
    <2>3. GotInOrder => GotInOrder'
      BY <2>1 DEF GotInOrder, Received, Ended
    <2>4. \A c : HeadsAt(c, vs[1]) => HeadsAt(c, vs[1])'
      BY <2>1 DEF HeadsAt, InHand
    <2>5. EventsAt(vs[1]) => EventsAt(vs[1])'
      <3>1. Placed => Placed'
        BY <2>1 DEF Placed
      <3>2. \A c : Counts(c) => Counts(c)'
        BY <2>1 DEF Counts, InHand
      <3>3. QED
        BY <2>1, <2>4, <3>1, <3>2 DEF EventsAt, Going
    <2>6. OrderInv(vs[1])'
      BY <1>1, <2>1, <2>3, <2>4, <2>5 DEF OrderInv, Ended
    <2>7. QED
      BY <1>2, <2>2, <2>6 DEF OrderedInv
  <1>8. CASE (NodeStep \/ TaskStep \/ HeadsClosed \/ FollowFails) /\ Unlooped
    BY <1>3, <1>8 DEF FollowSteps
  <1>9. CASE LoopStarts \/ LoopShuts
    BY <1>3, <1>9 DEF LoopStarts, LoopShuts, Unlooped, FollowSteps
  <1>10. CASE RuntimeStarts
    BY <1>3, <1>6, <1>10 DEF RuntimeStarts, Unlooped, FollowSteps
  <1>11. CASE RuntimeCloses
    <2>1. CASE kind = "heads"
      BY <1>3, <1>11, <2>1 DEF RuntimeCloses, Unlooped, FollowSteps
    <2>2. CASE kind = "events"
      BY <1>6, <1>11, <2>2
    <2>3. QED
      BY <1>2, <2>1, <2>2 DEF EndInv, LoopType
  <1>12. QED
    BY <1>3, <1>4, <1>5, <1>6, <1>7, <1>8, <1>9, <1>10, <1>11 DEF Next, ClientStep, LoopStep

LEMMA OrderBegins ==
    ASSUME StreamAssumption, Init
    PROVE  OrderedInv
  <1>1. FollowInv(<<Root>>) /\ EndInv
    BY FollowBegins, InitEnd
  <1>2. /\ got = <<>> /\ events = NewStream /\ heads = NewStream /\ loop = IdleLoop /\ Len(node.sent) = 0
    BY DEF Init, FollowInit
  <1>3. /\ Len(got) = 0 /\ Len(heads.queue) = 0 /\ Len(events.queue) = 0 /\ heads.task = "unstarted"
        /\ events.task = "unstarted" /\ loop.at = "idle"
    BY <1>2 DEF NewStream, IdleLoop
  <1> DEFINE v == <<Root>>[1]
  <1>4. v.count = 0
    BY DEF Root
  <1> HIDE DEF v
  <1>5. HeadsAt(0, v)
    BY <1>3, <1>4 DEF HeadsAt, InHand
  <1>6. Counts(0)
    BY <1>2, <1>3, RankZero DEF Counts, InHand
  <1>7. EventsAt(v)
    BY <1>3, <1>5, <1>6 DEF EventsAt, Placed
  <1>8. GotInOrder
    <2>1. ~Ended
      BY <1>2 DEF Ended
    <2>2. QED
      BY <1>3, <2>1 DEF GotInOrder, Received
  <1>9. QED
    BY <1>1, <1>3, <1>5, <1>7, <1>8 DEF OrderedInv, OrderInv, v

LEMMA OrderIsKept ==
    ASSUME OrderedInv
    PROVE  InOrder
  <1>1. ~node.legacy => GotInOrder
    BY DEF OrderedInv, OrderInv
  <1>2. \A p : Rank(p) = RankOf(kind, node.sent, p)
    BY DEF Rank, RankOf, Wanted, WantedOf
  <1>3. \A b : Wanted(b) <=> WantedOf(kind, b)
    BY DEF Wanted, WantedOf
  <1>4. QED
    BY <1>1, <1>2, <1>3 DEF InOrder, GotInOrder, IsNth

(* What the runtime receives comes in the order in which the node announced  *)
(* its best heads, of each head that it wants once (bittensor.py:1951-2015,  *)
(* 2211-2263): however many heads there are, however the two tasks           *)
(* interleave, and wherever they wait, fail or are cancelled.                *)
THEOREM EventsComeInOrder ==
    ASSUME StreamAssumption
    PROVE  Spec => []InOrder
  <1>1. Init => OrderedInv
    BY OrderBegins
  <1>2. OrderedInv /\ [Next]_streamVars => OrderedInv'
    BY OrderStep
  <1>3. OrderedInv => InOrder
    BY OrderIsKept
  <1>4. QED
    BY <1>1, <1>2, <1>3, PTL DEF Spec

=============================================================================
