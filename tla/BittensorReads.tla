--------------------------- MODULE BittensorReads ---------------------------
(***************************************************************************)
(* One read of an observable by BittensorProvider (providers/bittensor.py),*)
(* RPC by RPC, while the chain moves.                                      *)
(*                                                                         *)
(* A read pins a block, reads the block's time, checks that the subnet and *)
(* the neuron it is about exist, reads the value at the pinned block, and, *)
(* if the value is an activity marker, looks up the block the marker names *)
(* by its NUMBER.  Then the runtime reads the epoch at the pinned block.   *)
(*                                                                         *)
(* A block is identified with the chain that ends in it: a hash commits to *)
(* all ancestors.  A chain is a sequence of blocks' contents.              *)
(***************************************************************************)
EXTENDS Integers, Sequences, FiniteSets

CONSTANTS
    NoValue,         \* Python's None
    Contents,        \* contents of a block: records, see below
    MaxHeight,       \* bound on the height of the chain
    Paths,           \* the observables that may be read: records, see below
    Drops,           \* the queries that may complete without their true result
    MaxReconfirms    \* _RATE_LIMIT_MAX_ATTEMPTS (8)

\* Contents: [level: Int, active, epoch, slow, subnet, neuron: BOOLEAN].
\* Paths: [entity: {"none", "root", "subnet", "neuron"}, marker, epochs: BOOLEAN,
\*         mechanism: Nat, unit: {"time", "blocks", "epochs"}].

VARIABLES
    head,       \* the best chain
    path,       \* the observable that is read
    rd          \* the read in progress

readVars == <<head, path, rd>>

-----------------------------------------------------------------------------
(* What the chain holds as of a block. *)

Chains == UNION {[1..n -> Contents] : n \in 1..MaxHeight}
Number(b) == Len(b)
Ancestor(b, n) == SubSeq(b, 1, n)
Top(b) == b[Len(b)]

\* A block is made one tick after its parent, or two if it is slow.
TimeAt(b) == Len(b) + Cardinality({i \in 1..Len(b) : b[i].slow})
EpochAt(b) == Cardinality({i \in 1..Len(b) : b[i].epoch})
\* LastUpdate, LastTxBlock: the block of the last activity, 0 if there is none.
MarkerAt(b) == LET active == {i \in 1..Len(b) : b[i].active}
               IN IF active = {} THEN 0
                  ELSE CHOOSE i \in active : \A j \in active : j <= i
ValueAt(p, b) == IF p.marker THEN MarkerAt(b) ELSE Top(b).level
Exists(p, b) == /\ p.entity \in {"subnet", "neuron"} => Top(b).subnet
                /\ p.entity = "neuron" => Top(b).neuron

-----------------------------------------------------------------------------
(* The state of a read. *)

\* madeUp (history): what the read took for an answer without having one.
NoRead == [at |-> "idle", pin |-> <<>>, raw |-> NoValue, hits |-> 0,
           time |-> NoValue, value |-> NoValue, named |-> NoValue,
           activityTime |-> NoValue, activityEpoch |-> NoValue,
           epoch |-> NoValue, error |-> "none", madeUp |-> {}]

To(place) == rd' = [rd EXCEPT !.at = place]
Quits(error, madeUp) == rd' = [NoRead EXCEPT !.at = "failed", !.error = error,
                                             !.pin = rd.pin, !.madeUp = madeUp]
Quit(error) == Quits(error, {})

\* The ways a query ends besides an answer.  An error response is raised
\* (_substrate_patch); a query may also complete without any result.
Lost(query) == query \in Drops
MayMiss(query) == {missing \in BOOLEAN : missing => Lost(query)}
MadeUpIf(missing, part) == rd.madeUp \cup IF missing THEN {part} ELSE {}
Read(place) == rd.at = place /\ UNCHANGED <<head, path>>

\* SubstrateRequestException becomes a ProviderError, for the runtime to retry.
QueryFails ==
    /\ rd.at \in {"stamp", "guard", "canary", "recheck", "mechanism", "uid",
                  "value", "lookup", "activity", "epoch"}
    /\ Quit("provider")
    /\ UNCHANGED <<head, path>>

-----------------------------------------------------------------------------
(* read_observable. *)

\* The checks that follow the subnet's, and the one that follows the neuron's.
AfterNeuron == IF path.mechanism > 0 THEN "mechanism" ELSE "value"
AfterGuard == IF path.entity = "neuron" THEN "uid" ELSE AfterNeuron

\* _resolve_block: all queries are pinned to one block, the head or the one
\* that a notification named when it was the head.
ReadBegins ==
    /\ rd.at = "idle"
    /\ rd' = [NoRead EXCEPT !.at = "stamp", !.pin = head]
    /\ UNCHANGED <<head, path>>

\* The block's time may not be made up: no result is an error.
TimestampRead ==
    /\ Read("stamp")
    /\ \/ rd' = [rd EXCEPT !.time = TimeAt(rd.pin),
                           !.at = IF path.entity = "none" THEN AfterGuard ELSE "guard"]
       \/ Lost("Timestamp") /\ Quit("decode")

\* What NetworksAdded may answer for the subnet and for the root network: the
\* truth, no result, or the default that stands in for it.
IsAdded == path.entity = "root" \/ Top(rd.pin).subnet
NotAnswered == IF Lost("NetworksAdded") THEN {NoValue, FALSE} ELSE {}
Added == {IsAdded} \cup NotAnswered
RootAdded == {TRUE} \cup NotAnswered

Absent(raw) == Quits("no_entity", IF raw = FALSE /\ IsAdded THEN {"entity"} ELSE {})
\* Mutant: no result counts as absence.
MutVerdictOnSilence(raw) == Absent(raw)
\* _raise_subnet_verdict
Verdict(raw) == IF raw = NoValue THEN Quit("provider") ELSE Absent(raw)

\* The wait before another read (RateLimitGuard.handle), or the end of it.
Reconfirm(raw) ==
    IF rd.hits < MaxReconfirms
    THEN rd' = [rd EXCEPT !.at = "recheck", !.raw = raw, !.hits = @ + 1]
    ELSE Verdict(raw)

\* The subnet is there; what the reconfirmation kept is forgotten.
Passed == rd' = [rd EXCEPT !.at = AfterGuard, !.raw = NoValue, !.hits = 0]

SubnetRead ==
    /\ Read("guard")
    /\ \E raw \in Added :
        CASE raw = TRUE -> Passed
          [] raw # TRUE /\ path.entity # "root" ->
                rd' = [rd EXCEPT !.at = "canary", !.raw = raw]
          [] raw # TRUE /\ path.entity = "root" -> Reconfirm(raw)

CanaryRead ==
    /\ Read("canary")
    /\ \E canary \in RootAdded :
        IF canary = TRUE THEN Verdict(rd.raw) ELSE Reconfirm(rd.raw)

SubnetReread ==
    /\ Read("recheck")
    /\ \E raw \in Added : IF raw = TRUE THEN Passed ELSE Reconfirm(raw)

\* _require_neuron: no result counts as not registered.  The uid is cached for
\* the read.
UidRead ==
    /\ Read("uid")
    /\ \/ Top(rd.pin).neuron /\ To(AfterNeuron)
       \/ ~Top(rd.pin).neuron /\ Quit("no_entity")
       \/ Top(rd.pin).neuron /\ Lost("Uids") /\ Quits("no_entity", {"entity"})

\* _mechanism_storage_index: no result counts as no mechanism.
MechanismRead ==
    /\ Read("mechanism")
    /\ \/ To("value")
       \/ Lost("MechanismCount") /\ Quit("decode")

\* The readers coerce what is missing to zero (_scale_to_int).
Coerced(missing) == IF missing THEN 0 ELSE ValueAt(path, rd.pin)

\* _activity_context is needed for a marker above zero.
NeedsContext(value) == path.marker /\ value > 0 /\ path.unit # "blocks"
AfterValue(value) == IF NeedsContext(value) THEN "lookup"
                     ELSE IF path.epochs THEN "epoch" ELSE "done"

ValueRead ==
    /\ Read("value")
    /\ \E missing \in MayMiss("Value") :
        rd' = [rd EXCEPT !.value = Coerced(missing),
                         !.madeUp = MadeUpIf(missing, "value"),
                         !.at = AfterValue(Coerced(missing))]

\* get_block_hash by number: of the chain as it is now.
ActivityLookup ==
    /\ Read("lookup")
    /\ \/ /\ rd.value <= Number(head)
          /\ rd' = [rd EXCEPT !.named = Ancestor(head, rd.value), !.at = "activity"]
       \/ (rd.value <= Number(head) => Lost("BlockHash")) /\ Quit("decode")

\* The named block's time, without which the read fails, and its epoch, which is
\* zero if it is missing.
EpochOf(b, missing) == IF missing THEN 0 ELSE EpochAt(b)
ActivityRead ==
    /\ Read("activity")
    /\ \/ Lost("Timestamp") /\ Quit("decode")
       \/ LET epochal == path.epochs /\ path.unit # "time"
          IN \E missing \in IF epochal THEN MayMiss("Epoch") ELSE {FALSE} :
              rd' = [rd EXCEPT !.activityTime = TimeAt(rd.named),
                        !.activityEpoch = IF epochal THEN EpochOf(rd.named, missing)
                                                     ELSE NoValue,
                        !.madeUp = MadeUpIf(missing, "activityEpoch"),
                        !.at = IF path.epochs THEN "epoch" ELSE "done"]

\* get_epoch_state, pinned to the block of the value; a missing epoch is zero.
EpochRead ==
    /\ Read("epoch")
    /\ \E missing \in MayMiss("Epoch") :
        rd' = [rd EXCEPT !.epoch = EpochOf(rd.pin, missing),
                         !.madeUp = MadeUpIf(missing, "epoch"), !.at = "done"]

\* The runtime retries what may pass, at the block that was notified or, if the
\* read was a poll, at the head; everything else ends the watch.
ReadRetried ==
    /\ rd.at = "failed" /\ rd.error = "provider"
    /\ \/ rd' = NoRead
       \/ rd' = [NoRead EXCEPT !.at = "stamp", !.pin = rd.pin]
    /\ UNCHANGED <<head, path>>

ReadStep ==
    \/ ReadBegins \/ TimestampRead \/ SubnetRead \/ CanaryRead \/ SubnetReread
    \/ MechanismRead \/ UidRead \/ ValueRead \/ ActivityLookup \/ ActivityRead
    \/ EpochRead \/ QueryFails \/ ReadRetried

-----------------------------------------------------------------------------
(* The chain: a block on top of the head, or of an ancestor near it. *)

NewBlock(depth) ==
    /\ Number(head) - depth \in 1..(MaxHeight - 1)
    /\ \E c \in Contents : head' = Append(Ancestor(head, Number(head) - depth), c)
    /\ head' # head
    /\ UNCHANGED <<path, rd>>

\* The result of a read that is done, as the primitive sees it.
Observation ==
    [kind |-> "number", value |-> rd.value, pulse |-> FALSE, block |-> Number(rd.pin),
     time |-> rd.time, epoch |-> rd.epoch,
     activityTime |-> rd.activityTime, activityEpoch |-> rd.activityEpoch]

-----------------------------------------------------------------------------
(* A read that says that an entity does not exist speaks of one that did   *)
(* not exist at the pinned block, unless an answer was made up: the subnet's*)
(* absence by a default that stood in for the answer, the neuron's by no    *)
(* result.  No result alone never makes a subnet absent, and an answer that *)
(* it exists always counts: the point of the canary and of the              *)
(* reconfirmation (bittensor.py:935-1018, 1338).  A completed read is about *)
(* an entity that exists, and its time, value, epoch and the context of its *)
(* marker are those of the blocks they are said to be of; what had no       *)
(* result is zero there and nothing else (bittensor.py:543-577, 622-683).   *)
Told(part, truth) == IF part \in rd.madeUp THEN 0 ELSE truth
ReadIsTrue ==
    /\ rd.at = "failed" /\ rd.error = "no_entity" =>
           ~Exists(path, rd.pin) \/ "entity" \in rd.madeUp
    /\ rd.at = "done" =>
           /\ Exists(path, rd.pin)
           /\ rd.time = TimeAt(rd.pin)
           /\ rd.value = Told("value", ValueAt(path, rd.pin))
           /\ path.epochs => rd.epoch = Told("epoch", EpochAt(rd.pin))
           /\ rd.activityTime # NoValue =>
                  Number(rd.named) = rd.value /\ rd.activityTime = TimeAt(rd.named)
           /\ rd.activityEpoch # NoValue =>
                  rd.activityEpoch = Told("activityEpoch", EpochAt(rd.named))
=============================================================================
