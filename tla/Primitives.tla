----------------------------- MODULE Primitives -----------------------------
(***************************************************************************)
(* The condition primitives of chainwake (core/primitives/): what each one *)
(* remembers, and what it answers to the next observation.                 *)
(*                                                                         *)
(* A primitive is a memory and a function of that memory and of an         *)
(* observation.  The function returns the new memory and the outcome:      *)
(* "match", "no_match", "needs_data", or "raises" for the RuntimeErrors.   *)
(* Percentages are compared without dividing, so values are integers.      *)
(***************************************************************************)
EXTENDS Integers, FiniteSets

CONSTANTS
    NoValue        \* Python's None

Outcomes == {"match", "no_match", "needs_data", "raises"}
Answer(memory, outcome) == [memory |-> memory, outcome |-> outcome]

-----------------------------------------------------------------------------
(* Observations.  What providers/base.py calls an ObservableValue: a value *)
(* of some kind, read at a block, with the context the provider and the    *)
(* runtime attach: the epoch of the block, and for an activity marker the  *)
(* time and epoch of the block it names.                                   *)

IsNumber(o) == o.kind = "number"
\* A non-negative integer that is not a bool.
ActivityMarker(o) == IF IsNumber(o) /\ o.value >= 0 THEN o.value ELSE NoValue

-----------------------------------------------------------------------------
(* Threshold: stateless. *)

Crosses(operator, value, target) ==
    IF operator = "below" THEN value < target ELSE value > target

Threshold(w, memory, o) ==
    Answer(memory, IF IsNumber(o) /\ Crosses(w.operator, o.value, w.target)
                   THEN "match" ELSE "no_match")

-----------------------------------------------------------------------------
(* Delta: the ticks of the window, in order of arrival.  The list is       *)
(* represented by the set of its ticks, each with its arrival number.      *)

Tick(o, arrival) == [arrival |-> arrival, block |-> o.block, time |-> o.time,
                     value |-> o.value, epoch |-> o.epoch]
Oldest(ticks) == CHOOSE t \in ticks : \A u \in ticks : t.arrival <= u.arrival

\* Position of a tick on the axis that the window is measured on.
Position(unit, t) == CASE unit = "time" -> t.time
                       [] unit = "blocks" -> t.block
                       [] OTHER -> t.epoch
\* Mutant: a tick at the border of the window is dropped.
MutInsideWindow(w, t, current) ==
    Position(w.unit, t) > Position(w.unit, current) - w.size
InWindow(w, t, current) ==
    Position(w.unit, t) >= Position(w.unit, current) - w.size

Pruned(w, ticks, current) ==
    IF w.unit = "ever" THEN {Oldest(ticks), current}
                       ELSE {t \in ticks : InWindow(w, t, current)}

Magnitude(n) == IF n < 0 THEN -n ELSE n
\* value moved by at least target percent of |base|
Moved(operator, base, value, target) ==
    LET change == 100 * (value - base)
        bound == target * Magnitude(base)
    IN CASE operator = "drop" -> change <= -bound
         [] operator = "rise" -> change >= bound
         [] operator = "move" -> Magnitude(change) >= bound
Compared(w, base, value) ==
    IF base # 0 /\ Moved(w.operator, base, value, w.target)
    THEN "match" ELSE "no_match"

\* The arrival number of the next tick.
NextArrival(ticks) ==
    IF ticks = {} THEN 1
    ELSE 1 + (CHOOSE t \in ticks : \A u \in ticks : u.arrival <= t.arrival).arrival

NoTicks == {}
Delta(w, ticks, o) ==
    LET current == Tick(o, NextArrival(ticks))
        kept == Pruned(w, ticks \cup {current}, current)
    IN CASE ~IsNumber(o) -> Answer(ticks, "no_match")
         [] IsNumber(o) /\ w.unit = "epochs" /\ o.epoch = NoValue ->
                Answer(ticks, "needs_data")
         [] IsNumber(o) /\ ~(w.unit = "epochs" /\ o.epoch = NoValue) ->
                IF ticks = {} THEN Answer({current}, "needs_data")
                ELSE IF Cardinality(kept) < 2 THEN Answer(kept, "needs_data")
                ELSE Answer(kept, Compared(w, Oldest(kept).value, o.value))

-----------------------------------------------------------------------------
(* State: the previous value and its kind.  Maps and lists are compared as *)
(* wholes, and only "change" fires for them.                               *)

NothingSeen == [seen |-> FALSE, kind |-> "none", value |-> NoValue]
Scalars == {"number", "text", "none"}

Transition(operator, target, previous, current) ==
    CASE operator = "change" -> TRUE
      [] operator = "to" -> current = target
      [] operator = "from" -> previous = target

State(w, memory, o) ==
    LET now == [seen |-> TRUE, kind |-> o.kind, value |-> o.value]
        scalar == IF memory.kind \in Scalars THEN memory.value ELSE NoValue
        fires == IF o.kind \in Scalars
                 THEN /\ o.value # scalar
                      /\ Transition(w.operator, w.target, scalar, o.value)
                 ELSE /\ memory.kind = o.kind
                      /\ memory.value # o.value
                      /\ w.operator = "change"
    IN IF ~memory.seen THEN Answer(now, "needs_data")
       ELSE Answer(now, IF fires THEN "match" ELSE "no_match")

-----------------------------------------------------------------------------
(* Liveness: the last known activity (anchor) and the marker it came from. *)

NoAnchor == [set |-> FALSE, marker |-> NoValue, block |-> NoValue,
             time |-> NoValue, epoch |-> NoValue]

\* _anchor_for: the epoch is the historical one for every marker, the block
\* and the time only for a marker above zero.
AnchorFor(o, epoch, marker) ==
    LET known == marker # NoValue /\ marker > 0
    IN [set |-> TRUE, marker |-> marker,
        block |-> IF known THEN marker ELSE o.block,
        time |-> IF known THEN o.activityTime ELSE o.time,
        epoch |-> IF marker # NoValue THEN o.activityEpoch ELSE epoch]

\* A pulse moves the anchor and leaves the marker alone.
PulseAnchor(anchor, o) ==
    [AnchorFor(o, o.epoch, NoValue) EXCEPT !.marker = anchor.marker]

\* The unit's coordinate of the anchor and of the observation.
AnchorAt(unit, anchor) == CASE unit = "time" -> anchor.time
                            [] unit = "blocks" -> anchor.block
                            [] unit = "epochs" -> anchor.epoch
ObservedAt(unit, o) == CASE unit = "time" -> o.time
                         [] unit = "blocks" -> o.block
                         [] unit = "epochs" -> o.epoch
Elapsed(unit, anchor, o) == ObservedAt(unit, o) - AnchorAt(unit, anchor)
Unmeasurable(unit, anchor) == AnchorAt(unit, anchor) = NoValue

\* What an observation lacks before the primitive looks at it.
LacksContext(w, o, marker) ==
    \/ w.unit = "epochs" /\ o.epoch = NoValue
    \/ /\ marker # NoValue /\ marker > 0
       /\ \/ w.unit = "time" /\ o.activityTime = NoValue
          \/ w.unit = "epochs" /\ o.activityEpoch = NoValue

FirstLiveness(w, o, marker) ==
    LET anchor == AnchorFor(o, o.epoch, marker)
    IN Answer(anchor,
              IF /\ marker # NoValue /\ marker > 0
                 /\ Elapsed(w.unit, anchor, o) >= w.size
              THEN "match" ELSE "needs_data")

LaterLiveness(w, anchor, o, marker) ==
    IF marker # NoValue /\ marker # anchor.marker
    THEN Answer(AnchorFor(o, o.epoch, marker), "no_match")
    ELSE IF Unmeasurable(w.unit, anchor) THEN Answer(anchor, "raises")
    ELSE IF Elapsed(w.unit, anchor, o) >= w.size THEN Answer(anchor, "match")
    ELSE Answer(IF marker = NoValue /\ o.pulse THEN PulseAnchor(anchor, o)
                                               ELSE anchor,
                "no_match")

Liveness(w, anchor, o) ==
    LET marker == ActivityMarker(o)
    IN IF LacksContext(w, o, marker) THEN Answer(anchor, "needs_data")
       ELSE IF ~anchor.set THEN FirstLiveness(w, o, marker)
       ELSE LaterLiveness(w, anchor, o, marker)

\* An event is activity (and cannot be placed in an epoch).
LivenessEvent(w, anchor, e) ==
    IF w.unit = "epochs" THEN Answer(anchor, "needs_data")
    ELSE Answer([anchor EXCEPT !.set = TRUE, !.block = e.block,
                               !.time = e.time, !.epoch = NoValue], "no_match")

-----------------------------------------------------------------------------
(* Event: stateless; the type and every filtered argument must agree. *)

EventMatches(w, e) ==
    /\ e.type = w.type
    /\ \A k \in DOMAIN w.args : k \in DOMAIN e.args /\ e.args[k] = w.args[k]
EventCondition(w, memory, e) ==
    Answer(memory, IF EventMatches(w, e) THEN "match" ELSE "no_match")

-----------------------------------------------------------------------------
(* Transaction: fires once, at the level asked for or a stronger one. *)

Rank(level) == CASE level = "dropped" -> -1 [] level = "pending" -> 0
                 [] level = "included" -> 1 [] level = "safe" -> 2
                 [] level = "finalized" -> 3
HasBlock(s) == s.block # NoValue /\ s.hash # NoValue
Confirmed(w, s) == \/ w.confirmations = NoValue
                   \/ /\ s.confirmations # NoValue
                      /\ s.confirmations >= w.confirmations
                      /\ s.receipt

NotFired == FALSE
Transaction(w, fired, s) ==
    IF fired \/ s.level = "dropped" THEN Answer(fired, "no_match")
    ELSE IF Rank(s.level) < Rank(w.finality) \/ ~HasBlock(s) \/ ~Confirmed(w, s)
         THEN Answer(fired, "needs_data")
         ELSE Answer(TRUE, "match")
=============================================================================
