--------------------------- MODULE ConditionWatch ---------------------------
(***************************************************************************)
(* A watch of a Bittensor observable: reads, each of several RPCs, feed a  *)
(* condition primitive until it matches or something fails.  Composes      *)
(* BittensorReads with Primitives.                                         *)
(***************************************************************************)
EXTENDS BittensorReads

INSTANCE Primitives

CONSTANTS
    Watches,     \* what may be watched: a condition, its path, and the contents
                 \* of blocks that make a difference to it
    MaxSeen,     \* bound on the number of observations
    MaxDepth     \* bound on the blocks that a reorganisation replaces

\* Watches: [primitive, operator, target, unit, size, path, contents].
WatchTyped(w) ==
    /\ w.contents \subseteq Contents
    /\ w.path.entity \in {"none", "root", "subnet", "neuron"}
    /\ w.path.marker \in BOOLEAN /\ w.path.epochs = (w.unit = "epochs")
    /\ w.primitive \in {"threshold", "delta", "state", "liveness"}
    /\ w.primitive = "delta" =>
           /\ w.unit \in {"ever", "time", "blocks", "epochs"}
           /\ w.operator \in {"drop", "rise", "move"}
           /\ w.target \in Int /\ w.size \in Nat
    /\ w.primitive = "liveness" =>
           /\ w.unit \in {"time", "blocks", "epochs"} /\ w.size \in Nat
           /\ w.path.marker /\ w.path.unit = w.unit
\* None is neither a number nor a truth value.
WatchAssumption ==
    /\ NoValue \notin Int \cup BOOLEAN
    /\ Contents \subseteq [level : Int, active : BOOLEAN, epoch : BOOLEAN, slow : BOOLEAN,
                           subnet : BOOLEAN, neuron : BOOLEAN]
    /\ \A w \in Watches : WatchTyped(w)

VARIABLES
    watch,       \* the condition, a member of Watches
    memory,      \* the primitive's memory
    outcome,     \* its last answer
    seen         \* history: the observations

watchVars == <<readVars, watch, memory, outcome, seen>>

-----------------------------------------------------------------------------
InitialMemory(primitive) ==
    CASE primitive = "threshold" -> NoTicks
      [] primitive = "delta" -> NoTicks
      [] primitive = "state" -> NothingSeen
      [] primitive = "liveness" -> NoAnchor

Answered(o) ==
    CASE watch.primitive = "threshold" -> Threshold(watch, memory, o)
      [] watch.primitive = "delta" -> Delta(watch, memory, o)
      [] watch.primitive = "state" -> State(watch, memory, o)
      [] watch.primitive = "liveness" -> Liveness(watch, memory, o)

\* The runtime feeds the observation to the primitive; a match or an error
\* ends the watch.
Evaluate ==
    /\ rd.at = "done"
    /\ Len(seen) < MaxSeen
    /\ LET o == Observation
           answer == Answered(o)
       IN /\ memory' = answer.memory
          /\ outcome' = answer.outcome
          /\ seen' = Append(seen, o)
    /\ rd' = NoRead
    /\ UNCHANGED <<head, path, watch>>

Watching == outcome \notin {"match", "raises"} /\ rd.error \notin {"no_entity", "decode"}

Init ==
    /\ watch \in Watches
    /\ path = watch.path
    /\ head \in {<<c>> : c \in watch.contents}
    /\ rd = NoRead
    /\ memory = InitialMemory(watch.primitive)
    /\ outcome = "needs_data"
    /\ seen = <<>>

\* The chain moves at any time; only its moves before a step that reads the
\* head make a difference.
HeadIsReadNext == rd.at \in {"idle", "lookup"}

Unwatched == UNCHANGED <<watch, memory, outcome, seen>>
Next ==
    /\ Watching /\ Len(seen) < MaxSeen
    /\ \/ ReadStep /\ Unwatched
       \/ /\ HeadIsReadNext
          /\ \E depth \in 0..MaxDepth : NewBlock(depth)
          /\ Top(head') \in watch.contents
          /\ Unwatched
       \/ Evaluate

Spec == Init /\ [][Next]_watchVars

-----------------------------------------------------------------------------
(* Reference definitions, over the history of observations. *)

Last == Len(seen)
\* Where an observation was made, on the axis of the condition.
Coordinate(o) == CASE watch.unit = "time" -> o.time
                   [] watch.unit = "blocks" -> o.block
                   [] watch.unit = "epochs" -> o.epoch

\* The baseline of a rolling window: the earliest observation that has been
\* inside the window ever since it was made.
StillInside(i) == \A j \in i..Last :
                    Coordinate(seen[i]) >= Coordinate(seen[j]) - watch.size
Baseline == IF watch.unit = "ever" THEN 1
            ELSE CHOOSE i \in 1..Last : /\ StillInside(i)
                                        /\ \A j \in 1..(i - 1) : ~StillInside(j)
\* The band around a value that a move of target percent leaves, in hundredths.
Lowest(from) == 100 * from - watch.target * Magnitude(from)
Highest(from) == 100 * from + watch.target * Magnitude(from)
Far(from, to) == CASE watch.operator = "drop" -> 100 * to <= Lowest(from)
                   [] watch.operator = "rise" -> 100 * to >= Highest(from)
                   [] watch.operator = "move" ->
                        100 * to <= Lowest(from) \/ 100 * to >= Highest(from)

DeltaAgrees ==
    watch.primitive = "delta" /\ Last > 0 =>
        (outcome = "match" <=>
            /\ Baseline < Last
            /\ seen[Baseline].value # 0
            /\ Far(seen[Baseline].value, seen[Last].value))

\* The first of the latest observations that saw the same marker.
Since == CHOOSE i \in 1..Last :
            /\ \A j \in i..Last : seen[j].value = seen[Last].value
            /\ i > 1 => seen[i - 1].value # seen[Last].value
\* The activity that an observation tells of: the block that its marker names, as
\* the provider looked it up then, or the observation itself if there is none.
Activity(o) == IF o.value = 0 THEN Coordinate(o)
               ELSE CASE watch.unit = "time" -> o.activityTime
                      [] watch.unit = "blocks" -> o.value
                      [] watch.unit = "epochs" -> o.activityEpoch
Silence == Coordinate(seen[Last]) - Activity(seen[Since])
\* No activity ever, measured in epochs.
Placeless == watch.unit = "epochs" /\ seen[Last].value = 0

LivenessAgrees ==
    watch.primitive = "liveness" /\ Last > 0 =>
        /\ outcome = "raises" <=> Placeless /\ Since < Last
        /\ outcome = "match" <=>
              /\ ~Placeless /\ Silence >= watch.size
              /\ Since = Last => Last = 1 /\ seen[Last].value > 0

(* A watch matches exactly when what it observed says so, whatever the chain *)
(* does and whatever the reads make up.  A delta compares the newest value   *)
(* with the oldest one that has stayed in the window, and misses no such move*)
(* (delta.py:104-200).  A liveness watch fires when the observations put the *)
(* last activity as far back as was asked: at the first observation already  *)
(* if its marker is not zero, and never while the marker has just changed    *)
(* (liveness.py:78-121).  The activity is where the provider found it when   *)
(* the marker was first seen; a reorganisation that puts another block in its*)
(* place moves nothing (bittensor.py:622-683).  A marker of zero counts from *)
(* the observation that first saw it, with one exception, which ends the     *)
(* watch instead: in epochs the second observation of it raises, for the     *)
(* anchor has no epoch (liveness.py:245, 168), although the comment at       *)
(* liveness.py:232-234 and the docstring at bittensor.py:638-640 say that it *)
(* counts from there.                                                        *)
MatchIsTrue == DeltaAgrees /\ LivenessAgrees
=============================================================================
