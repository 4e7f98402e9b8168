----------------------------- MODULE MC_Provider -----------------------------
(***************************************************************************)
(* The providers for TLC, one scene at a time: a watch of a Bittensor      *)
(* transaction (this module's own), of an EVM transaction, of a condition, *)
(* and a stream of heads or events.  The scenes share no variable but the  *)
(* chain of the two transaction watches.                                   *)
(***************************************************************************)
EXTENDS TxScan, EvmTx, TLC

VARIABLES
    scene,
    chain, path, rd, watch, memory, answer, seen,           \* ConditionWatch
    node, wire, follow, heads, kind, events, loop, got      \* EventStream

-----------------------------------------------------------------------------
(* What is watched. *)

Plain == [level |-> 10, active |-> FALSE, epoch |-> FALSE, slow |-> FALSE,
          subnet |-> TRUE, neuron |-> TRUE]
Busy == [Plain EXCEPT !.active = TRUE]
NextEpoch == [Plain EXCEPT !.epoch = TRUE, !.slow = TRUE]
Higher == [Plain EXCEPT !.level = 20]
Lower == [Plain EXCEPT !.level = 5, !.epoch = TRUE, !.slow = TRUE]
Zero == [Plain EXCEPT !.level = 0]
NoSubnet == [Plain EXCEPT !.subnet = FALSE, !.neuron = FALSE]
NoNeuron == [Plain EXCEPT !.neuron = FALSE]
Blocks == {Plain, Busy, NextEpoch, Higher, Lower, Zero, NoSubnet, NoNeuron}

PathOf(entity, marker, mechanism, epochs, unit) ==
    [entity |-> entity, marker |-> marker, mechanism |-> mechanism,
     epochs |-> epochs, unit |-> unit]
Watch(primitive, operator, aim, unit, size, p, contents) ==
    [primitive |-> primitive, operator |-> operator, target |-> aim,
     unit |-> unit, size |-> size, path |-> p, contents |-> contents]
DeltaWatch(operator, aim, unit, size, contents) ==
    Watch("delta", operator, aim, unit, size,
          PathOf("none", FALSE, 0, unit = "epochs", "blocks"), contents)
LivenessWatch(unit, size, mechanism) ==
    Watch("liveness", "silent", 0, unit, size,
          PathOf("neuron", TRUE, mechanism, unit = "epochs", unit),
          IF unit = "blocks" THEN {Plain, Busy} ELSE {Busy, NextEpoch})
Watches ==
    {DeltaWatch("move", 100, "ever", 0, {Plain, Higher, Zero}),
     DeltaWatch("drop", 50, "blocks", 1, {Plain, Higher, Lower}),
     DeltaWatch("rise", 100, "time", 2, {Plain, Higher, Lower}),
     DeltaWatch("move", 60, "epochs", 1, {Higher, Lower}),
     LivenessWatch("blocks", 2, 0), LivenessWatch("time", 3, 1),
     LivenessWatch("epochs", 1, 0),
     Watch("state", "to", 20, "blocks", 0, PathOf("root", FALSE, 0, FALSE, "blocks"),
           {Plain, Higher}),
     Watch("state", "from", 10, "blocks", 0, PathOf("subnet", FALSE, 0, FALSE, "blocks"),
           {Plain, Higher, NoSubnet}),
     Watch("threshold", "below", 10, "blocks", 0, PathOf("neuron", FALSE, 1, FALSE, "blocks"),
           {Zero, NoSubnet, NoNeuron})}

W == INSTANCE ConditionWatch WITH
        head <- chain, outcome <- answer,
        Contents <- Blocks, Paths <- {w.path : w \in Watches},
        MaxHeight <- 3, MaxReconfirms <- 2, MaxSeen <- 3, MaxDepth <- 1,
        Drops <- {"NetworksAdded", "Timestamp", "MechanismCount", "Uids", "Value",
                  "BlockHash", "Epoch"}
S == INSTANCE EventStream WITH
        Labels <- {1, 2}, MaxHeight <- 2, MaxBlocks <- 3, MaxBest <- 2, MaxWire <- 1,
        QueueSize <- 1, Batch <- 2, Matching <- {1}, EventQueueSize <- 1,
        Initial <- {{<<0>>}}

ASSUME ProviderAssumption == W!WatchAssumption /\ S!StreamAssumption

scanOnly == <<cursor, call, status, target, outcome, failures>>
evmOnly == <<read, evmStatus, wanted, evmOutcome, lost>>
watchVars == <<chain, path, rd, watch, memory, answer, seen>>
streamVars == <<node, wire, follow, heads, kind, events, loop, got>>
allVars == <<scene, scanVars, evmOnly, watchVars, streamVars>>

-----------------------------------------------------------------------------
\* What does not belong to the scene stays in one initial state.  The chain starts
\* without the transaction.
FirstWatch == CHOOSE w \in Watches : TRUE
MCInit ==
    /\ scene \in {"scan", "evm", "watch", "stream"}
    /\ Init /\ EvmInit /\ W!Init /\ S!Init
    /\ scene # "scan" => target = "included"
    /\ scene # "evm" => wanted.confirmations # NoValue
    /\ ~head[1].tx
    /\ scene # "watch" => watch = FirstWatch /\ chain = <<CHOOSE c \in watch.contents : TRUE>>
    /\ scene # "stream" => kind = "heads"

InScan(A) == scene = "scan" /\ A /\ UNCHANGED <<scene, evmOnly, watchVars, streamVars>>
InEvm(A) == scene = "evm" /\ A /\ UNCHANGED <<scene, scanOnly, watchVars, streamVars>>
InWatch(A) == scene = "watch" /\ A /\ UNCHANGED <<scene, scanVars, evmOnly, streamVars>>
InStream(A) == scene = "stream" /\ A /\ UNCHANGED <<scene, scanVars, evmOnly, watchVars>>

MCNext == InScan(Next) \/ InEvm(EvmNext) \/ InWatch(W!Next) \/ InStream(S!Next)

MCSpec == /\ MCInit /\ [][MCNext]_allVars
          /\ WF_scanVars(InScan(CallStep)) /\ WF_chainVars(InScan(Finalized /\ UNCHANGED scanOnly))

-----------------------------------------------------------------------------
(* The properties of the modules. *)

EventuallyReported == (scene = "scan" /\ FinalAndRecent) ~> Reported
ReadIsTrue == W!ReadIsTrue
MatchIsTrue == W!MatchIsTrue
FollowIsExact == S!FollowIsExact
InOrder == S!InOrder
CloseIsNeverStuck == S!CloseIsNeverStuck
EndIsTold == S!EndIsTold
=============================================================================
