----------------------------- MODULE MC_Processes -----------------------------
(***************************************************************************)
(* The processes around a watcher for TLC, one scene at a time: supervisors*)
(* that claim the pid file one after the other (this module's own), or all *)
(* at once; a call of the MCP server and its child; and what a call or a   *)
(* command line turns into.                                                *)
(***************************************************************************)
EXTENDS SupervisorPid, McpCall, WatchRequests

CONSTANTS
    Contenders      \* processes whose claims overlap

ASSUME ContendersAssumption == Empty \notin Contenders

VARIABLES
    scene,
    file, inodes, places, attempts, opened, records     \* overlapping claims

C == INSTANCE SupervisorPid WITH
        Processes <- Contenders, SerialClaims <- FALSE, ProbeMayFail <- TRUE,
        path <- file, content <- inodes, pc <- places, attempt <- attempts,
        seen <- opened, record <- records
Inputs == INSTANCE RequestInputs
Model == INSTANCE TLC

\* Calls and Lines of the runs.
MCCalls == Inputs!ToolCalls
MCLines == Inputs!TypedLines

contendVars == <<file, inodes, places, attempts, opened, records>>
allVars == <<scene, vars, contendVars, mcpVars, requestVars>>

-----------------------------------------------------------------------------
\* What does not belong to the scene stays in one initial state.
MCInit ==
    /\ scene \in {"serial", "contend", "call", "request"}
    /\ Init /\ C!Init /\ CallInit
    /\ scene # "serial" => path = NoFile
    /\ scene # "contend" => file = NoFile
    /\ scene # "call" => /\ inv.sink = "stdout" /\ ~inv.durable
                         /\ ~call.invalid /\ ~child.stubborn
    /\ IF scene = "request" THEN RequestInit
       ELSE asked = NoValue /\ stage = "none" /\ line = NoValue /\ watch = NoValue

InSerial(A) == scene = "serial" /\ A /\ UNCHANGED <<scene, contendVars, mcpVars, requestVars>>
InContend(A) == scene = "contend" /\ A /\ UNCHANGED <<scene, vars, mcpVars, requestVars>>
InCall(A) == scene = "call" /\ A /\ UNCHANGED <<scene, vars, contendVars, requestVars>>
InRequest(A) == scene = "request" /\ A /\ UNCHANGED <<scene, vars, contendVars, mcpVars>>

MCNext == InSerial(Next) \/ InContend(C!Next) \/ InCall(CallNext) \/ InRequest(RequestNext)

MCSpec == MCInit /\ [][MCNext]_allVars

\* Inodes are only compared for equality.
MCSymmetry == Model!Permutations(Inodes)

-----------------------------------------------------------------------------
(* The property of the other scene of claims. *)

SomeContenderClaims == C!SomebodyClaims
=============================================================================
