-------------------------------- MODULE McpCall --------------------------------
(***************************************************************************)
(* A tool call of the MCP server (mcp/exec.py): the arguments are checked, *)
(* a chainwake process is started, and its one payload is the answer.  The *)
(* call may time out and the client may cancel it, at any await and more   *)
(* than once; the child is then terminated, and killed if that does not    *)
(* help.  Composes with Invocation, the inside of the child.               *)
(***************************************************************************)
EXTENDS Invocation

CONSTANTS
    Rejected,       \* may the arguments be invalid: a subset of BOOLEAN
    MaxInterrupts   \* bound on the interruptions of a call

VARIABLES
    call,           \* the call: run_tool and the task that terminates the child
    child           \* the process: alive, its code, and how it takes SIGTERM

mcpVars == <<inv, call, child>>

-----------------------------------------------------------------------------
CallInit ==
    /\ InvInit
    /\ \E invalid \in Rejected :
        call = [at |-> "validate", invalid |-> invalid, reaper |-> "none",
                result |-> "none", interrupts |-> 0]
    /\ \E stubborn \in BOOLEAN :
        child = [state |-> "none", stubborn |-> stubborn, signalled |-> FALSE, code |-> NoExit]

\* Signals leave a negative code.
Signalled == 77
Documented == 0..4

Answers(result) == call' = [call EXCEPT !.at = "returned", !.result = result]

\* _build_argv: every rejected argument is an error of the call.
Validated ==
    /\ call.at = "validate"
    /\ IF call.invalid THEN Answers("error") ELSE call' = [call EXCEPT !.at = "spawn"]
    /\ UNCHANGED <<inv, child>>

Spawned ==
    /\ call.at = "spawn"
    /\ \/ /\ call' = [call EXCEPT !.at = "communicate"]
          /\ child' = [child EXCEPT !.state = "alive"]
       \/ Answers("error") /\ UNCHANGED child
    /\ UNCHANGED inv

\* The child runs, and exits after its invocation.
ChildRuns == child.state = "alive" /\ InvStep /\ UNCHANGED <<call, child>>
ChildExits ==
    /\ child.state = "alive" /\ inv.at = "exited"
    /\ child' = [child EXCEPT !.state = "gone", !.code = inv.exit]
    /\ UNCHANGED <<inv, call>>

\* SIGTERM: until the watcher runs, the process dies of it.  The watcher takes
\* it as a request to stop, which it may ignore for ever.
ChildTerminated ==
    /\ child.state = "alive" /\ child.signalled
    /\ IF inv.at = "run"
       THEN /\ ~child.stubborn /\ Writes(inv.sink)
            /\ Prints("stopped", ExitOf("stopped"))
            /\ child' = [child EXCEPT !.signalled = FALSE]
       ELSE /\ child' = [child EXCEPT !.state = "gone", !.code = Signalled]
            /\ UNCHANGED inv
    /\ UNCHANGED call

\* communicate() returned: the output is decoded, then the code is looked at.
\* Only what goes to stdout is output; the server passes no --out.
Output == IF inv.payloads = <<>> \/ inv.sink # "stdout" THEN "not_json"
                                                        ELSE inv.payloads[1]
Communicated ==
    /\ call.at = "communicate" /\ child.state = "gone"
    /\ Answers(IF Output = "not_json" \/ child.code \notin Documented
               THEN "error" ELSE Output)
    /\ UNCHANGED <<inv, child>>

\* asyncio.shield: the termination runs in a task of its own.
StartsTermination ==
    call' = [call EXCEPT !.at = "shield", !.reaper = "terminate", !.interrupts = @ + 1]
\* Mutant: a time-out is answered with the payload of one.
MutTimeoutAnswered ==
    /\ call.at = "communicate"
    /\ call' = [call EXCEPT !.at = "returned", !.result = "timeout",
                            !.reaper = "terminate"]
    /\ UNCHANGED <<inv, child>>
TimedOut ==
    /\ call.at = "communicate"
    /\ StartsTermination
    /\ UNCHANGED <<inv, child>>
\* The client cancels, perhaps while the process is started (which the library
\* then undoes) or while the termination is awaited.
CancelledByClient ==
    /\ call.at \in {"spawn", "communicate", "shield"} /\ call.interrupts < MaxInterrupts
    /\ IF call.at = "communicate" THEN StartsTermination
       ELSE call' = [call EXCEPT !.at = "returned", !.result = "error", !.interrupts = @ + 1]
    /\ UNCHANGED <<inv, child>>

\* _terminate_process
Terminates ==
    /\ call.reaper = "terminate"
    /\ IF child.state = "gone"
       THEN call' = [call EXCEPT !.reaper = "done"] /\ UNCHANGED child
       ELSE /\ child' = [child EXCEPT !.signalled = TRUE]
            /\ call' = [call EXCEPT !.reaper = "grace"]
    /\ UNCHANGED inv
\* The grace period passes.
Kills ==
    /\ call.reaper = "grace" /\ child.state = "alive"
    /\ child' = [child EXCEPT !.state = "gone", !.code = Signalled]
    /\ call' = [call EXCEPT !.reaper = "done"]
    /\ UNCHANGED inv
Reaped ==
    /\ call.reaper = "grace" /\ child.state = "gone"
    /\ call' = [call EXCEPT !.reaper = "done"]
    /\ UNCHANGED <<inv, child>>
\* Mutant: the termination is started, not awaited.
MutTerminationUnawaited ==
    /\ call.at = "shield"
    /\ Answers("error")
    /\ UNCHANGED <<inv, child>>
\* The call that waits for the termination ends with the error.
TerminationAwaited ==
    /\ call.at = "shield" /\ call.reaper = "done"
    /\ Answers("error")
    /\ UNCHANGED <<inv, child>>

ServerStep == Validated \/ Spawned \/ Communicated \/ Terminates \/ Kills \/ Reaped
              \/ TerminationAwaited
CallNext == ServerStep \/ ChildRuns \/ ChildExits \/ ChildTerminated \/ TimedOut
            \/ CancelledByClient

CallSpec == CallInit /\ [][CallNext]_mcpVars

-----------------------------------------------------------------------------
(* An answer that is a payload is the one that the child printed before it   *)
(* exited by itself with the code of that payload; a child that was killed,  *)
(* or died before it could print, is never taken for one that answered       *)
(* (mcp/exec.py:298-352).                                                    *)
AnswerIsTheChilds ==
    call.result \notin {"none", "error"} =>
        /\ child.state = "gone" /\ child.code = ExitOf(call.result)
        /\ inv.payloads = <<call.result>>

(* A call that has returned leaves no child behind: it waits for the child,  *)
(* or for its termination, after a time-out or a cancellation by the client, *)
(* even if the child ignores SIGTERM.  A second interruption ends the call   *)
(* at once, and the termination goes on by itself (mcp/exec.py:263-328).     *)
NoChildLeft ==
    /\ call.at = "returned" /\ call.interrupts < 2 => child.state # "alive"
    /\ call.at = "returned" /\ child.state = "alive" => call.reaper \in {"terminate", "grace"}
=============================================================================
