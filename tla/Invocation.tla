------------------------------ MODULE Invocation ------------------------------
(***************************************************************************)
(* One invocation of a chainwake command, from its validated arguments to  *)
(* its exit: cli/chains/dispatch.py.  Every failure becomes one payload and*)
(* an exit code.  The watcher itself is a step here (WatcherRuntime has    *)
(* its inside), as is the submission of a durable job (DurableJobs).       *)
(***************************************************************************)
EXTENDS Naturals, Sequences

CONSTANTS
    Sinks,          \* the --out values: "stdout", "file", "bad", "full"
    Submits         \* may be a durable submission: a subset of BOOLEAN

VARIABLE inv        \* the invocation

-----------------------------------------------------------------------------
(* "bad" is a URI that no adapter can be made of (file:// without a path, a  *)
(* directory that cannot be created); "full" is a sink that fails when it is *)
(* written to.                                                               *)
Parses(sink) == sink # "bad"
Writes(sink) == sink \notin {"bad", "full"}

\* What each kind of failure is answered with: the ladder of except clauses.
Failures == {"cancelled", "user", "auth", "os", "provider", "substrate", "other"}
Payload(failure) ==
    CASE failure = "cancelled" -> "stopped"
      [] failure = "user" -> "user_error"
      [] failure = "auth" -> "auth_error"
      [] failure \in {"os", "provider", "substrate"} -> "provider_error"
      [] failure = "other" -> "internal_error"

\* The exit code that goes with a payload (output/schema.py, core/runtime.py).
ExitOf(payload) ==
    CASE payload \in {"matched", "submitted"} -> 0
      [] payload \in {"timeout", "stopped", "budget_exhausted"} -> 1
      [] payload = "user_error" -> 2
      [] payload \in {"auth_error", "provider_error"} -> 3
      [] payload \in {"internal_error", "failed_job"} -> 4
WatchPayloads == {"matched", "timeout", "stopped", "budget_exhausted", "user_error",
                  "auth_error", "provider_error", "internal_error"}
Uncaught == 1       \* what Python exits with after a traceback
NoExit == 99

InvInit ==
    \E sink \in Sinks, durable \in Submits :
        inv = [at |-> "lookup", sink |-> sink, durable |-> durable, adapter |-> FALSE,
               connected |-> FALSE, failure |-> "none", payloads |-> <<>>, exit |-> NoExit]

Goes(place) == inv' = [inv EXCEPT !.at = place]
Raises(failure) == inv' = [inv EXCEPT !.at = "failed", !.failure = failure]
Prints(payload, exit) ==
    inv' = [inv EXCEPT !.at = "finally", !.payloads = Append(@, payload), !.exit = exit]

\* backend_for, lookup
LookedUp == /\ inv.at = "lookup"
            /\ \/ Goes(IF inv.durable THEN "submit" ELSE "adapters")
               \/ Raises("user")

\* _submit_if_durable: invalid input is answered on the spot, and --out is
\* invalid; without a supervisor the job fails; the store may fail.
JobSubmitted ==
    /\ inv.at = "submit"
    /\ \/ Prints("user_error", 2)
       \/ /\ inv.sink = "stdout"
          /\ \/ \E payload \in {"submitted", "failed_job"} : Prints(payload, ExitOf(payload))
             \/ Raises("other")

\* _parse_out_uris: the error adapter is the first adapter.
AdaptersParsed ==
    /\ inv.at = "adapters"
    /\ IF Parses(inv.sink)
       THEN inv' = [inv EXCEPT !.at = "connect", !.adapter = TRUE]
       ELSE Raises("other")

\* connect, and _classify_invalid_status of a rejected handshake.
Connected ==
    /\ inv.at = "connect"
    /\ \/ inv' = [inv EXCEPT !.at = "run", !.connected = TRUE]
       \/ \E failure \in Failures : Raises(failure)

\* runner.run() reports what it meets itself, on a sink that works, but for
\* parameters that the path does not fit.  A cancellation may come before its
\* payload; what one that comes later does is in WatcherRuntime.
WatcherRan ==
    /\ inv.at = "run"
    /\ \/ /\ Writes(inv.sink)
          /\ \E payload \in WatchPayloads : Prints(payload, ExitOf(payload))
       \/ ~Writes(inv.sink) /\ Raises("os")
       \/ \E failure \in {"user", "cancelled"} : Raises(failure)

\* An except clause: the payload goes to the error adapter, which is made now
\* if there is none, or, for a rejected job, to stdout.  What fails here is not
\* caught any more.
ToStdout == inv.failure = "user" /\ ~inv.adapter /\ inv.durable
FailureReported ==
    /\ inv.at = "failed"
    /\ IF ~Writes(inv.sink) /\ ~ToStdout
       THEN inv' = [inv EXCEPT !.at = "finally", !.exit = Uncaught]
       ELSE Prints(Payload(inv.failure), ExitOf(Payload(inv.failure)))

\* Mutant: a command that failed leaves the connection to the interpreter.
MutExitedAfterFailure ==
    /\ inv.at = "finally"
    /\ inv' = [inv EXCEPT !.at = "exited", !.connected = @ /\ inv.failure # "none"]
\* finally: disconnect, whatever comes of it.
Exited == /\ inv.at = "finally"
          /\ inv' = [inv EXCEPT !.at = "exited", !.connected = FALSE]

InvStep == LookedUp \/ JobSubmitted \/ AdaptersParsed \/ Connected \/ WatcherRan
           \/ FailureReported \/ Exited

-----------------------------------------------------------------------------
(* Wherever an invocation fails or is cancelled, it prints exactly one       *)
(* payload, exits with the code of that payload, and leaves no connection    *)
(* open, provided that its sink can be made and written to                   *)
(* (dispatch.py:134-302).                                                    *)
OneEnvelope ==
    inv.at = "exited" /\ Writes(inv.sink) =>
        /\ Len(inv.payloads) = 1
        /\ inv.exit = ExitOf(inv.payloads[1])
        /\ ~inv.connected
=============================================================================
