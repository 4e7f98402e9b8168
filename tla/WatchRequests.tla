---------------------------- MODULE WatchRequests ----------------------------
(***************************************************************************)
(* From what was asked to the watch that runs.  An agent calls a tool: the *)
(* server validates the arguments and builds a command line from them, as  *)
(* they came (mcp/exec.py), which a child process parses again.  A person  *)
(* types a command line.                                                   *)
(***************************************************************************)
EXTENDS McpTools

CONSTANTS
    Calls,      \* tool calls: [tool |-> ..., args |-> ...]
    Lines       \* typed command lines

\* A call names a tool, with any arguments; a line names a command, with ids as
\* the parser has bound them and any options.  NoValue is no number and none of
\* the words that the models and commands compare with.
ASSUME RequestAssumption ==
    /\ NoValue \notin Int
    /\ NoValue \notin {"in", "out", "included", "finalized", "safe", "--help", "--text"}
    /\ \A k \in Calls : "tool" \in DOMAIN k /\ k.tool \in Tools
    /\ \A l \in Lines :
          /\ "tool" \notin DOMAIN l
          /\ l.chain \in EvmChains \cup {"bt"} /\ l.command \in DOMAIN Commands(l.chain)
          /\ DOMAIN l.ids \subseteq {"netuid", "hotkey", "coldkey", "token", "tx_hash"}

VARIABLES
    asked,      \* the call or the line
    stage,      \* "called", "typed", "refused", "helped" or "started"
    line,       \* the command line that a process is given, or NoValue
    watch       \* the watch it dispatches, or NoValue

requestVars == <<asked, stage, line, watch>>

RequestInit ==
    /\ line = NoValue /\ watch = NoValue
    /\ \/ asked \in Calls /\ stage = "called"
       \/ asked \in Lines /\ stage = "typed"

\* _build_argv raises ValueError or ValidationError: no process is started.
RejectCall == /\ stage = "called" /\ ~Builds(asked.tool, asked.args)
              /\ stage' = "refused"
              /\ UNCHANGED <<asked, line, watch>>

BuildLine == /\ stage = "called" /\ Builds(asked.tool, asked.args)
             /\ line' = BuildArgv(asked.tool, asked.args) /\ stage' = "built"
             /\ UNCHANGED <<asked, watch>>

ReadLine == /\ stage = "typed"
            /\ line' = asked /\ stage' = "built"
            /\ UNCHANGED <<asked, watch>>

PrintHelp == /\ stage = "built" /\ PrintsHelp(line)
             /\ stage' = "helped"
             /\ UNCHANGED <<asked, line, watch>>

\* Exit code 2.
RejectLine == LET c == Commands(line.chain)[line.command]
              IN /\ stage = "built" /\ ~PrintsHelp(line)
                 /\ ReadsAsOption(line) \/ ~Accepts(c, line)
                 /\ stage' = "refused"
                 /\ UNCHANGED <<asked, line, watch>>

Dispatch == LET c == Commands(line.chain)[line.command]
            IN /\ stage = "built" /\ ~PrintsHelp(line) /\ Accepts(c, line)
               /\ watch' = Dispatched(line, c, Values(line)) /\ stage' = "started"
               /\ UNCHANGED <<asked, line>>

ByTool == "tool" \in DOMAIN asked

RequestNext == RejectCall \/ BuildLine \/ ReadLine \/ PrintHelp \/ RejectLine \/ Dispatch

RequestSpec == RequestInit /\ [][RequestNext]_requestVars

-----------------------------------------------------------------------------
(* What the provider delivers of an event (_EventSubscription). *)

\* FRIENDLY_EVENT_MAP, _FRIENDLY_TO_SUBSTRATE
Named(type) == CASE type = "transfer" -> "Balances.Transfer"
                 [] type = "swap" -> "SubtensorModule.ColdkeySwapped"
                 [] OTHER -> type

\* _decode_event, _args_match, _amount_min_matches, _direction_matches
Passes(filter, e) ==
    /\ e.type = Named(filter.type)
    /\ \A f \in DOMAIN filter.args : e[f] = filter.args[f]
    /\ filter.amountMin # NoValue => e.amount >= filter.amountMin
    /\ filter.direction = "in" => e.to = filter.address
    /\ filter.direction = "out" => e.from = filter.address

-----------------------------------------------------------------------------
(* What was asked for. *)

\* The events an agent asks to be woken by.
WantsEvent(a, e) ==
    /\ e.type = Named(IF Null(a, "type_raw") THEN a["event_type"] ELSE a["type_raw"])
    /\ ~Null(a, "from_addr") => e.from = a["from_addr"]
    /\ ~Null(a, "to_addr") => e.to = a["to_addr"]
    /\ ~Null(a, "amount_min") => e.amount >= a["amount_min"]

Accounts == {"alice", "bob"}
Events == [type : {"Balances.Transfer", "SubtensorModule.ColdkeySwapped"},
           from : Accounts, to : Accounts, amount : 0..2]

WantedWindow(c) ==
    CASE ~Null(c, "window_time") -> [unit |-> "time", size |-> c["window_time"].n]
      [] ~Null(c, "window_blocks") -> [unit |-> "blocks", size |-> c["window_blocks"]]
      [] ~Null(c, "window_epochs") -> [unit |-> "epochs", size |-> c["window_epochs"]]
      [] OTHER -> [unit |-> "ever", size |-> NoValue]

\* The condition of a watch is the one of the call.
SameCondition(a, w) ==
    LET c == Arg(a, "condition", "kind" :> "on-change")
    IN CASE w.primitive = "threshold" -> c.kind = w.operator /\ c.value = w.target
         [] w.primitive = "delta" -> /\ c.kind = w.operator /\ c.pct = w.target
                                     /\ w.window = WantedWindow(c)
         [] w.primitive = "state" -> /\ c.kind = w.operator
                                     /\ w.target = Arg(c, "value", NoValue)
         [] w.primitive = "liveness" -> w.silence = a["silent_for"]
         [] w.primitive = "tx" ->
               /\ w.finality = Arg(a, "finality", "included")
               /\ ~Null(a, "confirmations") => w.confirmations = a["confirmations"]
         [] w.primitive = "event" ->
               \/ Null(a, "event_type") /\ Null(a, "type_raw")
               \/ \A e \in Events : Passes(w, e) <=> WantsEvent(a, e)

\* The option of a command that carries a field.
Field(p) == IF p = "max-bps" THEN "max_bps" ELSE p
SelectorDefaults == "netuid" :> 1 @@ "mechid" :> 0

\* AskedIsWatched: the watch that a tool call starts is the one the tool
\* advertises, on the subnet, mechanism, account or transaction of the call,
\* with its condition, window, limits and endpoint; and an event wakes the
\* agent exactly if it passes every filter the agent gave.  The arguments are
\* rewritten as flags, read again and defaulted by two modules that share no
\* code (mcp/exec.py:127-260, cli/chains/).
AskedIsWatched ==
    stage = "started" /\ ByTool =>
        LET a == asked.args
        IN /\ watch.chain = asked.tool.chain /\ watch.path = asked.tool.watches
           /\ \A p \in DOMAIN watch.params : watch.params[p] = a[p]
           /\ \A p \in DOMAIN watch.reads :
                 watch.reads[p] = IF Null(a, Field(p)) THEN SelectorDefaults[p] ELSE a[Field(p)]
           /\ SameCondition(a, watch.condition)
           /\ watch.name = Arg(a, "name", NoValue)
           /\ watch.maxRuntime = Arg(a, "max_runtime", NoValue)
           /\ watch.maxRu = Arg(a, "max_ru", NoValue)
           /\ watch.rpc = IF Null(a, "rpc_url") THEN "default" ELSE a["rpc_url"]

\* Text that the parser of a command line may take for an option.
OptionLike == {"--help", "--text"}

\* ValidIsStarted: a call that its input model accepts starts a watch; the
\* command line it becomes is not refused by the rules of the command, which
\* are written a second time.  The exceptions: a condition that leaves its kind
\* to the default, a malformed token (any string validates), and a token, label
\* or endpoint that begins as an option does (any string validates, and each
\* is passed as a token of its own): a help flag prints help.
ValidIsStarted ==
    (stage \in {"refused", "helped"} /\ ByTool
       /\ Validates(asked.tool.input, asked.args))
    => \/ "condition" \in DOMAIN asked.args /\ ~KnownKind(asked.args.condition)
       \/ Arg(asked.args, "token", NoValue) = "bad"
       \/ \E f \in {"token", "name", "rpc_url"} : Arg(asked.args, f, NoValue) \in OptionLike

Operators == Thresholds \cup Deltas \cup {"on-change", "changes-to", "changes-from"}

\* TypedIsHeeded: a command line that starts a watch asks for one thing only:
\* no operator that was typed is left out of the condition, and no window of a
\* percentage move or of a price.  account balance takes the first operator it
\* finds, and other commands ignore a window beside a threshold; those lines
\* are excepted.
TypedIsHeeded ==
    stage = "started" /\ ~ByTool =>
        LET o == asked.options
            w == watch.condition
        IN /\ asked.command # <<"account", "balance">> =>
                 \A f \in Given(o, Operators) : w.operator = f /\ w.target \in {o[f], NoValue}
           /\ (w.primitive = "delta" \/ asked.command = <<"subnet", "price">>) =>
                 \A f \in Given(o, Windows) :
                    w.primitive = "delta" /\ w.window.unit # "ever"
           /\ "max-runtime" \in DOMAIN o => watch.maxRuntime = o["max-runtime"]
=============================================================================
