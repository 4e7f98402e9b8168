------------------------------ MODULE McpTools ------------------------------
(***************************************************************************)
(* The tools of the MCP server (mcp/tools.py, cli/inputs/) and the command *)
(* line each call becomes (mcp/exec.py).  The arguments of a call are a    *)
(* function from field names to values, NoValue for null; its condition is *)
(* such a function too.                                                    *)
(***************************************************************************)
EXTENDS CommandLine

-----------------------------------------------------------------------------
(* The input models: fields, conditions and windows. *)

CommonFields == {"rpc_url", "name", "max_runtime", "max_ru"}
WindowFields == {"window_time", "window_blocks", "window_epochs"}

Conditions(kinds, windows) == [kinds |-> kinds, windows |-> windows, bare |-> FALSE]
NoCondition == Conditions({}, {})
ThresholdCondition == Conditions(Thresholds, {})
PriceCondition == Conditions(Thresholds \cup Deltas, WindowFields)
ExternalPriceCondition == Conditions(Thresholds \cup Deltas, {"window_time"})
EvmNumericCondition == Conditions(Thresholds \cup Deltas, {"window_time", "window_blocks"})
BalanceCondition == Conditions(Thresholds \cup Deltas \cup {"on-change"}, WindowFields)
CommissionStateCondition == Conditions({"on-change", "changes-to", "changes-from"}, {})
\* Not a union: the kind has a default and may be left out.
OnChangeCondition == [Conditions({"on-change"}, {}) EXCEPT !.bare = TRUE]

InputModel(required, optional, condition) ==
    [required |-> required \cup IF condition.kinds = {} THEN {} ELSE {"condition"},
     optional |-> optional \cup CommonFields, condition |-> condition,
     maxNetuid |-> 65535, finalities |-> {}]

SubnetInput(condition) == InputModel({"netuid"}, {}, condition)
SubnetDepthForTradeInput == InputModel({"netuid", "size", "max_bps"}, {}, ThresholdCondition)
ValidatorInput(condition) == InputModel({"hotkey"}, {}, condition)
ValidatorWeightsInput ==
    [InputModel({"hotkey", "silent_for"}, {"netuid", "mechid"}, NoCondition)
        EXCEPT !.maxNetuid = 4095]
ValidatorAlphaInput == InputModel({"netuid", "hotkey"}, {}, PriceCondition)
NeuronInput(condition) == InputModel({"netuid", "hotkey"}, {}, condition)
NeuronIncentiveInput ==
    [InputModel({"netuid", "hotkey"}, {"mechid"}, PriceCondition) EXCEPT !.maxNetuid = 4095]
NeuronLastUpdateInput ==
    [InputModel({"netuid", "hotkey", "silent_for"}, {"mechid"}, NoCondition)
        EXCEPT !.maxNetuid = 4095]
AccountBalanceInput == InputModel({"coldkey"}, {}, BalanceCondition)
AccountActivityInput == InputModel({"coldkey", "silent_for"}, {}, NoCondition)
NetworkInput(condition) == InputModel({}, {}, condition)
EventInput == InputModel({}, {"event_type", "type_raw", "from_addr", "to_addr", "amount_min",
                              "direction"}, NoCondition)
TxInput == [InputModel({"tx_hash", "finality"}, {}, NoCondition)
               EXCEPT !.finalities = {"included", "finalized"}]
EvmTokenPriceInput == InputModel({"token"}, {}, ExternalPriceCondition)
EvmTxInput(chain) == [InputModel({"tx_hash"}, {"confirmations", "finality"}, NoCondition)
                         EXCEPT !.finalities = Finalities(chain)]

-----------------------------------------------------------------------------
(* model_validate: what a model accepts. *)

Null(a, f) == f \notin DOMAIN a \/ a[f] = NoValue

\* _DeltaCondition, _ExternalPriceDeltaCondition, _EvmDeltaCondition
MoveFits(c, windows) ==
    /\ "pct" \in DOMAIN c /\ DOMAIN c \subseteq {"kind", "pct"} \cup windows
    /\ Positive(c.pct)
    /\ Cardinality({w \in windows : ~Null(c, w)}) <= 1
    /\ ~Null(c, "window_time") => WallClock(c["window_time"])
    /\ \A w \in {"window_blocks", "window_epochs"} : ~Null(c, w) => c[w] > 0

ConditionFits(takes, c) ==
    IF "kind" \notin DOMAIN c THEN takes.bare /\ c = <<>>
    ELSE /\ c.kind \in takes.kinds
         /\ CASE c.kind \in Thresholds -> DOMAIN c = {"kind", "value"} /\ Finite(c.value)
              [] c.kind \in Deltas -> MoveFits(c, takes.windows)
              [] c.kind = "on-change" -> DOMAIN c = {"kind"}
              [] OTHER -> DOMAIN c = {"kind", "value"} /\ c.value \in 0..1

FieldFits(m, f, v) ==
    CASE f = "netuid" -> v \in 0..m.maxNetuid
      [] f = "mechid" -> v \in 0..15
      [] f \in {"hotkey", "coldkey", "tx_hash"} -> v \notin {"bad", NoValue}
      [] f \in {"from_addr", "to_addr", "type_raw"} -> v # "bad"
      [] f = "event_type" -> v \in FriendlyEvents \cup {NoValue}
      [] f = "direction" -> v \in {"in", "out", NoValue}
      [] f = "silent_for" -> v # NoValue /\ PositiveDuration(v)
      [] f = "max_runtime" -> v # NoValue => WallClock(v)
      [] f \in {"max_ru", "amount_min"} -> v # NoValue => v >= 0
      [] f \in {"size", "max_bps"} -> v # NoValue /\ Positive(v)
      [] f = "finality" -> v \in m.finalities
      [] f = "confirmations" -> v # NoValue => v \in Int /\ v >= 1
      [] f = "condition" -> ConditionFits(m.condition, v)
      [] f = "token" -> v # NoValue
      [] OTHER -> TRUE          \* any name or URL

\* EventInput._validate_event_selection_and_direction
EventFits(a) == /\ Null(a, "event_type") <=> ~Null(a, "type_raw")
                /\ Arg(a, "direction", NoValue) = "in" => ~Null(a, "to_addr")
                /\ Arg(a, "direction", NoValue) = "out" => ~Null(a, "from_addr")
\* _EvmTxInput._validate_finality
ConfirmationsFit(a) ==
    ~Null(a, "confirmations") => Arg(a, "finality", "included") = "included"

Validates(m, a) ==
    /\ m.required \subseteq DOMAIN a /\ DOMAIN a \subseteq m.required \cup m.optional
    /\ \A f \in DOMAIN a : FieldFits(m, f, a[f])
    /\ m = EventInput => EventFits(a)
    /\ ConfirmationsFit(a)

-----------------------------------------------------------------------------
(* The tools.  "watches" is the registry path without its parameters. *)

Tool(chain, command, watches, model) ==
    [chain |-> chain, command |-> command, watches |-> watches, input |-> model]
BtTool(command, watches, model) == Tool("bt", command, watches, model)
\* Most tools are named as the path they watch.
Plain(command, model) == BtTool(command, command, model)

SubnetTools ==
    {BtTool(<<"subnet", x>>, <<"subnet", "pool", x>>, SubnetInput(PriceCondition)) :
        x \in {"price", "tao-depth", "alpha-depth", "alpha-supply", "moving-price", "volume"}}
    \cup {Plain(<<"subnet", x>>, SubnetInput(PriceCondition)) :
             x \in {"emission-share", "burn-rate", "ema-tao-flow"}}
    \cup {BtTool(<<"subnet", "depth-for-trade">>, <<"subnet", "pool", "depth-for-trade">>,
                 SubnetDepthForTradeInput),
          Plain(<<"subnet", "registration-cost">>, SubnetInput(ThresholdCondition)),
          Plain(<<"subnet", "hyperparams">>, SubnetInput(NoCondition)),
          Plain(<<"subnet", "identity">>, SubnetInput(OnChangeCondition))}
ValidatorTools ==
    {Plain(<<"validator", x>>, ValidatorAlphaInput) : x \in {"dividends-alpha", "stake-alpha"}}
    \cup {Plain(<<"validator", "commission">>, ValidatorInput(CommissionStateCondition)),
          Plain(<<"validator", "weights">>, ValidatorWeightsInput),
          Plain(<<"validator", "child-keys">>, ValidatorInput(NoCondition)),
          Plain(<<"validator", "identity">>, ValidatorInput(OnChangeCondition))}
NeuronTools ==
    {Plain(<<"neuron", x>>, NeuronInput(PriceCondition)) : x \in {"dividends", "stake-alpha"}}
    \cup {Plain(<<"neuron", "incentive">>, NeuronIncentiveInput),
          Plain(<<"neuron", "last-update">>, NeuronLastUpdateInput),
          Plain(<<"neuron", "blocks-until-immunity-expires">>,
                NeuronInput(ThresholdCondition))}
AccountTools == {Plain(<<"account", "balance">>, AccountBalanceInput),
                 Plain(<<"account", "activity">>, AccountActivityInput)}
NetworkTools ==
    {Plain(<<"network", "subnet-registration-cost">>, NetworkInput(ThresholdCondition)),
     Plain(<<"network", "tao-price">>, NetworkInput(ExternalPriceCondition)),
     Plain(<<"network", "runtime-version">>, NetworkInput(NoCondition)),
     Plain(<<"network", "subnet-count">>, NetworkInput(PriceCondition)),
     Plain(<<"network", "on-runtime-upgraded">>, NetworkInput(NoCondition))}
EventTool == Plain(<<"event">>, EventInput)
TxTool == Plain(<<"tx">>, TxInput)
EvmTools(chain) ==
    {Tool(chain, <<"network", fee>>, <<"network", fee>>, NetworkInput(EvmNumericCondition)) :
        fee \in Fees(chain)}
    \cup {Tool(chain, <<"token", "price">>, <<"token", "price">>, EvmTokenPriceInput),
          Tool(chain, <<"tx">>, <<"tx">>, EvmTxInput(chain))}
Tools == SubnetTools \cup ValidatorTools \cup NeuronTools \cup AccountTools \cup NetworkTools
         \cup {EventTool, TxTool} \cup UNION {EvmTools(chain) : chain \in EvmChains}

-----------------------------------------------------------------------------
(* _build_argv: the command line of a call. *)

\* The flags of the fields that are not null.
Renamed(a, names) ==
    [flag \in {names[f] : f \in {g \in DOMAIN names : ~Null(a, g)}} |->
        a[CHOOSE f \in DOMAIN names : names[f] = flag]]

\* _window_flags
WindowFlags(c) ==
    Renamed(c, "window_time" :> "window-time" @@ "window_blocks" :> "window-blocks"
               @@ "window_epochs" :> "window-epochs")

\* _condition_to_flags
KnownKind(c) ==
    ~Null(c, "kind") /\ c.kind \in Thresholds \cup Deltas
                                   \cup {"on-change", "changes-to", "changes-from"}
ConditionFlags(c) ==
    CASE c.kind \in Thresholds \cup {"changes-to", "changes-from"} -> c.kind :> c.value
      [] c.kind \in Deltas -> c.kind :> c.pct @@ WindowFlags(c)
      [] c.kind = "on-change" -> "on-change" :> TRUE

\* _command_args
IdFields(command) ==
    CASE command[1] = "subnet" -> {"netuid"}
      [] command[1] = "validator" -> {"hotkey"}
      [] command[1] = "neuron" -> {"netuid", "hotkey"}
      [] command[1] = "account" -> {"coldkey"}
      [] command[1] = "token" -> {"token"}
      [] command[1] = "tx" -> {"tx_hash"}
      [] OTHER -> {}

AlwaysOnChange ==
    {<<"network", "runtime-version">>, <<"subnet", "hyperparams">>, <<"validator", "child-keys">>}

\* Mutant: the direction's address is always the sender's.
MutEventFlags(a) ==
    Renamed(a, "event_type" :> "type" @@ "type_raw" :> "type-raw" @@ "from_addr" :> "from"
               @@ "to_addr" :> "to" @@ "amount_min" :> "amount-min"
               @@ "direction" :> "direction")
    @@ IF Null(a, "direction") \/ Null(a, "from_addr") THEN <<>>
       ELSE "address" :> a["from_addr"]
\* "in" is about the receiver, "out" about the sender.
EventFlags(a) ==
    Renamed(a, "event_type" :> "type" @@ "type_raw" :> "type-raw" @@ "from_addr" :> "from"
               @@ "to_addr" :> "to" @@ "amount_min" :> "amount-min"
               @@ "direction" :> "direction")
    @@ CASE Null(a, "direction") -> <<>>
         [] Arg(a, "direction", NoValue) = "in" -> "address" :> a["to_addr"]
         [] Arg(a, "direction", NoValue) = "out" -> "address" :> a["from_addr"]

CommonFlags(a) == Renamed(a, "rpc_url" :> "rpc-url" @@ "name" :> "name"
                             @@ "max_runtime" :> "max-runtime" @@ "max_ru" :> "max-ru")
\* Mutant: a validator's subnet is left to the default.
MutOwnFlags(t, a) ==
    CASE t.command = <<"event">> -> EventFlags(a)
      [] t.command = <<"tx">> -> Renamed(a, "finality" :> "finality"
                                            @@ "confirmations" :> "confirmations")
      [] t.command = <<"subnet", "depth-for-trade">> ->
            Renamed(a, "size" :> "size" @@ "max_bps" :> "max-bps")
      [] OTHER -> Renamed(a, "mechid" :> "mechid" @@ "silent_for" :> "silent-for")
OwnFlags(t, a) ==
    CASE t.command = <<"event">> -> EventFlags(a)
      [] t.command = <<"tx">> -> Renamed(a, "finality" :> "finality"
                                            @@ "confirmations" :> "confirmations")
      [] t.command = <<"subnet", "depth-for-trade">> ->
            Renamed(a, "size" :> "size" @@ "max_bps" :> "max-bps")
      [] t.command[1] = "validator" ->
            Renamed(a, "netuid" :> "netuid" @@ "mechid" :> "mechid"
                       @@ "silent_for" :> "silent-for")
      [] OTHER -> Renamed(a, "mechid" :> "mechid" @@ "silent_for" :> "silent-for")

\* A condition without a kind raises ValueError after it was validated.
Builds(t, a) == Validates(t.input, a) /\ ("condition" \in DOMAIN a => KnownKind(a.condition))
BuildArgv(t, a) ==
    [chain |-> t.chain, command |-> t.command,
     ids |-> [f \in IdFields(t.command) |-> a[f]],
     options |-> (IF t.command \in AlwaysOnChange THEN "on-change" :> TRUE ELSE <<>>)
                 @@ (IF "condition" \in DOMAIN a THEN ConditionFlags(a.condition) ELSE <<>>)
                 @@ OwnFlags(t, a) @@ CommonFlags(a)]
=============================================================================
