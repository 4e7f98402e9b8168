----------------------------- MODULE CommandLine -----------------------------
(***************************************************************************)
(* The commands of chainwake (cli/chains/): which options each one takes,  *)
(* what it rejects, and the watch it dispatches.                           *)
(*                                                                         *)
(* A command line is a resource, the ids that come first, the sub-command  *)
(* and its options, a function from flags to values.  Numbers are integers *)
(* and Infinite, which is not finite; a duration is its unit ("none" if it *)
(* cannot be parsed) and its magnitude; "bad" is a malformed address, hash *)
(* or name.                                                                *)
(***************************************************************************)
EXTENDS Integers, Sequences, FiniteSets

CONSTANTS
    NoValue,        \* Python's None
    Infinite        \* an integer that stands for inf and nan

-----------------------------------------------------------------------------
(* Functions from flags, fields or commands: one pair, and one function over *)
(* another.  They are those of module TLC, defined here so that the provers  *)
(* can expand them.                                                          *)

key :> value == [k \in {key} |-> value]
over @@ under == [k \in DOMAIN over \cup DOMAIN under |->
                    IF k \in DOMAIN over THEN over[k] ELSE under[k]]

-----------------------------------------------------------------------------
(* The profiles of the EVM chains. *)

EvmChains == {"eth", "base", "bsc"}
Finalities(chain) == {"included", "finalized"} \cup IF chain = "bsc" THEN {} ELSE {"safe"}
Fees(chain) == CASE chain = "eth" -> {"base-fee"}
                 [] chain = "base" -> {"base-fee", "l1-base-fee", "l1-blob-base-fee"}
                 [] chain = "bsc" -> {"gas-price"}

-----------------------------------------------------------------------------
(* Options. *)

Thresholds == {"below", "above"}
Deltas == {"drop-pct", "rise-pct", "move-pct"}
Windows == {"window-time", "window-blocks", "window-epochs"}
Numeric == Thresholds \cup Deltas \cup Windows
Common == {"rpc-url", "name", "max-runtime", "max-ru", "out"}

Given(o, flags) == DOMAIN o \cap flags
Arg(o, flag, default) == IF flag \in DOMAIN o THEN o[flag] ELSE default
Chosen(flags) == CHOOSE f \in flags : TRUE

Finite(n) == n # Infinite
Positive(n) == Finite(n) /\ n > 0
\* validate_duration_flag
PositiveDuration(d) == d.unit # "none" /\ Positive(d.n)
WallClock(d) == d.unit = "time" /\ Positive(d.n)

-----------------------------------------------------------------------------
(* Conditions: what a watch waits for, or Refused (exit 2). *)

Refused == [primitive |-> "refused"]
AnyChange == [primitive |-> "state", operator |-> "on-change", target |-> NoValue]

\* Mutant: the first threshold that is given wins.
MutFirstThreshold(o) ==
    LET given == Given(o, Thresholds)
        f == IF "below" \in given THEN "below" ELSE "above"
    IN IF given # {} /\ Finite(o[f])
       THEN [primitive |-> "threshold", operator |-> f, target |-> o[f]]
       ELSE Refused
\* resolve_threshold
ResolveThreshold(o) ==
    LET given == Given(o, Thresholds)
        f == Chosen(given)
    IN IF Cardinality(given) = 1 /\ Finite(o[f])
       THEN [primitive |-> "threshold", operator |-> f, target |-> o[f]]
       ELSE Refused

\* resolve_window
WindowFits(o) ==
    /\ Cardinality(Given(o, Windows)) <= 1
    /\ "window-time" \in DOMAIN o => WallClock(o["window-time"])
    /\ \A f \in {"window-blocks", "window-epochs"} : f \in DOMAIN o => o[f] > 0
ResolveWindow(o) ==
    LET given == Given(o, Windows)
        f == Chosen(given)
    IN IF given = {} THEN [unit |-> "ever", size |-> NoValue]
       ELSE [unit |-> CASE f = "window-time" -> "time" [] f = "window-blocks" -> "blocks"
                        [] f = "window-epochs" -> "epochs",
             size |-> IF f = "window-time" THEN o[f].n ELSE o[f]]

\* resolve_delta, validate_pct
ResolveDelta(o) ==
    LET given == Given(o, Deltas)
        f == Chosen(given)
    IN IF Cardinality(given) = 1 /\ WindowFits(o) /\ Positive(o[f])
       THEN [primitive |-> "delta", operator |-> f, target |-> o[f],
             window |-> ResolveWindow(o)]
       ELSE Refused

\* dispatch_numeric: a window beside a threshold is not looked at.
ResolveNumeric(o) ==
    CASE Given(o, Deltas) # {} /\ Given(o, Thresholds) # {} -> Refused
      [] Given(o, Deltas) # {} /\ Given(o, Thresholds) = {} -> ResolveDelta(o)
      [] OTHER -> ResolveThreshold(o)

\* subnet_price
ResolvePrice(o) ==
    IF Given(o, Thresholds) # {} /\ Given(o, Windows) # {} THEN Refused
    ELSE ResolveNumeric(o)

\* account_balance: the first kind of condition that is given.
ResolveBalance(o) ==
    CASE Given(o, Deltas) # {} -> ResolveDelta(o)
      [] Given(o, Deltas) = {} /\ "on-change" \in DOMAIN o -> AnyChange
      [] OTHER -> ResolveThreshold(o)

\* _resolve_commission_state, _state_target
ResolveCommission(o) ==
    LET given == Given(o, {"on-change", "changes-to", "changes-from"})
        f == Chosen(given)
    IN IF Cardinality(given) # 1 THEN Refused
       ELSE IF f = "on-change" THEN AnyChange
       ELSE IF o[f] \in 0..1
            THEN [primitive |-> "state", operator |-> f, target |-> o[f]]
            ELSE Refused

\* _resolve_on_change_only
ResolveOnChange(o) == IF "on-change" \in DOMAIN o THEN AnyChange ELSE Refused

ResolveSilence(o) ==
    IF "silent-for" \in DOMAIN o /\ PositiveDuration(o["silent-for"])
    THEN [primitive |-> "liveness", silence |-> o["silent-for"]]
    ELSE Refused

\* The size and the slippage are looked at before the threshold.
ResolveDepth(o) ==
    IF \A f \in {"size", "max-bps"} : f \in DOMAIN o /\ Positive(o[f])
    THEN ResolveThreshold(o) ELSE Refused

FriendlyEvents == {"transfer", "swap"}     \* two of the eleven
RawEvents == {"Balances.Transfer", "System.CodeUpdated"}

\* event_default, _resolve_event_args_match
EventFilter(type, args, amount, direction, address) ==
    [primitive |-> "event", type |-> type, args |-> args, amountMin |-> amount,
     direction |-> direction, address |-> address]
ResolveEvent(o) ==
    LET types == Given(o, {"type", "type-raw"})
    IN IF /\ Cardinality(types) = 1
          /\ \A f \in Given(o, {"from", "to", "address"}) : o[f] # "bad"
          /\ "type-raw" \in types => o["type-raw"] # "bad"
          /\ "type" \in types => o["type"] \in FriendlyEvents
          /\ Arg(o, "amount-min", 0) >= 0
          /\ "direction" \in DOMAIN o => "address" \in DOMAIN o
       THEN EventFilter(o[Chosen(types)], [f \in Given(o, {"from", "to"}) |-> o[f]],
                        Arg(o, "amount-min", NoValue), Arg(o, "direction", NoValue),
                        Arg(o, "address", NoValue))
       ELSE Refused

TxWait(finality, confirmations) ==
    [primitive |-> "tx", finality |-> finality, confirmations |-> confirmations]
\* tx_command of bt
ResolveBtTx(o) ==
    IF Arg(o, "finality", NoValue) \in {"included", "finalized"} /\ o["tx_hash"] # "bad"
    THEN TxWait(o["finality"], NoValue) ELSE Refused
\* tx_command of an EVM chain
ResolveEvmTx(chain, o) ==
    LET finality == Arg(o, "finality", "included")
        waits == finality = "included"
    IN IF /\ finality \in Finalities(chain)
          /\ "confirmations" \in DOMAIN o => o["confirmations"] > 0 /\ waits
          /\ o["tx_hash"] # "bad"
       THEN TxWait(finality, IF waits THEN Arg(o, "confirmations", 1) ELSE NoValue)
       ELSE Refused

Resolved(chain, shape, o) ==
    CASE shape = "threshold" -> ResolveThreshold(o)
      [] shape = "numeric" -> ResolveNumeric(o)
      [] shape = "price" -> ResolvePrice(o)
      [] shape = "balance" -> ResolveBalance(o)
      [] shape = "commission" -> ResolveCommission(o)
      [] shape = "change" -> ResolveOnChange(o)
      [] shape = "silence" -> ResolveSilence(o)
      [] shape = "depth" -> ResolveDepth(o)
      [] shape = "event" -> ResolveEvent(o)
      [] shape = "upgrade" -> EventFilter("System.CodeUpdated", <<>>, NoValue, NoValue, NoValue)
      [] shape = "bt_tx" -> ResolveBtTx(o)
      [] shape = "evm_tx" -> ResolveEvmTx(chain, o)

-----------------------------------------------------------------------------
(* Commands: the registry path, the ids that select the watched thing, the *)
(* options, and the options that the provider reads.                       *)

Command(path, params, takes, shape) ==
    [path |-> path, params |-> params, takes |-> takes \cup Common, shape |-> shape,
     defaults |-> <<>>, reads |-> {}, maxNetuid |-> 65535]

OnSubnet(path, takes, shape) == Command(path, {"netuid"}, takes, shape)
SubnetPrice == OnSubnet(<<"subnet", "pool", "price">>, Numeric, "price")
SubnetRegistrationCost == OnSubnet(<<"subnet", "registration-cost">>, Thresholds, "threshold")
SubnetNumericNames == {"tao-depth", "alpha-depth", "alpha-supply", "moving-price", "volume",
                       "emission-share", "burn-rate", "burnrate", "ema-tao-flow"}
SubnetNumericPath(name) ==
    CASE name \in {"tao-depth", "alpha-depth", "alpha-supply", "moving-price", "volume"} ->
            <<"subnet", "pool", name>>
      [] name = "burnrate" -> <<"subnet", "burn-rate">>
      [] OTHER -> <<"subnet", name>>
SubnetNumeric(name) == OnSubnet(SubnetNumericPath(name), Numeric, "numeric")
SubnetState(name) == OnSubnet(<<"subnet", name>>, {"on-change"}, "change")
SubnetDepthForTrade ==
    [OnSubnet(<<"subnet", "pool", "depth-for-trade">>,
              Thresholds \cup {"size", "max-bps"}, "depth")
        EXCEPT !.reads = {"size", "max-bps"}]

OnValidator(name, takes, shape) == Command(<<"validator", name>>, {"hotkey"}, takes, shape)
ValidatorWeights ==
    [OnValidator("weights", {"netuid", "mechid", "silent-for"}, "silence")
        EXCEPT !.defaults = "netuid" :> 1 @@ "mechid" :> 0,
               !.reads = {"netuid", "mechid"}, !.maxNetuid = 4095]
ValidatorCommission ==
    OnValidator("commission", {"on-change", "changes-to", "changes-from"}, "commission")
ValidatorAlpha(name) ==
    [OnValidator(name, Numeric \cup {"netuid"}, "numeric")
        EXCEPT !.params = {"netuid", "hotkey"}]
ValidatorDividends == ValidatorAlpha("dividends-alpha")
ValidatorStake == ValidatorAlpha("stake-alpha")
ValidatorChildKeys == OnValidator("child-keys", {"on-change"}, "change")
ValidatorIdentity == OnValidator("identity", {"on-change"}, "change")

OnNeuron(name, takes, shape) ==
    Command(<<"neuron", name>>, {"netuid", "hotkey"}, takes, shape)
OnMechanism(name, takes, shape) ==
    [OnNeuron(name, takes \cup {"mechid"}, shape)
        EXCEPT !.defaults = "mechid" :> 0, !.reads = {"mechid"}, !.maxNetuid = 4095]
NeuronLastUpdate == OnMechanism("last-update", {"silent-for"}, "silence")
NeuronIncentive == OnMechanism("incentive", Numeric, "numeric")
NeuronNumeric(name) == OnNeuron(name, Numeric, "numeric")
NeuronImmunity == OnNeuron("blocks-until-immunity-expires", Thresholds, "threshold")

OnAccount(name, takes, shape) == Command(<<"account", name>>, {"coldkey"}, takes, shape)
AccountBalance == OnAccount("balance", Numeric \cup {"on-change"}, "balance")
AccountActivity == OnAccount("activity", {"silent-for"}, "silence")

OnNetwork(name, takes, shape) == Command(<<"network", name>>, {}, takes, shape)
TaoPrice == OnNetwork("tao-price", Thresholds \cup Deltas \cup {"window-time"}, "numeric")
NetworkRegistrationCost == OnNetwork("subnet-registration-cost", Thresholds, "threshold")
RuntimeVersion == OnNetwork("runtime-version", {"on-change"}, "change")
SubnetCount == OnNetwork("subnet-count", Numeric, "numeric")
RuntimeUpgraded == OnNetwork("on-runtime-upgraded", {}, "upgrade")

EventDefault == Command(<<"event">>, {}, {"type", "type-raw", "from", "to", "amount-min",
                                          "direction", "address"}, "event")
BtTransaction == Command(<<"tx">>, {"tx_hash"}, {"finality"}, "bt_tx")

\* One tree of commands per EVM chain.
EvmFee(name) == OnNetwork(name, Numeric \ {"window-epochs"}, "numeric")
TokenPrice == Command(<<"token", "price">>, {"token"},
                      Thresholds \cup Deltas \cup {"window-time"}, "numeric")
EvmTransaction == Command(<<"tx">>, {"tx_hash"}, {"finality", "confirmations"}, "evm_tx")

SubnetCommand(name) ==
    CASE name = "price" -> SubnetPrice
      [] name = "registration-cost" -> SubnetRegistrationCost
      [] name = "depth-for-trade" -> SubnetDepthForTrade
      [] name \in {"hyperparams", "identity"} -> SubnetState(name)
      [] name \in SubnetNumericNames -> SubnetNumeric(name)
ValidatorCommand(name) ==
    CASE name = "weights" -> ValidatorWeights
      [] name = "commission" -> ValidatorCommission
      [] name = "dividends-alpha" -> ValidatorDividends
      [] name = "stake-alpha" -> ValidatorStake
      [] name = "child-keys" -> ValidatorChildKeys
      [] name = "identity" -> ValidatorIdentity
NeuronCommand(name) ==
    CASE name = "last-update" -> NeuronLastUpdate
      [] name = "incentive" -> NeuronIncentive
      [] name \in {"dividends", "stake-alpha"} -> NeuronNumeric(name)
      [] name = "blocks-until-immunity-expires" -> NeuronImmunity
AccountCommand(name) == IF name = "balance" THEN AccountBalance ELSE AccountActivity
NetworkCommand(name) ==
    CASE name = "tao-price" -> TaoPrice
      [] name = "subnet-registration-cost" -> NetworkRegistrationCost
      [] name = "runtime-version" -> RuntimeVersion
      [] name = "subnet-count" -> SubnetCount
      [] name = "on-runtime-upgraded" -> RuntimeUpgraded

BtNames ==
    {"subnet"} \X ({"price", "registration-cost", "depth-for-trade", "hyperparams", "identity"}
                    \cup SubnetNumericNames)
    \cup {"validator"} \X {"weights", "commission", "dividends-alpha", "stake-alpha",
                           "child-keys", "identity"}
    \cup {"neuron"} \X {"last-update", "incentive", "dividends", "stake-alpha",
                        "blocks-until-immunity-expires"}
    \cup {"account"} \X {"balance", "activity"}
    \cup {"network"} \X {"tao-price", "subnet-registration-cost", "runtime-version",
                         "subnet-count", "on-runtime-upgraded"}
    \cup {<<"event">>, <<"tx">>}
BtCommand(c) ==
    CASE c[1] = "subnet" -> SubnetCommand(c[2])
      [] c[1] = "validator" -> ValidatorCommand(c[2])
      [] c[1] = "neuron" -> NeuronCommand(c[2])
      [] c[1] = "account" -> AccountCommand(c[2])
      [] c[1] = "network" -> NetworkCommand(c[2])
      [] c[1] = "event" -> EventDefault
      [] c[1] = "tx" -> BtTransaction
EvmNames(chain) == {"network"} \X Fees(chain) \cup {<<"token", "price">>, <<"tx">>}
EvmCommand(c) == CASE c[1] = "network" -> EvmFee(c[2])
                   [] c[1] = "token" -> TokenPrice
                   [] c[1] = "tx" -> EvmTransaction
Commands(chain) == IF chain = "bt" THEN [c \in BtNames |-> BtCommand(c)]
                                   ELSE [c \in EvmNames(chain) |-> EvmCommand(c)]

-----------------------------------------------------------------------------
(* A command line: [chain, command, ids, options], and what becomes of it. *)

IdFirst == {"subnet", "validator", "neuron", "account", "token"}

\* The tokens of a line that may be any text: no other value that an input model
\* accepts begins with a hyphen and is not a number.
FreeText(line) == {line.options[f] : f \in DOMAIN line.options \cap {"name", "rpc-url"}}
                  \cup {line.ids[f] : f \in DOMAIN line.ids \cap {"token"}}
\* _install_id_first_meta, _build_token_app: a bare command prints its help, as
\* does a help flag anywhere behind it, an option's value included.  Cyclopts
\* does so for the other commands, and for a flag in the place of an id.
PrintsHelp(line) ==
    \/ line.command[1] \in IdFirst /\ DOMAIN line.options = {}
    \/ "--help" \in FreeText(line)
\* Any other text that looks like an option.  Its commands do not set
\* allow_leading_hyphen, and whether Cyclopts takes it for a value is left open.
ReadsAsOption(line) == "--text" \in FreeText(line)

\* The ids and the options in one function.
Values(line) == line.ids @@ line.options @@ Commands(line.chain)[line.command].defaults

\* The domains that the callback and the commands check themselves.
InDomain(c, v) ==
    /\ "netuid" \in DOMAIN v => v["netuid"] \in 0..c.maxNetuid
    /\ "mechid" \in DOMAIN v => v["mechid"] \in 0..15
    /\ \A f \in Given(v, {"hotkey", "coldkey", "token"}) : v[f] # "bad"
\* parse_max_runtime: seconds, or a wall-clock duration.
LimitFits(v) == "max-runtime" \in DOMAIN v => WallClock(v["max-runtime"])

\* WatcherSpec: dispatch_threshold, dispatch_delta, dispatch_state,
\* dispatch_liveness, dispatch_event, dispatch_tx.
Dispatched(line, c, v) ==
    [chain |-> line.chain, path |-> c.path,
     params |-> [p \in c.params |-> v[p]],
     reads |-> [p \in c.reads |-> v[p]],
     condition |-> Resolved(line.chain, c.shape, v),
     name |-> Arg(v, "name", NoValue), rpc |-> Arg(v, "rpc-url", "default"),
     maxRuntime |-> Arg(v, "max-runtime", NoValue), maxRu |-> Arg(v, "max-ru", NoValue)]

\* Cyclopts rejects what a command does not take, and what it lacks.
Takes(c, line) == /\ DOMAIN line.options \subseteq c.takes
                  /\ c.params \subseteq DOMAIN Values(line)
Accepts(c, line) ==
    LET v == Values(line)
    IN /\ Takes(c, line) /\ InDomain(c, v) /\ LimitFits(v)
       /\ Resolved(line.chain, c.shape, v) # Refused
=============================================================================
