------------------------ MODULE WatchRequestsProofs ------------------------
(***************************************************************************)
(* What a tool call and a typed line turn into, whatever the arguments:    *)
(* for every tool and every value of every field, and every command with   *)
(* any options.                                                            *)
(***************************************************************************)
EXTENDS WatchRequests, FiniteSetTheorems, TLAPS

-----------------------------------------------------------------------------
(* Functions laid over one another. *)

LEMMA OverIs ==
    ASSUME NEW f, NEW g
    PROVE  /\ DOMAIN (f @@ g) = DOMAIN f \cup DOMAIN g
           /\ \A x \in DOMAIN f : (f @@ g)[x] = f[x]
           /\ \A x \in DOMAIN g \ DOMAIN f : (f @@ g)[x] = g[x]
  BY DEF @@

LEMMA PairIs ==
    ASSUME NEW x, NEW y
    PROVE  DOMAIN (x :> y) = {x} /\ (x :> y)[x] = y
  BY DEF :>

LEMMA NothingGiven == DOMAIN <<>> = {}
  OBVIOUS

\* _build_argv: the flags of the fields that are not null, with their values.
LEMMA RenamedIs ==
    ASSUME NEW a, NEW names, \A f, g \in DOMAIN names : names[f] = names[g] => f = g
    PROVE  /\ \A flag : flag \in DOMAIN Renamed(a, names) <=>
                            \E f \in DOMAIN names : names[f] = flag /\ ~Null(a, f)
           /\ \A f \in DOMAIN names : ~Null(a, f) => Renamed(a, names)[names[f]] = a[f]
  <1>1. \A flag : flag \in DOMAIN Renamed(a, names) <=>
                      \E f \in DOMAIN names : names[f] = flag /\ ~Null(a, f)
    BY DEF Renamed
  <1>2. ASSUME NEW f \in DOMAIN names, ~Null(a, f)
        PROVE  Renamed(a, names)[names[f]] = a[f]
    <2>1. (CHOOSE g \in DOMAIN names : names[g] = names[f]) = f
      OBVIOUS
    <2>2. names[f] \in {names[g] : g \in {h \in DOMAIN names : ~Null(a, h)}}
      BY <1>2
    <2>3. Renamed(a, names)[names[f]]
            = a[CHOOSE g \in DOMAIN names : names[g] = names[f]]
      BY <2>2 DEF Renamed
    <2>4. QED
      BY <2>1, <2>3
  <1>3. QED
    BY <1>1, <1>2

\* One flag of a function from fields to flags.
Carries(a, flags, f, flag) == /\ flag \in DOMAIN flags <=> ~Null(a, f)
                              /\ ~Null(a, f) => flags[flag] = a[f]

LEMMA CommonFlagsAre ==
    ASSUME NEW a
    PROVE  /\ DOMAIN CommonFlags(a) \subseteq {"rpc-url", "name", "max-runtime", "max-ru"}
           /\ Carries(a, CommonFlags(a), "rpc_url", "rpc-url")
           /\ Carries(a, CommonFlags(a), "name", "name")
           /\ Carries(a, CommonFlags(a), "max_runtime", "max-runtime")
           /\ Carries(a, CommonFlags(a), "max_ru", "max-ru")
  <1> DEFINE names == "rpc_url" :> "rpc-url" @@ "name" :> "name"
                         @@ "max_runtime" :> "max-runtime" @@ "max_ru" :> "max-ru"
  <1>1. /\ DOMAIN names = {"rpc_url", "name", "max_runtime", "max_ru"}
        /\ names["rpc_url"] = "rpc-url" /\ names["name"] = "name"
        /\ names["max_runtime"] = "max-runtime" /\ names["max_ru"] = "max-ru"
    BY DEF @@, :>
  <1>2. CommonFlags(a) = Renamed(a, names)
    BY DEF CommonFlags
  <1> HIDE DEF names
  <1>3. \A f, g \in DOMAIN names : names[f] = names[g] => f = g
    BY <1>1
  <1>4. QED
    BY <1>1, <1>2, <1>3, RenamedIs DEF Carries

\* The filters of an event, without the address of the direction.
Filters(a) ==
    Renamed(a, "event_type" :> "type" @@ "type_raw" :> "type-raw" @@ "from_addr" :> "from"
               @@ "to_addr" :> "to" @@ "amount_min" :> "amount-min"
               @@ "direction" :> "direction")
LEMMA FiltersAre ==
    ASSUME NEW a
    PROVE  /\ DOMAIN Filters(a) \subseteq {"type", "type-raw", "from", "to", "amount-min", "direction"}
           /\ Carries(a, Filters(a), "event_type", "type")
           /\ Carries(a, Filters(a), "type_raw", "type-raw")
           /\ Carries(a, Filters(a), "from_addr", "from")
           /\ Carries(a, Filters(a), "to_addr", "to")
           /\ Carries(a, Filters(a), "amount_min", "amount-min")
           /\ Carries(a, Filters(a), "direction", "direction")
  <1> DEFINE names == "event_type" :> "type" @@ "type_raw" :> "type-raw"
                      @@ "from_addr" :> "from" @@ "to_addr" :> "to"
                      @@ "amount_min" :> "amount-min"
                      @@ "direction" :> "direction"
  <1>1. /\ DOMAIN names = {"event_type", "type_raw", "from_addr", "to_addr", "amount_min", "direction"}
        /\ names["event_type"] = "type"
        /\ names["type_raw"] = "type-raw"
        /\ names["from_addr"] = "from"
        /\ names["to_addr"] = "to"
        /\ names["amount_min"] = "amount-min"
        /\ names["direction"] = "direction"
    BY DEF @@, :>
  <1>2. Filters(a) = Renamed(a, names)
    BY DEF Filters
  <1> HIDE DEF names
  <1>3. \A f, g \in DOMAIN names : names[f] = names[g] => f = g
    BY <1>1
  <1>4. QED
    BY <1>1, <1>2, <1>3, RenamedIs DEF Carries

TxFlags(a) == Renamed(a, "finality" :> "finality" @@ "confirmations" :> "confirmations")
LEMMA TxFlagsAre ==
    ASSUME NEW a
    PROVE  /\ DOMAIN TxFlags(a) \subseteq {"finality", "confirmations"}
           /\ Carries(a, TxFlags(a), "finality", "finality")
           /\ Carries(a, TxFlags(a), "confirmations", "confirmations")
  <1> DEFINE names == "finality" :> "finality"
                      @@ "confirmations" :> "confirmations"
  <1>1. /\ DOMAIN names = {"finality", "confirmations"}
        /\ names["finality"] = "finality"
        /\ names["confirmations"] = "confirmations"
    BY DEF @@, :>
  <1>2. TxFlags(a) = Renamed(a, names)
    BY DEF TxFlags
  <1> HIDE DEF names
  <1>3. \A f, g \in DOMAIN names : names[f] = names[g] => f = g
    BY <1>1
  <1>4. QED
    BY <1>1, <1>2, <1>3, RenamedIs DEF Carries

DepthFlags(a) == Renamed(a, "size" :> "size" @@ "max_bps" :> "max-bps")
LEMMA DepthFlagsAre ==
    ASSUME NEW a
    PROVE  /\ DOMAIN DepthFlags(a) \subseteq {"size", "max-bps"}
           /\ Carries(a, DepthFlags(a), "size", "size")
           /\ Carries(a, DepthFlags(a), "max_bps", "max-bps")
  <1> DEFINE names == "size" :> "size" @@ "max_bps" :> "max-bps"
  <1>1. /\ DOMAIN names = {"size", "max_bps"}
        /\ names["size"] = "size"
        /\ names["max_bps"] = "max-bps"
    BY DEF @@, :>
  <1>2. DepthFlags(a) = Renamed(a, names)
    BY DEF DepthFlags
  <1> HIDE DEF names
  <1>3. \A f, g \in DOMAIN names : names[f] = names[g] => f = g
    BY <1>1
  <1>4. QED
    BY <1>1, <1>2, <1>3, RenamedIs DEF Carries

ValidatorFlags(a) == Renamed(a, "netuid" :> "netuid" @@ "mechid" :> "mechid"
                                @@ "silent_for" :> "silent-for")
LEMMA ValidatorFlagsAre ==
    ASSUME NEW a
    PROVE  /\ DOMAIN ValidatorFlags(a) \subseteq {"netuid", "mechid", "silent-for"}
           /\ Carries(a, ValidatorFlags(a), "netuid", "netuid")
           /\ Carries(a, ValidatorFlags(a), "mechid", "mechid")
           /\ Carries(a, ValidatorFlags(a), "silent_for", "silent-for")
  <1> DEFINE names == "netuid" :> "netuid" @@ "mechid" :> "mechid"
                      @@ "silent_for" :> "silent-for"
  <1>1. /\ DOMAIN names = {"netuid", "mechid", "silent_for"}
        /\ names["netuid"] = "netuid"
        /\ names["mechid"] = "mechid"
        /\ names["silent_for"] = "silent-for"
    BY DEF @@, :>
  <1>2. ValidatorFlags(a) = Renamed(a, names)
    BY DEF ValidatorFlags
  <1> HIDE DEF names
  <1>3. \A f, g \in DOMAIN names : names[f] = names[g] => f = g
    BY <1>1
  <1>4. QED
    BY <1>1, <1>2, <1>3, RenamedIs DEF Carries

OtherFlags(a) == Renamed(a, "mechid" :> "mechid" @@ "silent_for" :> "silent-for")
LEMMA OtherFlagsAre ==
    ASSUME NEW a
    PROVE  /\ DOMAIN OtherFlags(a) \subseteq {"mechid", "silent-for"}
           /\ Carries(a, OtherFlags(a), "mechid", "mechid")
           /\ Carries(a, OtherFlags(a), "silent_for", "silent-for")
  <1> DEFINE names == "mechid" :> "mechid"
                      @@ "silent_for" :> "silent-for"
  <1>1. /\ DOMAIN names = {"mechid", "silent_for"}
        /\ names["mechid"] = "mechid"
        /\ names["silent_for"] = "silent-for"
    BY DEF @@, :>
  <1>2. OtherFlags(a) = Renamed(a, names)
    BY DEF OtherFlags
  <1> HIDE DEF names
  <1>3. \A f, g \in DOMAIN names : names[f] = names[g] => f = g
    BY <1>1
  <1>4. QED
    BY <1>1, <1>2, <1>3, RenamedIs DEF Carries

LEMMA WindowFlagsAre ==
    ASSUME NEW a
    PROVE  /\ DOMAIN WindowFlags(a) \subseteq {"window-time", "window-blocks", "window-epochs"}
           /\ Carries(a, WindowFlags(a), "window_time", "window-time")
           /\ Carries(a, WindowFlags(a), "window_blocks", "window-blocks")
           /\ Carries(a, WindowFlags(a), "window_epochs", "window-epochs")
  <1> DEFINE names == "window_time" :> "window-time"
                      @@ "window_blocks" :> "window-blocks"
                      @@ "window_epochs" :> "window-epochs"
  <1>1. /\ DOMAIN names = {"window_time", "window_blocks", "window_epochs"}
        /\ names["window_time"] = "window-time"
        /\ names["window_blocks"] = "window-blocks"
        /\ names["window_epochs"] = "window-epochs"
    BY DEF @@, :>
  <1>2. WindowFlags(a) = Renamed(a, names)
    BY DEF WindowFlags
  <1> HIDE DEF names
  <1>3. \A f, g \in DOMAIN names : names[f] = names[g] => f = g
    BY <1>1
  <1>4. QED
    BY <1>1, <1>2, <1>3, RenamedIs DEF Carries

-----------------------------------------------------------------------------
(***************************************************************************)
(* Each tool has its command: the fields that its input model knows are    *)
(* what the command takes, and the conditions it accepts are those that the*)
(* command resolves.                                                       *)
(***************************************************************************)
CommandOf(t) == Commands(t.chain)[t.command]
FieldsOf(m) == m.required \cup m.optional
DepthForTrade == <<"subnet", "depth-for-trade">>

\* The ids come first; a validator's subnet is an option.
IdsSuit(c, t) ==
    /\ c.params \subseteq IdFields(t.command)
                          \cup (IF t.command[1] = "validator" THEN {"netuid"} ELSE {})
    /\ c.params \cup IdFields(t.command) \subseteq t.input.required
    /\ t.input.maxNetuid \in Nat /\ c.maxNetuid \in Nat /\ 1 <= c.maxNetuid
    /\ t.input.maxNetuid <= c.maxNetuid

\* What the provider reads beside the ids.
ReadsSuit(c, t) ==
    /\ \/ /\ t.command = DepthForTrade /\ c.reads = {"size", "max-bps"}
          /\ {"size", "max_bps"} \subseteq t.input.required
       \/ /\ c.reads \subseteq {"netuid", "mechid"}
          /\ c.reads # {} => t.command \notin {<<"event">>, <<"tx">>, DepthForTrade}
          /\ "netuid" \in c.reads => t.command[1] = "validator"
    /\ DOMAIN c.defaults = c.reads \cap {"netuid", "mechid"}
    /\ \A p \in DOMAIN c.defaults : c.defaults[p] = SelectorDefaults[p]

OptionsSuit(c, t) ==
    LET fields == FieldsOf(t.input)
    IN /\ Common \subseteq c.takes
       /\ t.input.condition.kinds \subseteq c.takes
       /\ t.input.condition.windows \subseteq WindowFields
       /\ "window_time" \in t.input.condition.windows => "window-time" \in c.takes
       /\ "window_blocks" \in t.input.condition.windows => "window-blocks" \in c.takes
       /\ "window_epochs" \in t.input.condition.windows => "window-epochs" \in c.takes
       /\ "mechid" \in fields => "mechid" \in c.takes
       /\ "silent_for" \in fields => "silent-for" \in c.takes
       /\ "confirmations" \in fields => "confirmations" \in c.takes
       /\ "netuid" \in fields /\ t.command[1] = "validator" => "netuid" \in c.takes
       /\ t.command \in AlwaysOnChange =>
             "on-change" \in c.takes /\ "condition" \notin fields /\ c.shape = "change"
       /\ t.command = <<"event">> => {"type", "type-raw", "from", "to", "amount-min",
                                      "direction", "address"} \subseteq c.takes
       /\ t.command = <<"tx">> => "finality" \in c.takes
       /\ t.command = DepthForTrade => {"size", "max-bps"} \subseteq c.takes

\* The conditions of a tool are those its command resolves.
ShapeSuits(c, t) ==
    LET m == t.input
        asksFor(kinds) == "condition" \in m.required /\ m.condition.kinds = kinds
    IN CASE c.shape = "threshold" -> asksFor(Thresholds)
         [] c.shape \in {"numeric", "price"} -> asksFor(Thresholds \cup Deltas)
         [] c.shape = "balance" -> asksFor(Thresholds \cup Deltas \cup {"on-change"})
         [] c.shape = "commission" -> asksFor({"on-change", "changes-to", "changes-from"})
         [] c.shape = "change" -> t.command \in AlwaysOnChange \/ asksFor({"on-change"})
         [] c.shape = "silence" -> "silent_for" \in m.required
         [] c.shape = "depth" -> /\ asksFor(Thresholds) /\ t.command = DepthForTrade
                                 /\ {"size", "max_bps"} \subseteq m.required
         [] c.shape = "event" -> t.command = <<"event">> /\ m = EventInput
         [] c.shape = "upgrade" -> {"event_type", "type_raw"} \cap FieldsOf(m) = {}
         [] c.shape = "bt_tx" -> /\ t.command = <<"tx">> /\ "finality" \in m.required
                                 /\ m.finalities = {"included", "finalized"}
                                 /\ "confirmations" \notin FieldsOf(m)
         [] c.shape = "evm_tx" -> t.command = <<"tx">> /\ m.finalities = Finalities(t.chain)
         [] OTHER -> FALSE
PlaceSuits(c, t) ==
    /\ t.command[1] \in IdFirst => c.shape \notin {"event", "upgrade", "bt_tx", "evm_tx"}
    /\ t.command = <<"event">> => c.shape = "event"
    /\ t.command = <<"tx">> => c.shape \in {"bt_tx", "evm_tx"} /\ "tx_hash" \in t.input.required
    /\ t.command = DepthForTrade => c.shape = "depth"

Suits(c, t) == /\ c.path = t.watches
               /\ IdsSuit(c, t) /\ ReadsSuit(c, t) /\ OptionsSuit(c, t)
               /\ ShapeSuits(c, t) /\ PlaceSuits(c, t)


\* Where a command is looked up.
LEMMA BtCommandOf ==
    ASSUME NEW t, t.chain = "bt", t.command \in BtNames
    PROVE  CommandOf(t) = BtCommand(t.command)
  BY DEF CommandOf, Commands

LEMMA EvmCommandOf ==
    ASSUME NEW t, t.chain \in EvmChains, t.command \in EvmNames(t.chain)
    PROVE  CommandOf(t) = EvmCommand(t.command)
  BY DEF CommandOf, Commands, EvmChains

LEMMA ConditionsAre ==
    /\ NoCondition.kinds = {} /\ NoCondition.windows = {}
    /\ ThresholdCondition.kinds = Thresholds /\ ThresholdCondition.windows = {}
    /\ PriceCondition.kinds = Thresholds \cup Deltas /\ PriceCondition.windows = WindowFields
    /\ ExternalPriceCondition.kinds = Thresholds \cup Deltas
    /\ ExternalPriceCondition.windows = {"window_time"}
    /\ EvmNumericCondition.kinds = Thresholds \cup Deltas
    /\ EvmNumericCondition.windows = {"window_time", "window_blocks"}
    /\ BalanceCondition.kinds = Thresholds \cup Deltas \cup {"on-change"}
    /\ BalanceCondition.windows = WindowFields
    /\ CommissionStateCondition.kinds = {"on-change", "changes-to", "changes-from"}
    /\ CommissionStateCondition.windows = {}
    /\ OnChangeCondition.kinds = {"on-change"} /\ OnChangeCondition.windows = {}
  BY DEF NoCondition, ThresholdCondition, PriceCondition, ExternalPriceCondition,
         EvmNumericCondition, BalanceCondition, CommissionStateCondition, OnChangeCondition,
         Conditions

\* NoCondition, and the others.
LEMMA SomeKinds ==
    /\ NoCondition.kinds = {}
    /\ ThresholdCondition.kinds # {} /\ PriceCondition.kinds # {}
    /\ ExternalPriceCondition.kinds # {} /\ EvmNumericCondition.kinds # {}
    /\ BalanceCondition.kinds # {} /\ CommissionStateCondition.kinds # {}
    /\ OnChangeCondition.kinds # {}
  <1>1. "below" \in Thresholds
    BY DEF Thresholds
  <1>2. QED
    BY <1>1, ConditionsAre

LEMMA MechanismDefaults ==
    /\ ValidatorWeights.defaults = "netuid" :> 1 @@ "mechid" :> 0
    /\ NeuronIncentive.defaults = "mechid" :> 0
    /\ NeuronLastUpdate.defaults = "mechid" :> 0
  BY DEF ValidatorWeights, OnValidator, NeuronIncentive, NeuronLastUpdate, OnMechanism, OnNeuron,
         Command

\* The reserves, supply and prices of a subnet's pool.
LEMMA PoolToolSuits ==
    ASSUME NEW x \in {"price", "tao-depth", "alpha-depth", "alpha-supply", "moving-price", "volume"},
           NEW t, t.chain = "bt", t.command = <<"subnet", x>>,
           t.watches = <<"subnet", "pool", x>>, t.input = SubnetInput(PriceCondition)
    PROVE  Suits(CommandOf(t), t)
  <1> DEFINE c == SubnetCommand(x)
  <1>1. CommandOf(t) = c
    <2>1. <<"subnet", x>> \in BtNames
      BY DEF BtNames, SubnetNumericNames
    <2>2. QED
      BY <2>1, BtCommandOf DEF BtCommand
  <1>2. /\ c.path = <<"subnet", "pool", x>> /\ c.params = {"netuid"}
        /\ c.takes = Numeric \cup Common /\ c.shape \in {"price", "numeric"}
        /\ c.reads = {} /\ c.maxNetuid = 65535
        /\ c.defaults = <<>>
    BY DEF SubnetCommand, SubnetPrice, SubnetNumeric, SubnetNumericPath, SubnetNumericNames, OnSubnet, Command
  <1>3. /\ t.input.required = {"netuid"} \cup {"condition"} /\ t.input.optional = {} \cup CommonFields
        /\ t.input.condition = PriceCondition
        /\ t.input.maxNetuid = 65535 /\ t.input.finalities = {}
    <2>1. PriceCondition.kinds # {}
      BY SomeKinds
    <2>2. QED
      BY <2>1 DEF SubnetInput, InputModel
  <1> HIDE DEF c
  <1>4. IdsSuit(c, t)
    BY <1>2, <1>3 DEF IdsSuit, IdFields
  <1>5. ReadsSuit(c, t)
    BY <1>2, <1>3 DEF ReadsSuit, DepthForTrade, SelectorDefaults, @@, :>
  <1>6. OptionsSuit(c, t)
    BY <1>2, <1>3, ConditionsAre
    DEF OptionsSuit, FieldsOf, DepthForTrade, Common, Numeric, Thresholds, Deltas, Windows,
        WindowFields, CommonFields, AlwaysOnChange
  <1>7. ShapeSuits(c, t)
    BY <1>2, <1>3, ConditionsAre
    DEF ShapeSuits, FieldsOf, CommonFields, DepthForTrade, AlwaysOnChange
  <1>8. PlaceSuits(c, t)
    BY <1>2, <1>3 DEF PlaceSuits, DepthForTrade, IdFirst
  <1>9. QED
    BY <1>1, <1>2, <1>4, <1>5, <1>6, <1>7, <1>8 DEF Suits

\* The other numbers of a subnet.
LEMMA SubnetMetricSuits ==
    ASSUME NEW x \in {"emission-share", "burn-rate", "ema-tao-flow"},
           NEW t, t.chain = "bt", t.command = <<"subnet", x>>,
           t.watches = <<"subnet", x>>, t.input = SubnetInput(PriceCondition)
    PROVE  Suits(CommandOf(t), t)
  <1> DEFINE c == SubnetCommand(x)
  <1>1. CommandOf(t) = c
    <2>1. <<"subnet", x>> \in BtNames
      BY DEF BtNames, SubnetNumericNames
    <2>2. QED
      BY <2>1, BtCommandOf DEF BtCommand
  <1>2. /\ c.path = <<"subnet", x>> /\ c.params = {"netuid"}
        /\ c.takes = Numeric \cup Common /\ c.shape = "numeric"
        /\ c.reads = {} /\ c.maxNetuid = 65535
        /\ c.defaults = <<>>
    BY DEF SubnetCommand, SubnetNumeric, SubnetNumericPath, SubnetNumericNames, OnSubnet, Command
  <1>3. /\ t.input.required = {"netuid"} \cup {"condition"} /\ t.input.optional = {} \cup CommonFields
        /\ t.input.condition = PriceCondition
        /\ t.input.maxNetuid = 65535 /\ t.input.finalities = {}
    <2>1. PriceCondition.kinds # {}
      BY SomeKinds
    <2>2. QED
      BY <2>1 DEF SubnetInput, InputModel
  <1> HIDE DEF c
  <1>4. IdsSuit(c, t)
    BY <1>2, <1>3 DEF IdsSuit, IdFields
  <1>5. ReadsSuit(c, t)
    BY <1>2, <1>3 DEF ReadsSuit, DepthForTrade, SelectorDefaults, @@, :>
  <1>6. OptionsSuit(c, t)
    BY <1>2, <1>3, ConditionsAre
    DEF OptionsSuit, FieldsOf, DepthForTrade, Common, Numeric, Thresholds, Deltas, Windows,
        WindowFields, CommonFields, AlwaysOnChange
  <1>7. ShapeSuits(c, t)
    BY <1>2, <1>3, ConditionsAre
    DEF ShapeSuits, FieldsOf, CommonFields, DepthForTrade, AlwaysOnChange
  <1>8. PlaceSuits(c, t)
    BY <1>2, <1>3 DEF PlaceSuits, DepthForTrade, IdFirst
  <1>9. QED
    BY <1>1, <1>2, <1>4, <1>5, <1>6, <1>7, <1>8 DEF Suits

\* The depth for a trade.
LEMMA DepthToolSuits ==
    ASSUME NEW t, t.chain = "bt", t.command = <<"subnet", "depth-for-trade">>,
           t.watches = <<"subnet", "pool", "depth-for-trade">>, t.input = SubnetDepthForTradeInput
    PROVE  Suits(CommandOf(t), t)
  <1> DEFINE c == SubnetCommand("depth-for-trade")
  <1>1. CommandOf(t) = c
    <2>1. <<"subnet", "depth-for-trade">> \in BtNames
      BY DEF BtNames, SubnetNumericNames
    <2>2. QED
      BY <2>1, BtCommandOf DEF BtCommand
  <1>2. /\ c.path = <<"subnet", "pool", "depth-for-trade">> /\ c.params = {"netuid"}
        /\ c.takes = (Thresholds \cup {"size", "max-bps"}) \cup Common /\ c.shape = "depth"
        /\ c.reads = {"size", "max-bps"} /\ c.maxNetuid = 65535
        /\ c.defaults = <<>>
    BY DEF SubnetCommand, SubnetDepthForTrade, OnSubnet, SubnetNumericNames, Command
  <1>3. /\ t.input.required = {"netuid", "size", "max_bps"} \cup {"condition"} /\ t.input.optional = {} \cup CommonFields
        /\ t.input.condition = ThresholdCondition
        /\ t.input.maxNetuid = 65535 /\ t.input.finalities = {}
    <2>1. ThresholdCondition.kinds # {}
      BY SomeKinds
    <2>2. QED
      BY <2>1 DEF SubnetDepthForTradeInput, InputModel
  <1> HIDE DEF c
  <1>4. IdsSuit(c, t)
    BY <1>2, <1>3 DEF IdsSuit, IdFields
  <1>5. ReadsSuit(c, t)
    BY <1>2, <1>3 DEF ReadsSuit, DepthForTrade, SelectorDefaults, @@, :>
  <1>6. OptionsSuit(c, t)
    BY <1>2, <1>3, ConditionsAre
    DEF OptionsSuit, FieldsOf, DepthForTrade, Common, Numeric, Thresholds, Deltas, Windows,
        WindowFields, CommonFields, AlwaysOnChange
  <1>7. ShapeSuits(c, t)
    BY <1>2, <1>3, ConditionsAre
    DEF ShapeSuits, FieldsOf, CommonFields, DepthForTrade, AlwaysOnChange
  <1>8. PlaceSuits(c, t)
    BY <1>2, <1>3 DEF PlaceSuits, DepthForTrade, IdFirst
  <1>9. QED
    BY <1>1, <1>2, <1>4, <1>5, <1>6, <1>7, <1>8 DEF Suits

\* The cost of registering a neuron.
LEMMA RegistrationCostToolSuits ==
    ASSUME NEW t, t.chain = "bt", t.command = <<"subnet", "registration-cost">>,
           t.watches = <<"subnet", "registration-cost">>, t.input = SubnetInput(ThresholdCondition)
    PROVE  Suits(CommandOf(t), t)
  <1> DEFINE c == SubnetCommand("registration-cost")
  <1>1. CommandOf(t) = c
    <2>1. <<"subnet", "registration-cost">> \in BtNames
      BY DEF BtNames, SubnetNumericNames
    <2>2. QED
      BY <2>1, BtCommandOf DEF BtCommand
  <1>2. /\ c.path = <<"subnet", "registration-cost">> /\ c.params = {"netuid"}
        /\ c.takes = Thresholds \cup Common /\ c.shape = "threshold"
        /\ c.reads = {} /\ c.maxNetuid = 65535
        /\ c.defaults = <<>>
    BY DEF SubnetCommand, SubnetRegistrationCost, OnSubnet, SubnetNumericNames, Command
  <1>3. /\ t.input.required = {"netuid"} \cup {"condition"} /\ t.input.optional = {} \cup CommonFields
        /\ t.input.condition = ThresholdCondition
        /\ t.input.maxNetuid = 65535 /\ t.input.finalities = {}
    <2>1. ThresholdCondition.kinds # {}
      BY SomeKinds
    <2>2. QED
      BY <2>1 DEF SubnetInput, InputModel
  <1> HIDE DEF c
  <1>4. IdsSuit(c, t)
    BY <1>2, <1>3 DEF IdsSuit, IdFields
  <1>5. ReadsSuit(c, t)
    BY <1>2, <1>3 DEF ReadsSuit, DepthForTrade, SelectorDefaults, @@, :>
  <1>6. OptionsSuit(c, t)
    BY <1>2, <1>3, ConditionsAre
    DEF OptionsSuit, FieldsOf, DepthForTrade, Common, Numeric, Thresholds, Deltas, Windows,
        WindowFields, CommonFields, AlwaysOnChange
  <1>7. ShapeSuits(c, t)
    BY <1>2, <1>3, ConditionsAre
    DEF ShapeSuits, FieldsOf, CommonFields, DepthForTrade, AlwaysOnChange
  <1>8. PlaceSuits(c, t)
    BY <1>2, <1>3 DEF PlaceSuits, DepthForTrade, IdFirst
  <1>9. QED
    BY <1>1, <1>2, <1>4, <1>5, <1>6, <1>7, <1>8 DEF Suits

\* The hyperparameters of a subnet.
LEMMA HyperparamsToolSuits ==
    ASSUME NEW t, t.chain = "bt", t.command = <<"subnet", "hyperparams">>,
           t.watches = <<"subnet", "hyperparams">>, t.input = SubnetInput(NoCondition)
    PROVE  Suits(CommandOf(t), t)
  <1> DEFINE c == SubnetCommand("hyperparams")
  <1>1. CommandOf(t) = c
    <2>1. <<"subnet", "hyperparams">> \in BtNames
      BY DEF BtNames, SubnetNumericNames
    <2>2. QED
      BY <2>1, BtCommandOf DEF BtCommand
  <1>2. /\ c.path = <<"subnet", "hyperparams">> /\ c.params = {"netuid"}
        /\ c.takes = {"on-change"} \cup Common /\ c.shape = "change"
        /\ c.reads = {} /\ c.maxNetuid = 65535
        /\ c.defaults = <<>>
    BY DEF SubnetCommand, SubnetState, OnSubnet, SubnetNumericNames, Command
  <1>3. /\ t.input.required = {"netuid"} /\ t.input.optional = {} \cup CommonFields
        /\ t.input.condition = NoCondition
        /\ t.input.maxNetuid = 65535 /\ t.input.finalities = {}
    <2>1. NoCondition.kinds = {}
      BY SomeKinds
    <2>2. QED
      BY <2>1 DEF SubnetInput, InputModel
  <1> HIDE DEF c
  <1>4. IdsSuit(c, t)
    BY <1>2, <1>3 DEF IdsSuit, IdFields
  <1>5. ReadsSuit(c, t)
    BY <1>2, <1>3 DEF ReadsSuit, DepthForTrade, SelectorDefaults, @@, :>
  <1>6. OptionsSuit(c, t)
    BY <1>2, <1>3, ConditionsAre
    DEF OptionsSuit, FieldsOf, DepthForTrade, Common, Numeric, Thresholds, Deltas, Windows,
        WindowFields, CommonFields, AlwaysOnChange
  <1>7. ShapeSuits(c, t)
    BY <1>2, <1>3, ConditionsAre
    DEF ShapeSuits, FieldsOf, CommonFields, DepthForTrade, AlwaysOnChange
  <1>8. PlaceSuits(c, t)
    BY <1>2, <1>3 DEF PlaceSuits, DepthForTrade, IdFirst
  <1>9. QED
    BY <1>1, <1>2, <1>4, <1>5, <1>6, <1>7, <1>8 DEF Suits

\* The identity of a subnet.
LEMMA SubnetIdentityToolSuits ==
    ASSUME NEW t, t.chain = "bt", t.command = <<"subnet", "identity">>,
           t.watches = <<"subnet", "identity">>, t.input = SubnetInput(OnChangeCondition)
    PROVE  Suits(CommandOf(t), t)
  <1> DEFINE c == SubnetCommand("identity")
  <1>1. CommandOf(t) = c
    <2>1. <<"subnet", "identity">> \in BtNames
      BY DEF BtNames, SubnetNumericNames
    <2>2. QED
      BY <2>1, BtCommandOf DEF BtCommand
  <1>2. /\ c.path = <<"subnet", "identity">> /\ c.params = {"netuid"}
        /\ c.takes = {"on-change"} \cup Common /\ c.shape = "change"
        /\ c.reads = {} /\ c.maxNetuid = 65535
        /\ c.defaults = <<>>
    BY DEF SubnetCommand, SubnetState, OnSubnet, SubnetNumericNames, Command
  <1>3. /\ t.input.required = {"netuid"} \cup {"condition"} /\ t.input.optional = {} \cup CommonFields
        /\ t.input.condition = OnChangeCondition
        /\ t.input.maxNetuid = 65535 /\ t.input.finalities = {}
    <2>1. OnChangeCondition.kinds # {}
      BY SomeKinds
    <2>2. QED
      BY <2>1 DEF SubnetInput, InputModel
  <1> HIDE DEF c
  <1>4. IdsSuit(c, t)
    BY <1>2, <1>3 DEF IdsSuit, IdFields
  <1>5. ReadsSuit(c, t)
    BY <1>2, <1>3 DEF ReadsSuit, DepthForTrade, SelectorDefaults, @@, :>
  <1>6. OptionsSuit(c, t)
    BY <1>2, <1>3, ConditionsAre
    DEF OptionsSuit, FieldsOf, DepthForTrade, Common, Numeric, Thresholds, Deltas, Windows,
        WindowFields, CommonFields, AlwaysOnChange
  <1>7. ShapeSuits(c, t)
    BY <1>2, <1>3, ConditionsAre
    DEF ShapeSuits, FieldsOf, CommonFields, DepthForTrade, AlwaysOnChange
  <1>8. PlaceSuits(c, t)
    BY <1>2, <1>3 DEF PlaceSuits, DepthForTrade, IdFirst
  <1>9. QED
    BY <1>1, <1>2, <1>4, <1>5, <1>6, <1>7, <1>8 DEF Suits

\* The dividends and the stake of a validator on a subnet.
LEMMA ValidatorAlphaToolSuits ==
    ASSUME NEW x \in {"dividends-alpha", "stake-alpha"},
           NEW t, t.chain = "bt", t.command = <<"validator", x>>,
           t.watches = <<"validator", x>>, t.input = ValidatorAlphaInput
    PROVE  Suits(CommandOf(t), t)
  <1> DEFINE c == ValidatorCommand(x)
  <1>1. CommandOf(t) = c
    <2>1. <<"validator", x>> \in BtNames
      BY DEF BtNames, SubnetNumericNames
    <2>2. QED
      BY <2>1, BtCommandOf DEF BtCommand
  <1>2. /\ c.path = <<"validator", x>> /\ c.params = {"netuid", "hotkey"}
        /\ c.takes = (Numeric \cup {"netuid"}) \cup Common /\ c.shape = "numeric"
        /\ c.reads = {} /\ c.maxNetuid = 65535
        /\ c.defaults = <<>>
    BY DEF ValidatorCommand, ValidatorDividends, ValidatorStake, ValidatorAlpha, OnValidator, Command
  <1>3. /\ t.input.required = {"netuid", "hotkey"} \cup {"condition"} /\ t.input.optional = {} \cup CommonFields
        /\ t.input.condition = PriceCondition
        /\ t.input.maxNetuid = 65535 /\ t.input.finalities = {}
    <2>1. PriceCondition.kinds # {}
      BY SomeKinds
    <2>2. QED
      BY <2>1 DEF ValidatorAlphaInput, InputModel
  <1> HIDE DEF c
  <1>4. IdsSuit(c, t)
    BY <1>2, <1>3 DEF IdsSuit, IdFields
  <1>5. ReadsSuit(c, t)
    BY <1>2, <1>3 DEF ReadsSuit, DepthForTrade, SelectorDefaults, @@, :>
  <1>6. OptionsSuit(c, t)
    BY <1>2, <1>3, ConditionsAre
    DEF OptionsSuit, FieldsOf, DepthForTrade, Common, Numeric, Thresholds, Deltas, Windows,
        WindowFields, CommonFields, AlwaysOnChange
  <1>7. ShapeSuits(c, t)
    BY <1>2, <1>3, ConditionsAre
    DEF ShapeSuits, FieldsOf, CommonFields, DepthForTrade, AlwaysOnChange
  <1>8. PlaceSuits(c, t)
    BY <1>2, <1>3 DEF PlaceSuits, DepthForTrade, IdFirst
  <1>9. QED
    BY <1>1, <1>2, <1>4, <1>5, <1>6, <1>7, <1>8 DEF Suits

\* The commission of a validator.
LEMMA CommissionToolSuits ==
    ASSUME NEW t, t.chain = "bt", t.command = <<"validator", "commission">>,
           t.watches = <<"validator", "commission">>, t.input = ValidatorInput(CommissionStateCondition)
    PROVE  Suits(CommandOf(t), t)
  <1> DEFINE c == ValidatorCommand("commission")
  <1>1. CommandOf(t) = c
    <2>1. <<"validator", "commission">> \in BtNames
      BY DEF BtNames, SubnetNumericNames
    <2>2. QED
      BY <2>1, BtCommandOf DEF BtCommand
  <1>2. /\ c.path = <<"validator", "commission">> /\ c.params = {"hotkey"}
        /\ c.takes = {"on-change", "changes-to", "changes-from"} \cup Common /\ c.shape = "commission"
        /\ c.reads = {} /\ c.maxNetuid = 65535
        /\ c.defaults = <<>>
    BY DEF ValidatorCommand, ValidatorCommission, OnValidator, Command
  <1>3. /\ t.input.required = {"hotkey"} \cup {"condition"} /\ t.input.optional = {} \cup CommonFields
        /\ t.input.condition = CommissionStateCondition
        /\ t.input.maxNetuid = 65535 /\ t.input.finalities = {}
    <2>1. CommissionStateCondition.kinds # {}
      BY SomeKinds
    <2>2. QED
      BY <2>1 DEF ValidatorInput, InputModel
  <1> HIDE DEF c
  <1>4. IdsSuit(c, t)
    BY <1>2, <1>3 DEF IdsSuit, IdFields
  <1>5. ReadsSuit(c, t)
    BY <1>2, <1>3 DEF ReadsSuit, DepthForTrade, SelectorDefaults, @@, :>
  <1>6. OptionsSuit(c, t)
    BY <1>2, <1>3, ConditionsAre
    DEF OptionsSuit, FieldsOf, DepthForTrade, Common, Numeric, Thresholds, Deltas, Windows,
        WindowFields, CommonFields, AlwaysOnChange
  <1>7. ShapeSuits(c, t)
    BY <1>2, <1>3, ConditionsAre
    DEF ShapeSuits, FieldsOf, CommonFields, DepthForTrade, AlwaysOnChange
  <1>8. PlaceSuits(c, t)
    BY <1>2, <1>3 DEF PlaceSuits, DepthForTrade, IdFirst
  <1>9. QED
    BY <1>1, <1>2, <1>4, <1>5, <1>6, <1>7, <1>8 DEF Suits

\* The weights a validator sets.
LEMMA WeightsToolSuits ==
    ASSUME NEW t, t.chain = "bt", t.command = <<"validator", "weights">>,
           t.watches = <<"validator", "weights">>, t.input = ValidatorWeightsInput
    PROVE  Suits(CommandOf(t), t)
  <1> DEFINE c == ValidatorCommand("weights")
  <1>1. CommandOf(t) = c
    <2>1. <<"validator", "weights">> \in BtNames
      BY DEF BtNames, SubnetNumericNames
    <2>2. QED
      BY <2>1, BtCommandOf DEF BtCommand
  <1>2. /\ c.path = <<"validator", "weights">> /\ c.params = {"hotkey"}
        /\ c.takes = {"netuid", "mechid", "silent-for"} \cup Common /\ c.shape = "silence"
        /\ c.reads = {"netuid", "mechid"} /\ c.maxNetuid = 4095
        /\ c.defaults = "netuid" :> 1 @@ "mechid" :> 0
    <2>1. c = ValidatorWeights
      BY DEF ValidatorCommand
    <2>2. /\ ValidatorWeights.path = <<"validator", "weights">> /\ ValidatorWeights.params = {"hotkey"}
          /\ ValidatorWeights.takes = {"netuid", "mechid", "silent-for"} \cup Common /\ ValidatorWeights.shape = "silence"
          /\ ValidatorWeights.reads = {"netuid", "mechid"} /\ ValidatorWeights.maxNetuid = 4095
      BY DEF ValidatorWeights, OnValidator, Command
    <2>3. ValidatorWeights.defaults = "netuid" :> 1 @@ "mechid" :> 0
      BY MechanismDefaults
    <2>4. QED
      BY <2>1, <2>2, <2>3
  <1>3. /\ t.input.required = {"hotkey", "silent_for"} /\ t.input.optional = {"netuid", "mechid"} \cup CommonFields
        /\ t.input.condition = NoCondition
        /\ t.input.maxNetuid = 4095 /\ t.input.finalities = {}
    <2>1. NoCondition.kinds = {}
      BY SomeKinds
    <2>2. QED
      BY <2>1 DEF ValidatorWeightsInput, InputModel
  <1> HIDE DEF c
  <1>4. IdsSuit(c, t)
    BY <1>2, <1>3 DEF IdsSuit, IdFields
  <1>5. ReadsSuit(c, t)
    BY <1>2, <1>3 DEF ReadsSuit, DepthForTrade, SelectorDefaults, @@, :>
  <1>6. OptionsSuit(c, t)
    BY <1>2, <1>3, ConditionsAre
    DEF OptionsSuit, FieldsOf, DepthForTrade, Common, Numeric, Thresholds, Deltas, Windows,
        WindowFields, CommonFields, AlwaysOnChange
  <1>7. ShapeSuits(c, t)
    BY <1>2, <1>3, ConditionsAre
    DEF ShapeSuits, FieldsOf, CommonFields, DepthForTrade, AlwaysOnChange
  <1>8. PlaceSuits(c, t)
    BY <1>2, <1>3 DEF PlaceSuits, DepthForTrade, IdFirst
  <1>9. QED
    BY <1>1, <1>2, <1>4, <1>5, <1>6, <1>7, <1>8 DEF Suits

\* The child keys of a validator.
LEMMA ChildKeysToolSuits ==
    ASSUME NEW t, t.chain = "bt", t.command = <<"validator", "child-keys">>,
           t.watches = <<"validator", "child-keys">>, t.input = ValidatorInput(NoCondition)
    PROVE  Suits(CommandOf(t), t)
  <1> DEFINE c == ValidatorCommand("child-keys")
  <1>1. CommandOf(t) = c
    <2>1. <<"validator", "child-keys">> \in BtNames
      BY DEF BtNames, SubnetNumericNames
    <2>2. QED
      BY <2>1, BtCommandOf DEF BtCommand
  <1>2. /\ c.path = <<"validator", "child-keys">> /\ c.params = {"hotkey"}
        /\ c.takes = {"on-change"} \cup Common /\ c.shape = "change"
        /\ c.reads = {} /\ c.maxNetuid = 65535
        /\ c.defaults = <<>>
    BY DEF ValidatorCommand, ValidatorChildKeys, OnValidator, Command
  <1>3. /\ t.input.required = {"hotkey"} /\ t.input.optional = {} \cup CommonFields
        /\ t.input.condition = NoCondition
        /\ t.input.maxNetuid = 65535 /\ t.input.finalities = {}
    <2>1. NoCondition.kinds = {}
      BY SomeKinds
    <2>2. QED
      BY <2>1 DEF ValidatorInput, InputModel
  <1> HIDE DEF c
  <1>4. IdsSuit(c, t)
    BY <1>2, <1>3 DEF IdsSuit, IdFields
  <1>5. ReadsSuit(c, t)
    BY <1>2, <1>3 DEF ReadsSuit, DepthForTrade, SelectorDefaults, @@, :>
  <1>6. OptionsSuit(c, t)
    BY <1>2, <1>3, ConditionsAre
    DEF OptionsSuit, FieldsOf, DepthForTrade, Common, Numeric, Thresholds, Deltas, Windows,
        WindowFields, CommonFields, AlwaysOnChange
  <1>7. ShapeSuits(c, t)
    BY <1>2, <1>3, ConditionsAre
    DEF ShapeSuits, FieldsOf, CommonFields, DepthForTrade, AlwaysOnChange
  <1>8. PlaceSuits(c, t)
    BY <1>2, <1>3 DEF PlaceSuits, DepthForTrade, IdFirst
  <1>9. QED
    BY <1>1, <1>2, <1>4, <1>5, <1>6, <1>7, <1>8 DEF Suits

\* The identity of a validator.
LEMMA ValidatorIdentityToolSuits ==
    ASSUME NEW t, t.chain = "bt", t.command = <<"validator", "identity">>,
           t.watches = <<"validator", "identity">>, t.input = ValidatorInput(OnChangeCondition)
    PROVE  Suits(CommandOf(t), t)
  <1> DEFINE c == ValidatorCommand("identity")
  <1>1. CommandOf(t) = c
    <2>1. <<"validator", "identity">> \in BtNames
      BY DEF BtNames, SubnetNumericNames
    <2>2. QED
      BY <2>1, BtCommandOf DEF BtCommand
  <1>2. /\ c.path = <<"validator", "identity">> /\ c.params = {"hotkey"}
        /\ c.takes = {"on-change"} \cup Common /\ c.shape = "change"
        /\ c.reads = {} /\ c.maxNetuid = 65535
        /\ c.defaults = <<>>
    BY DEF ValidatorCommand, ValidatorIdentity, OnValidator, Command
  <1>3. /\ t.input.required = {"hotkey"} \cup {"condition"} /\ t.input.optional = {} \cup CommonFields
        /\ t.input.condition = OnChangeCondition
        /\ t.input.maxNetuid = 65535 /\ t.input.finalities = {}
    <2>1. OnChangeCondition.kinds # {}
      BY SomeKinds
    <2>2. QED
      BY <2>1 DEF ValidatorInput, InputModel
  <1> HIDE DEF c
  <1>4. IdsSuit(c, t)
    BY <1>2, <1>3 DEF IdsSuit, IdFields
  <1>5. ReadsSuit(c, t)
    BY <1>2, <1>3 DEF ReadsSuit, DepthForTrade, SelectorDefaults, @@, :>
  <1>6. OptionsSuit(c, t)
    BY <1>2, <1>3, ConditionsAre
    DEF OptionsSuit, FieldsOf, DepthForTrade, Common, Numeric, Thresholds, Deltas, Windows,
        WindowFields, CommonFields, AlwaysOnChange
  <1>7. ShapeSuits(c, t)
    BY <1>2, <1>3, ConditionsAre
    DEF ShapeSuits, FieldsOf, CommonFields, DepthForTrade, AlwaysOnChange
  <1>8. PlaceSuits(c, t)
    BY <1>2, <1>3 DEF PlaceSuits, DepthForTrade, IdFirst
  <1>9. QED
    BY <1>1, <1>2, <1>4, <1>5, <1>6, <1>7, <1>8 DEF Suits

\* The dividends and the stake of a neuron.
LEMMA NeuronNumericToolSuits ==
    ASSUME NEW x \in {"dividends", "stake-alpha"},
           NEW t, t.chain = "bt", t.command = <<"neuron", x>>,
           t.watches = <<"neuron", x>>, t.input = NeuronInput(PriceCondition)
    PROVE  Suits(CommandOf(t), t)
  <1> DEFINE c == NeuronCommand(x)
  <1>1. CommandOf(t) = c
    <2>1. <<"neuron", x>> \in BtNames
      BY DEF BtNames, SubnetNumericNames
    <2>2. QED
      BY <2>1, BtCommandOf DEF BtCommand
  <1>2. /\ c.path = <<"neuron", x>> /\ c.params = {"netuid", "hotkey"}
        /\ c.takes = Numeric \cup Common /\ c.shape = "numeric"
        /\ c.reads = {} /\ c.maxNetuid = 65535
        /\ c.defaults = <<>>
    BY DEF NeuronCommand, NeuronNumeric, OnNeuron, Command
  <1>3. /\ t.input.required = {"netuid", "hotkey"} \cup {"condition"} /\ t.input.optional = {} \cup CommonFields
        /\ t.input.condition = PriceCondition
        /\ t.input.maxNetuid = 65535 /\ t.input.finalities = {}
    <2>1. PriceCondition.kinds # {}
      BY SomeKinds
    <2>2. QED
      BY <2>1 DEF NeuronInput, InputModel
  <1> HIDE DEF c
  <1>4. IdsSuit(c, t)
    BY <1>2, <1>3 DEF IdsSuit, IdFields
  <1>5. ReadsSuit(c, t)
    BY <1>2, <1>3 DEF ReadsSuit, DepthForTrade, SelectorDefaults, @@, :>
  <1>6. OptionsSuit(c, t)
    BY <1>2, <1>3, ConditionsAre
    DEF OptionsSuit, FieldsOf, DepthForTrade, Common, Numeric, Thresholds, Deltas, Windows,
        WindowFields, CommonFields, AlwaysOnChange
  <1>7. ShapeSuits(c, t)
    BY <1>2, <1>3, ConditionsAre
    DEF ShapeSuits, FieldsOf, CommonFields, DepthForTrade, AlwaysOnChange
  <1>8. PlaceSuits(c, t)
    BY <1>2, <1>3 DEF PlaceSuits, DepthForTrade, IdFirst
  <1>9. QED
    BY <1>1, <1>2, <1>4, <1>5, <1>6, <1>7, <1>8 DEF Suits

\* The incentive of a neuron on a mechanism.
LEMMA IncentiveToolSuits ==
    ASSUME NEW t, t.chain = "bt", t.command = <<"neuron", "incentive">>,
           t.watches = <<"neuron", "incentive">>, t.input = NeuronIncentiveInput
    PROVE  Suits(CommandOf(t), t)
  <1> DEFINE c == NeuronCommand("incentive")
  <1>1. CommandOf(t) = c
    <2>1. <<"neuron", "incentive">> \in BtNames
      BY DEF BtNames, SubnetNumericNames
    <2>2. QED
      BY <2>1, BtCommandOf DEF BtCommand
  <1>2. /\ c.path = <<"neuron", "incentive">> /\ c.params = {"netuid", "hotkey"}
        /\ c.takes = (Numeric \cup {"mechid"}) \cup Common /\ c.shape = "numeric"
        /\ c.reads = {"mechid"} /\ c.maxNetuid = 4095
        /\ c.defaults = "mechid" :> 0
    <2>1. c = NeuronIncentive
      BY DEF NeuronCommand
    <2>2. /\ NeuronIncentive.path = <<"neuron", "incentive">> /\ NeuronIncentive.params = {"netuid", "hotkey"}
          /\ NeuronIncentive.takes = (Numeric \cup {"mechid"}) \cup Common /\ NeuronIncentive.shape = "numeric"
          /\ NeuronIncentive.reads = {"mechid"} /\ NeuronIncentive.maxNetuid = 4095
      BY DEF NeuronIncentive, OnMechanism, OnNeuron, Command
    <2>3. NeuronIncentive.defaults = "mechid" :> 0
      BY MechanismDefaults
    <2>4. QED
      BY <2>1, <2>2, <2>3
  <1>3. /\ t.input.required = {"netuid", "hotkey"} \cup {"condition"} /\ t.input.optional = {"mechid"} \cup CommonFields
        /\ t.input.condition = PriceCondition
        /\ t.input.maxNetuid = 4095 /\ t.input.finalities = {}
    <2>1. PriceCondition.kinds # {}
      BY SomeKinds
    <2>2. QED
      BY <2>1 DEF NeuronIncentiveInput, InputModel
  <1> HIDE DEF c
  <1>4. IdsSuit(c, t)
    BY <1>2, <1>3 DEF IdsSuit, IdFields
  <1>5. ReadsSuit(c, t)
    BY <1>2, <1>3 DEF ReadsSuit, DepthForTrade, SelectorDefaults, @@, :>
  <1>6. OptionsSuit(c, t)
    BY <1>2, <1>3, ConditionsAre
    DEF OptionsSuit, FieldsOf, DepthForTrade, Common, Numeric, Thresholds, Deltas, Windows,
        WindowFields, CommonFields, AlwaysOnChange
  <1>7. ShapeSuits(c, t)
    BY <1>2, <1>3, ConditionsAre
    DEF ShapeSuits, FieldsOf, CommonFields, DepthForTrade, AlwaysOnChange
  <1>8. PlaceSuits(c, t)
    BY <1>2, <1>3 DEF PlaceSuits, DepthForTrade, IdFirst
  <1>9. QED
    BY <1>1, <1>2, <1>4, <1>5, <1>6, <1>7, <1>8 DEF Suits

\* The last update of a neuron on a mechanism.
LEMMA LastUpdateToolSuits ==
    ASSUME NEW t, t.chain = "bt", t.command = <<"neuron", "last-update">>,
           t.watches = <<"neuron", "last-update">>, t.input = NeuronLastUpdateInput
    PROVE  Suits(CommandOf(t), t)
  <1> DEFINE c == NeuronCommand("last-update")
  <1>1. CommandOf(t) = c
    <2>1. <<"neuron", "last-update">> \in BtNames
      BY DEF BtNames, SubnetNumericNames
    <2>2. QED
      BY <2>1, BtCommandOf DEF BtCommand
  <1>2. /\ c.path = <<"neuron", "last-update">> /\ c.params = {"netuid", "hotkey"}
        /\ c.takes = ({"silent-for"} \cup {"mechid"}) \cup Common /\ c.shape = "silence"
        /\ c.reads = {"mechid"} /\ c.maxNetuid = 4095
        /\ c.defaults = "mechid" :> 0
    <2>1. c = NeuronLastUpdate
      BY DEF NeuronCommand
    <2>2. /\ NeuronLastUpdate.path = <<"neuron", "last-update">> /\ NeuronLastUpdate.params = {"netuid", "hotkey"}
          /\ NeuronLastUpdate.takes = ({"silent-for"} \cup {"mechid"}) \cup Common /\ NeuronLastUpdate.shape = "silence"
          /\ NeuronLastUpdate.reads = {"mechid"} /\ NeuronLastUpdate.maxNetuid = 4095
      BY DEF NeuronLastUpdate, OnMechanism, OnNeuron, Command
    <2>3. NeuronLastUpdate.defaults = "mechid" :> 0
      BY MechanismDefaults
    <2>4. QED
      BY <2>1, <2>2, <2>3
  <1>3. /\ t.input.required = {"netuid", "hotkey", "silent_for"} /\ t.input.optional = {"mechid"} \cup CommonFields
        /\ t.input.condition = NoCondition
        /\ t.input.maxNetuid = 4095 /\ t.input.finalities = {}
    <2>1. NoCondition.kinds = {}
      BY SomeKinds
    <2>2. QED
      BY <2>1 DEF NeuronLastUpdateInput, InputModel
  <1> HIDE DEF c
  <1>4. IdsSuit(c, t)
    BY <1>2, <1>3 DEF IdsSuit, IdFields
  <1>5. ReadsSuit(c, t)
    BY <1>2, <1>3 DEF ReadsSuit, DepthForTrade, SelectorDefaults, @@, :>
  <1>6. OptionsSuit(c, t)
    BY <1>2, <1>3, ConditionsAre
    DEF OptionsSuit, FieldsOf, DepthForTrade, Common, Numeric, Thresholds, Deltas, Windows,
        WindowFields, CommonFields, AlwaysOnChange
  <1>7. ShapeSuits(c, t)
    BY <1>2, <1>3, ConditionsAre
    DEF ShapeSuits, FieldsOf, CommonFields, DepthForTrade, AlwaysOnChange
  <1>8. PlaceSuits(c, t)
    BY <1>2, <1>3 DEF PlaceSuits, DepthForTrade, IdFirst
  <1>9. QED
    BY <1>1, <1>2, <1>4, <1>5, <1>6, <1>7, <1>8 DEF Suits

\* The immunity of a neuron.
LEMMA ImmunityToolSuits ==
    ASSUME NEW t, t.chain = "bt", t.command = <<"neuron", "blocks-until-immunity-expires">>,
           t.watches = <<"neuron", "blocks-until-immunity-expires">>, t.input = NeuronInput(ThresholdCondition)
    PROVE  Suits(CommandOf(t), t)
  <1> DEFINE c == NeuronCommand("blocks-until-immunity-expires")
  <1>1. CommandOf(t) = c
    <2>1. <<"neuron", "blocks-until-immunity-expires">> \in BtNames
      BY DEF BtNames, SubnetNumericNames
    <2>2. QED
      BY <2>1, BtCommandOf DEF BtCommand
  <1>2. /\ c.path = <<"neuron", "blocks-until-immunity-expires">> /\ c.params = {"netuid", "hotkey"}
        /\ c.takes = Thresholds \cup Common /\ c.shape = "threshold"
        /\ c.reads = {} /\ c.maxNetuid = 65535
        /\ c.defaults = <<>>
    BY DEF NeuronCommand, NeuronImmunity, OnNeuron, Command
  <1>3. /\ t.input.required = {"netuid", "hotkey"} \cup {"condition"} /\ t.input.optional = {} \cup CommonFields
        /\ t.input.condition = ThresholdCondition
        /\ t.input.maxNetuid = 65535 /\ t.input.finalities = {}
    <2>1. ThresholdCondition.kinds # {}
      BY SomeKinds
    <2>2. QED
      BY <2>1 DEF NeuronInput, InputModel
  <1> HIDE DEF c
  <1>4. IdsSuit(c, t)
    BY <1>2, <1>3 DEF IdsSuit, IdFields
  <1>5. ReadsSuit(c, t)
    BY <1>2, <1>3 DEF ReadsSuit, DepthForTrade, SelectorDefaults, @@, :>
  <1>6. OptionsSuit(c, t)
    BY <1>2, <1>3, ConditionsAre
    DEF OptionsSuit, FieldsOf, DepthForTrade, Common, Numeric, Thresholds, Deltas, Windows,
        WindowFields, CommonFields, AlwaysOnChange
  <1>7. ShapeSuits(c, t)
    BY <1>2, <1>3, ConditionsAre
    DEF ShapeSuits, FieldsOf, CommonFields, DepthForTrade, AlwaysOnChange
  <1>8. PlaceSuits(c, t)
    BY <1>2, <1>3 DEF PlaceSuits, DepthForTrade, IdFirst
  <1>9. QED
    BY <1>1, <1>2, <1>4, <1>5, <1>6, <1>7, <1>8 DEF Suits

\* The balance of an account.
LEMMA BalanceToolSuits ==
    ASSUME NEW t, t.chain = "bt", t.command = <<"account", "balance">>,
           t.watches = <<"account", "balance">>, t.input = AccountBalanceInput
    PROVE  Suits(CommandOf(t), t)
  <1> DEFINE c == AccountCommand("balance")
  <1>1. CommandOf(t) = c
    <2>1. <<"account", "balance">> \in BtNames
      BY DEF BtNames, SubnetNumericNames
    <2>2. QED
      BY <2>1, BtCommandOf DEF BtCommand
  <1>2. /\ c.path = <<"account", "balance">> /\ c.params = {"coldkey"}
        /\ c.takes = (Numeric \cup {"on-change"}) \cup Common /\ c.shape = "balance"
        /\ c.reads = {} /\ c.maxNetuid = 65535
        /\ c.defaults = <<>>
    BY DEF AccountCommand, AccountBalance, OnAccount, Command
  <1>3. /\ t.input.required = {"coldkey"} \cup {"condition"} /\ t.input.optional = {} \cup CommonFields
        /\ t.input.condition = BalanceCondition
        /\ t.input.maxNetuid = 65535 /\ t.input.finalities = {}
    <2>1. BalanceCondition.kinds # {}
      BY SomeKinds
    <2>2. QED
      BY <2>1 DEF AccountBalanceInput, InputModel
  <1> HIDE DEF c
  <1>4. IdsSuit(c, t)
    BY <1>2, <1>3 DEF IdsSuit, IdFields
  <1>5. ReadsSuit(c, t)
    BY <1>2, <1>3 DEF ReadsSuit, DepthForTrade, SelectorDefaults, @@, :>
  <1>6. OptionsSuit(c, t)
    BY <1>2, <1>3, ConditionsAre
    DEF OptionsSuit, FieldsOf, DepthForTrade, Common, Numeric, Thresholds, Deltas, Windows,
        WindowFields, CommonFields, AlwaysOnChange
  <1>7. ShapeSuits(c, t)
    BY <1>2, <1>3, ConditionsAre
    DEF ShapeSuits, FieldsOf, CommonFields, DepthForTrade, AlwaysOnChange
  <1>8. PlaceSuits(c, t)
    BY <1>2, <1>3 DEF PlaceSuits, DepthForTrade, IdFirst
  <1>9. QED
    BY <1>1, <1>2, <1>4, <1>5, <1>6, <1>7, <1>8 DEF Suits

\* The activity of an account.
LEMMA ActivityToolSuits ==
    ASSUME NEW t, t.chain = "bt", t.command = <<"account", "activity">>,
           t.watches = <<"account", "activity">>, t.input = AccountActivityInput
    PROVE  Suits(CommandOf(t), t)
  <1> DEFINE c == AccountCommand("activity")
  <1>1. CommandOf(t) = c
    <2>1. <<"account", "activity">> \in BtNames
      BY DEF BtNames, SubnetNumericNames
    <2>2. QED
      BY <2>1, BtCommandOf DEF BtCommand
  <1>2. /\ c.path = <<"account", "activity">> /\ c.params = {"coldkey"}
        /\ c.takes = {"silent-for"} \cup Common /\ c.shape = "silence"
        /\ c.reads = {} /\ c.maxNetuid = 65535
        /\ c.defaults = <<>>
    BY DEF AccountCommand, AccountActivity, OnAccount, Command
  <1>3. /\ t.input.required = {"coldkey", "silent_for"} /\ t.input.optional = {} \cup CommonFields
        /\ t.input.condition = NoCondition
        /\ t.input.maxNetuid = 65535 /\ t.input.finalities = {}
    <2>1. NoCondition.kinds = {}
      BY SomeKinds
    <2>2. QED
      BY <2>1 DEF AccountActivityInput, InputModel
  <1> HIDE DEF c
  <1>4. IdsSuit(c, t)
    BY <1>2, <1>3 DEF IdsSuit, IdFields
  <1>5. ReadsSuit(c, t)
    BY <1>2, <1>3 DEF ReadsSuit, DepthForTrade, SelectorDefaults, @@, :>
  <1>6. OptionsSuit(c, t)
    BY <1>2, <1>3, ConditionsAre
    DEF OptionsSuit, FieldsOf, DepthForTrade, Common, Numeric, Thresholds, Deltas, Windows,
        WindowFields, CommonFields, AlwaysOnChange
  <1>7. ShapeSuits(c, t)
    BY <1>2, <1>3, ConditionsAre
    DEF ShapeSuits, FieldsOf, CommonFields, DepthForTrade, AlwaysOnChange
  <1>8. PlaceSuits(c, t)
    BY <1>2, <1>3 DEF PlaceSuits, DepthForTrade, IdFirst
  <1>9. QED
    BY <1>1, <1>2, <1>4, <1>5, <1>6, <1>7, <1>8 DEF Suits

\* The cost of registering a subnet.
LEMMA NetworkCostToolSuits ==
    ASSUME NEW t, t.chain = "bt", t.command = <<"network", "subnet-registration-cost">>,
           t.watches = <<"network", "subnet-registration-cost">>, t.input = NetworkInput(ThresholdCondition)
    PROVE  Suits(CommandOf(t), t)
  <1> DEFINE c == NetworkCommand("subnet-registration-cost")
  <1>1. CommandOf(t) = c
    <2>1. <<"network", "subnet-registration-cost">> \in BtNames
      BY DEF BtNames, SubnetNumericNames
    <2>2. QED
      BY <2>1, BtCommandOf DEF BtCommand
  <1>2. /\ c.path = <<"network", "subnet-registration-cost">> /\ c.params = {}
        /\ c.takes = Thresholds \cup Common /\ c.shape = "threshold"
        /\ c.reads = {} /\ c.maxNetuid = 65535
        /\ c.defaults = <<>>
    BY DEF NetworkCommand, NetworkRegistrationCost, OnNetwork, Command
  <1>3. /\ t.input.required = {} \cup {"condition"} /\ t.input.optional = {} \cup CommonFields
        /\ t.input.condition = ThresholdCondition
        /\ t.input.maxNetuid = 65535 /\ t.input.finalities = {}
    <2>1. ThresholdCondition.kinds # {}
      BY SomeKinds
    <2>2. QED
      BY <2>1 DEF NetworkInput, InputModel
  <1> HIDE DEF c
  <1>4. IdsSuit(c, t)
    BY <1>2, <1>3 DEF IdsSuit, IdFields
  <1>5. ReadsSuit(c, t)
    BY <1>2, <1>3 DEF ReadsSuit, DepthForTrade, SelectorDefaults, @@, :>
  <1>6. OptionsSuit(c, t)
    BY <1>2, <1>3, ConditionsAre
    DEF OptionsSuit, FieldsOf, DepthForTrade, Common, Numeric, Thresholds, Deltas, Windows,
        WindowFields, CommonFields, AlwaysOnChange
  <1>7. ShapeSuits(c, t)
    BY <1>2, <1>3, ConditionsAre
    DEF ShapeSuits, FieldsOf, CommonFields, DepthForTrade, AlwaysOnChange
  <1>8. PlaceSuits(c, t)
    BY <1>2, <1>3 DEF PlaceSuits, DepthForTrade, IdFirst
  <1>9. QED
    BY <1>1, <1>2, <1>4, <1>5, <1>6, <1>7, <1>8 DEF Suits

\* The price of TAO.
LEMMA TaoPriceToolSuits ==
    ASSUME NEW t, t.chain = "bt", t.command = <<"network", "tao-price">>,
           t.watches = <<"network", "tao-price">>, t.input = NetworkInput(ExternalPriceCondition)
    PROVE  Suits(CommandOf(t), t)
  <1> DEFINE c == NetworkCommand("tao-price")
  <1>1. CommandOf(t) = c
    <2>1. <<"network", "tao-price">> \in BtNames
      BY DEF BtNames, SubnetNumericNames
    <2>2. QED
      BY <2>1, BtCommandOf DEF BtCommand
  <1>2. /\ c.path = <<"network", "tao-price">> /\ c.params = {}
        /\ c.takes = (Thresholds \cup Deltas \cup {"window-time"}) \cup Common /\ c.shape = "numeric"
        /\ c.reads = {} /\ c.maxNetuid = 65535
        /\ c.defaults = <<>>
    BY DEF NetworkCommand, TaoPrice, OnNetwork, Command
  <1>3. /\ t.input.required = {} \cup {"condition"} /\ t.input.optional = {} \cup CommonFields
        /\ t.input.condition = ExternalPriceCondition
        /\ t.input.maxNetuid = 65535 /\ t.input.finalities = {}
    <2>1. ExternalPriceCondition.kinds # {}
      BY SomeKinds
    <2>2. QED
      BY <2>1 DEF NetworkInput, InputModel
  <1> HIDE DEF c
  <1>4. IdsSuit(c, t)
    BY <1>2, <1>3 DEF IdsSuit, IdFields
  <1>5. ReadsSuit(c, t)
    BY <1>2, <1>3 DEF ReadsSuit, DepthForTrade, SelectorDefaults, @@, :>
  <1>6. OptionsSuit(c, t)
    BY <1>2, <1>3, ConditionsAre
    DEF OptionsSuit, FieldsOf, DepthForTrade, Common, Numeric, Thresholds, Deltas, Windows,
        WindowFields, CommonFields, AlwaysOnChange
  <1>7. ShapeSuits(c, t)
    BY <1>2, <1>3, ConditionsAre
    DEF ShapeSuits, FieldsOf, CommonFields, DepthForTrade, AlwaysOnChange
  <1>8. PlaceSuits(c, t)
    BY <1>2, <1>3 DEF PlaceSuits, DepthForTrade, IdFirst
  <1>9. QED
    BY <1>1, <1>2, <1>4, <1>5, <1>6, <1>7, <1>8 DEF Suits

\* The version of the runtime.
LEMMA RuntimeVersionToolSuits ==
    ASSUME NEW t, t.chain = "bt", t.command = <<"network", "runtime-version">>,
           t.watches = <<"network", "runtime-version">>, t.input = NetworkInput(NoCondition)
    PROVE  Suits(CommandOf(t), t)
  <1> DEFINE c == NetworkCommand("runtime-version")
  <1>1. CommandOf(t) = c
    <2>1. <<"network", "runtime-version">> \in BtNames
      BY DEF BtNames, SubnetNumericNames
    <2>2. QED
      BY <2>1, BtCommandOf DEF BtCommand
  <1>2. /\ c.path = <<"network", "runtime-version">> /\ c.params = {}
        /\ c.takes = {"on-change"} \cup Common /\ c.shape = "change"
        /\ c.reads = {} /\ c.maxNetuid = 65535
        /\ c.defaults = <<>>
    BY DEF NetworkCommand, RuntimeVersion, OnNetwork, Command
  <1>3. /\ t.input.required = {} /\ t.input.optional = {} \cup CommonFields
        /\ t.input.condition = NoCondition
        /\ t.input.maxNetuid = 65535 /\ t.input.finalities = {}
    <2>1. NoCondition.kinds = {}
      BY SomeKinds
    <2>2. QED
      BY <2>1 DEF NetworkInput, InputModel
  <1> HIDE DEF c
  <1>4. IdsSuit(c, t)
    BY <1>2, <1>3 DEF IdsSuit, IdFields
  <1>5. ReadsSuit(c, t)
    BY <1>2, <1>3 DEF ReadsSuit, DepthForTrade, SelectorDefaults, @@, :>
  <1>6. OptionsSuit(c, t)
    BY <1>2, <1>3, ConditionsAre
    DEF OptionsSuit, FieldsOf, DepthForTrade, Common, Numeric, Thresholds, Deltas, Windows,
        WindowFields, CommonFields, AlwaysOnChange
  <1>7. ShapeSuits(c, t)
    BY <1>2, <1>3, ConditionsAre
    DEF ShapeSuits, FieldsOf, CommonFields, DepthForTrade, AlwaysOnChange
  <1>8. PlaceSuits(c, t)
    BY <1>2, <1>3 DEF PlaceSuits, DepthForTrade, IdFirst
  <1>9. QED
    BY <1>1, <1>2, <1>4, <1>5, <1>6, <1>7, <1>8 DEF Suits

\* The number of subnets.
LEMMA SubnetCountToolSuits ==
    ASSUME NEW t, t.chain = "bt", t.command = <<"network", "subnet-count">>,
           t.watches = <<"network", "subnet-count">>, t.input = NetworkInput(PriceCondition)
    PROVE  Suits(CommandOf(t), t)
  <1> DEFINE c == NetworkCommand("subnet-count")
  <1>1. CommandOf(t) = c
    <2>1. <<"network", "subnet-count">> \in BtNames
      BY DEF BtNames, SubnetNumericNames
    <2>2. QED
      BY <2>1, BtCommandOf DEF BtCommand
  <1>2. /\ c.path = <<"network", "subnet-count">> /\ c.params = {}
        /\ c.takes = Numeric \cup Common /\ c.shape = "numeric"
        /\ c.reads = {} /\ c.maxNetuid = 65535
        /\ c.defaults = <<>>
    BY DEF NetworkCommand, SubnetCount, OnNetwork, Command
  <1>3. /\ t.input.required = {} \cup {"condition"} /\ t.input.optional = {} \cup CommonFields
        /\ t.input.condition = PriceCondition
        /\ t.input.maxNetuid = 65535 /\ t.input.finalities = {}
    <2>1. PriceCondition.kinds # {}
      BY SomeKinds
    <2>2. QED
      BY <2>1 DEF NetworkInput, InputModel
  <1> HIDE DEF c
  <1>4. IdsSuit(c, t)
    BY <1>2, <1>3 DEF IdsSuit, IdFields
  <1>5. ReadsSuit(c, t)
    BY <1>2, <1>3 DEF ReadsSuit, DepthForTrade, SelectorDefaults, @@, :>
  <1>6. OptionsSuit(c, t)
    BY <1>2, <1>3, ConditionsAre
    DEF OptionsSuit, FieldsOf, DepthForTrade, Common, Numeric, Thresholds, Deltas, Windows,
        WindowFields, CommonFields, AlwaysOnChange
  <1>7. ShapeSuits(c, t)
    BY <1>2, <1>3, ConditionsAre
    DEF ShapeSuits, FieldsOf, CommonFields, DepthForTrade, AlwaysOnChange
  <1>8. PlaceSuits(c, t)
    BY <1>2, <1>3 DEF PlaceSuits, DepthForTrade, IdFirst
  <1>9. QED
    BY <1>1, <1>2, <1>4, <1>5, <1>6, <1>7, <1>8 DEF Suits

\* An upgrade of the runtime.
LEMMA UpgradeToolSuits ==
    ASSUME NEW t, t.chain = "bt", t.command = <<"network", "on-runtime-upgraded">>,
           t.watches = <<"network", "on-runtime-upgraded">>, t.input = NetworkInput(NoCondition)
    PROVE  Suits(CommandOf(t), t)
  <1> DEFINE c == NetworkCommand("on-runtime-upgraded")
  <1>1. CommandOf(t) = c
    <2>1. <<"network", "on-runtime-upgraded">> \in BtNames
      BY DEF BtNames, SubnetNumericNames
    <2>2. QED
      BY <2>1, BtCommandOf DEF BtCommand
  <1>2. /\ c.path = <<"network", "on-runtime-upgraded">> /\ c.params = {}
        /\ c.takes = {} \cup Common /\ c.shape = "upgrade"
        /\ c.reads = {} /\ c.maxNetuid = 65535
        /\ c.defaults = <<>>
    BY DEF NetworkCommand, RuntimeUpgraded, OnNetwork, Command
  <1>3. /\ t.input.required = {} /\ t.input.optional = {} \cup CommonFields
        /\ t.input.condition = NoCondition
        /\ t.input.maxNetuid = 65535 /\ t.input.finalities = {}
    <2>1. NoCondition.kinds = {}
      BY SomeKinds
    <2>2. QED
      BY <2>1 DEF NetworkInput, InputModel
  <1> HIDE DEF c
  <1>4. IdsSuit(c, t)
    BY <1>2, <1>3 DEF IdsSuit, IdFields
  <1>5. ReadsSuit(c, t)
    BY <1>2, <1>3 DEF ReadsSuit, DepthForTrade, SelectorDefaults, @@, :>
  <1>6. OptionsSuit(c, t)
    BY <1>2, <1>3, ConditionsAre
    DEF OptionsSuit, FieldsOf, DepthForTrade, Common, Numeric, Thresholds, Deltas, Windows,
        WindowFields, CommonFields, AlwaysOnChange
  <1>7. ShapeSuits(c, t)
    BY <1>2, <1>3, ConditionsAre
    DEF ShapeSuits, FieldsOf, CommonFields, DepthForTrade, AlwaysOnChange
  <1>8. PlaceSuits(c, t)
    BY <1>2, <1>3 DEF PlaceSuits, DepthForTrade, IdFirst
  <1>9. QED
    BY <1>1, <1>2, <1>4, <1>5, <1>6, <1>7, <1>8 DEF Suits

\* Any event.
LEMMA EventToolSuits ==
    ASSUME NEW t, t.chain = "bt", t.command = <<"event">>,
           t.watches = <<"event">>, t.input = EventInput
    PROVE  Suits(CommandOf(t), t)
  <1> DEFINE c == EventDefault
  <1>1. CommandOf(t) = c
    <2>1. <<"event">> \in BtNames
      BY DEF BtNames, SubnetNumericNames
    <2>2. QED
      BY <2>1, BtCommandOf DEF BtCommand
  <1>2. /\ c.path = <<"event">> /\ c.params = {}
        /\ c.takes = {"type", "type-raw", "from", "to", "amount-min", "direction", "address"} \cup Common /\ c.shape = "event"
        /\ c.reads = {} /\ c.maxNetuid = 65535
        /\ c.defaults = <<>>
    BY DEF EventDefault, Command
  <1>3. /\ t.input.required = {} /\ t.input.optional = {"event_type", "type_raw", "from_addr", "to_addr", "amount_min", "direction"} \cup CommonFields
        /\ t.input.condition = NoCondition
        /\ t.input.maxNetuid = 65535 /\ t.input.finalities = {}
    <2>1. NoCondition.kinds = {}
      BY SomeKinds
    <2>2. QED
      BY <2>1 DEF EventInput, InputModel
  <1> HIDE DEF c
  <1>4. IdsSuit(c, t)
    BY <1>2, <1>3 DEF IdsSuit, IdFields
  <1>5. ReadsSuit(c, t)
    BY <1>2, <1>3 DEF ReadsSuit, DepthForTrade, SelectorDefaults, @@, :>
  <1>6. OptionsSuit(c, t)
    BY <1>2, <1>3, ConditionsAre
    DEF OptionsSuit, FieldsOf, DepthForTrade, Common, Numeric, Thresholds, Deltas, Windows,
        WindowFields, CommonFields, AlwaysOnChange
  <1>7. ShapeSuits(c, t)
    BY <1>2, <1>3, ConditionsAre
    DEF ShapeSuits, FieldsOf, CommonFields, DepthForTrade, AlwaysOnChange
  <1>8. PlaceSuits(c, t)
    BY <1>2, <1>3 DEF PlaceSuits, DepthForTrade, IdFirst
  <1>9. QED
    BY <1>1, <1>2, <1>4, <1>5, <1>6, <1>7, <1>8 DEF Suits

\* A transaction of Bittensor.
LEMMA TxToolSuits ==
    ASSUME NEW t, t.chain = "bt", t.command = <<"tx">>,
           t.watches = <<"tx">>, t.input = TxInput
    PROVE  Suits(CommandOf(t), t)
  <1> DEFINE c == BtTransaction
  <1>1. CommandOf(t) = c
    <2>1. <<"tx">> \in BtNames
      BY DEF BtNames, SubnetNumericNames
    <2>2. QED
      BY <2>1, BtCommandOf DEF BtCommand
  <1>2. /\ c.path = <<"tx">> /\ c.params = {"tx_hash"}
        /\ c.takes = {"finality"} \cup Common /\ c.shape = "bt_tx"
        /\ c.reads = {} /\ c.maxNetuid = 65535
        /\ c.defaults = <<>>
    BY DEF BtTransaction, Command
  <1>3. /\ t.input.required = {"tx_hash", "finality"} /\ t.input.optional = {} \cup CommonFields
        /\ t.input.condition = NoCondition
        /\ t.input.maxNetuid = 65535 /\ t.input.finalities = {"included", "finalized"}
    <2>1. NoCondition.kinds = {}
      BY SomeKinds
    <2>2. QED
      BY <2>1 DEF TxInput, InputModel
  <1> HIDE DEF c
  <1>4. IdsSuit(c, t)
    BY <1>2, <1>3 DEF IdsSuit, IdFields
  <1>5. ReadsSuit(c, t)
    BY <1>2, <1>3 DEF ReadsSuit, DepthForTrade, SelectorDefaults, @@, :>
  <1>6. OptionsSuit(c, t)
    BY <1>2, <1>3, ConditionsAre
    DEF OptionsSuit, FieldsOf, DepthForTrade, Common, Numeric, Thresholds, Deltas, Windows,
        WindowFields, CommonFields, AlwaysOnChange
  <1>7. ShapeSuits(c, t)
    BY <1>2, <1>3, ConditionsAre
    DEF ShapeSuits, FieldsOf, CommonFields, DepthForTrade, AlwaysOnChange
  <1>8. PlaceSuits(c, t)
    BY <1>2, <1>3 DEF PlaceSuits, DepthForTrade, IdFirst
  <1>9. QED
    BY <1>1, <1>2, <1>4, <1>5, <1>6, <1>7, <1>8 DEF Suits

\* The fees of an EVM chain.
LEMMA EvmFeeToolSuits ==
    ASSUME NEW chain \in EvmChains, NEW fee \in Fees(chain),
           NEW t, t.chain = chain, t.command = <<"network", fee>>,
           t.watches = <<"network", fee>>, t.input = NetworkInput(EvmNumericCondition)
    PROVE  Suits(CommandOf(t), t)
  <1> DEFINE c == EvmFee(fee)
  <1>1. CommandOf(t) = c
    <2>1. <<"network", fee>> \in EvmNames(t.chain)
      BY DEF EvmNames
    <2>2. QED
      BY <2>1, EvmCommandOf DEF EvmCommand
  <1>2. /\ c.path = <<"network", fee>> /\ c.params = {}
        /\ c.takes = (Numeric \ {"window-epochs"}) \cup Common /\ c.shape = "numeric"
        /\ c.reads = {} /\ c.maxNetuid = 65535
        /\ c.defaults = <<>>
    BY DEF EvmFee, OnNetwork, Command
  <1>3. /\ t.input.required = {} \cup {"condition"} /\ t.input.optional = {} \cup CommonFields
        /\ t.input.condition = EvmNumericCondition
        /\ t.input.maxNetuid = 65535 /\ t.input.finalities = {}
    <2>1. EvmNumericCondition.kinds # {}
      BY SomeKinds
    <2>2. QED
      BY <2>1 DEF NetworkInput, InputModel
  <1> HIDE DEF c
  <1>4. IdsSuit(c, t)
    BY <1>2, <1>3 DEF IdsSuit, IdFields
  <1>5. ReadsSuit(c, t)
    BY <1>2, <1>3 DEF ReadsSuit, DepthForTrade, SelectorDefaults, @@, :>
  <1>6. OptionsSuit(c, t)
    BY <1>2, <1>3, ConditionsAre
    DEF OptionsSuit, FieldsOf, DepthForTrade, Common, Numeric, Thresholds, Deltas, Windows,
        WindowFields, CommonFields, AlwaysOnChange, Fees, EvmChains
  <1>7. ShapeSuits(c, t)
    BY <1>2, <1>3, ConditionsAre
    DEF ShapeSuits, FieldsOf, CommonFields, DepthForTrade, AlwaysOnChange
  <1>8. PlaceSuits(c, t)
    BY <1>2, <1>3 DEF PlaceSuits, DepthForTrade, IdFirst
  <1>9. QED
    BY <1>1, <1>2, <1>4, <1>5, <1>6, <1>7, <1>8 DEF Suits

\* The price of a token.
LEMMA EvmTokenToolSuits ==
    ASSUME NEW chain \in EvmChains,
           NEW t, t.chain = chain, t.command = <<"token", "price">>,
           t.watches = <<"token", "price">>, t.input = EvmTokenPriceInput
    PROVE  Suits(CommandOf(t), t)
  <1> DEFINE c == TokenPrice
  <1>1. CommandOf(t) = c
    <2>1. <<"token", "price">> \in EvmNames(t.chain)
      BY DEF EvmNames
    <2>2. QED
      BY <2>1, EvmCommandOf DEF EvmCommand
  <1>2. /\ c.path = <<"token", "price">> /\ c.params = {"token"}
        /\ c.takes = (Thresholds \cup Deltas \cup {"window-time"}) \cup Common /\ c.shape = "numeric"
        /\ c.reads = {} /\ c.maxNetuid = 65535
        /\ c.defaults = <<>>
    BY DEF TokenPrice, Command
  <1>3. /\ t.input.required = {"token"} \cup {"condition"} /\ t.input.optional = {} \cup CommonFields
        /\ t.input.condition = ExternalPriceCondition
        /\ t.input.maxNetuid = 65535 /\ t.input.finalities = {}
    <2>1. ExternalPriceCondition.kinds # {}
      BY SomeKinds
    <2>2. QED
      BY <2>1 DEF EvmTokenPriceInput, InputModel
  <1> HIDE DEF c
  <1>4. IdsSuit(c, t)
    BY <1>2, <1>3 DEF IdsSuit, IdFields
  <1>5. ReadsSuit(c, t)
    BY <1>2, <1>3 DEF ReadsSuit, DepthForTrade, SelectorDefaults, @@, :>
  <1>6. OptionsSuit(c, t)
    BY <1>2, <1>3, ConditionsAre
    DEF OptionsSuit, FieldsOf, DepthForTrade, Common, Numeric, Thresholds, Deltas, Windows,
        WindowFields, CommonFields, AlwaysOnChange
  <1>7. ShapeSuits(c, t)
    BY <1>2, <1>3, ConditionsAre
    DEF ShapeSuits, FieldsOf, CommonFields, DepthForTrade, AlwaysOnChange
  <1>8. PlaceSuits(c, t)
    BY <1>2, <1>3 DEF PlaceSuits, DepthForTrade, IdFirst
  <1>9. QED
    BY <1>1, <1>2, <1>4, <1>5, <1>6, <1>7, <1>8 DEF Suits

\* A transaction of an EVM chain.
LEMMA EvmTxToolSuits ==
    ASSUME NEW chain \in EvmChains,
           NEW t, t.chain = chain, t.command = <<"tx">>,
           t.watches = <<"tx">>, t.input = EvmTxInput(chain)
    PROVE  Suits(CommandOf(t), t)
  <1> DEFINE c == EvmTransaction
  <1>1. CommandOf(t) = c
    <2>1. <<"tx">> \in EvmNames(t.chain)
      BY DEF EvmNames
    <2>2. QED
      BY <2>1, EvmCommandOf DEF EvmCommand
  <1>2. /\ c.path = <<"tx">> /\ c.params = {"tx_hash"}
        /\ c.takes = {"finality", "confirmations"} \cup Common /\ c.shape = "evm_tx"
        /\ c.reads = {} /\ c.maxNetuid = 65535
        /\ c.defaults = <<>>
    BY DEF EvmTransaction, Command
  <1>3. /\ t.input.required = {"tx_hash"} /\ t.input.optional = {"confirmations", "finality"} \cup CommonFields
        /\ t.input.condition = NoCondition
        /\ t.input.maxNetuid = 65535 /\ t.input.finalities = Finalities(chain)
    <2>1. NoCondition.kinds = {}
      BY SomeKinds
    <2>2. QED
      BY <2>1 DEF EvmTxInput, InputModel
  <1> HIDE DEF c
  <1>4. IdsSuit(c, t)
    BY <1>2, <1>3 DEF IdsSuit, IdFields
  <1>5. ReadsSuit(c, t)
    BY <1>2, <1>3 DEF ReadsSuit, DepthForTrade, SelectorDefaults, @@, :>
  <1>6. OptionsSuit(c, t)
    BY <1>2, <1>3, ConditionsAre
    DEF OptionsSuit, FieldsOf, DepthForTrade, Common, Numeric, Thresholds, Deltas, Windows,
        WindowFields, CommonFields, AlwaysOnChange
  <1>7. ShapeSuits(c, t)
    BY <1>2, <1>3, ConditionsAre
    DEF ShapeSuits, FieldsOf, CommonFields, DepthForTrade, AlwaysOnChange
  <1>8. PlaceSuits(c, t)
    BY <1>2, <1>3 DEF PlaceSuits, DepthForTrade, IdFirst
  <1>9. QED
    BY <1>1, <1>2, <1>4, <1>5, <1>6, <1>7, <1>8 DEF Suits

\* Every tool of the server, on every chain.
LEMMA ToolsSuit == \A t \in Tools : Suits(CommandOf(t), t)
  <1> SUFFICES ASSUME NEW t \in Tools PROVE Suits(CommandOf(t), t)
    OBVIOUS
  <1>1. CASE t \in SubnetTools
    BY <1>1, PoolToolSuits, SubnetMetricSuits, DepthToolSuits, RegistrationCostToolSuits,
       HyperparamsToolSuits, SubnetIdentityToolSuits DEF SubnetTools, BtTool, Tool, Plain
  <1>2. CASE t \in ValidatorTools
    BY <1>2, ValidatorAlphaToolSuits, CommissionToolSuits, WeightsToolSuits,
       ChildKeysToolSuits, ValidatorIdentityToolSuits DEF ValidatorTools, BtTool, Tool, Plain
  <1>3. CASE t \in NeuronTools
    BY <1>3, NeuronNumericToolSuits, IncentiveToolSuits, LastUpdateToolSuits, ImmunityToolSuits
       DEF NeuronTools, BtTool, Tool, Plain
  <1>4. CASE t \in AccountTools
    BY <1>4, BalanceToolSuits, ActivityToolSuits DEF AccountTools, BtTool, Tool, Plain
  <1>5. CASE t \in NetworkTools
    BY <1>5, NetworkCostToolSuits, TaoPriceToolSuits, RuntimeVersionToolSuits,
       SubnetCountToolSuits, UpgradeToolSuits DEF NetworkTools, BtTool, Tool, Plain
  <1>6. CASE t \in {EventTool, TxTool}
    BY <1>6, EventToolSuits, TxToolSuits DEF EventTool, TxTool, Plain, BtTool, Tool
  <1>7. CASE t \in UNION {EvmTools(chain) : chain \in EvmChains}
    <2>1. PICK chain \in EvmChains : t \in EvmTools(chain)
      BY <1>7
    <2>2. QED
      BY <2>1, EvmFeeToolSuits, EvmTokenToolSuits, EvmTxToolSuits DEF EvmTools, Tool
  <1>8. QED
    BY <1>1, <1>2, <1>3, <1>4, <1>5, <1>6, <1>7 DEF Tools

-----------------------------------------------------------------------------
(***************************************************************************)
(* The options of the command line of a call, and what its command reads   *)
(* of them, as functions of the arguments.                                 *)
(***************************************************************************)

LEMMA NoValueIsApart ==
    /\ NoValue \notin Int
    /\ NoValue \notin {"in", "out", "included", "finalized", "safe", "--help", "--text"}
  BY RequestAssumption

LEMMA EventFlagsAre ==
    ASSUME NEW a, Null(a, "direction") \/ a["direction"] \in {"in", "out"}
    PROVE  /\ DOMAIN EventFlags(a) \subseteq {"type", "type-raw", "from", "to", "amount-min",
                                              "direction", "address"}
           /\ Carries(a, EventFlags(a), "event_type", "type")
           /\ Carries(a, EventFlags(a), "type_raw", "type-raw")
           /\ Carries(a, EventFlags(a), "from_addr", "from")
           /\ Carries(a, EventFlags(a), "to_addr", "to")
           /\ Carries(a, EventFlags(a), "amount_min", "amount-min")
           /\ Carries(a, EventFlags(a), "direction", "direction")
           /\ "address" \in DOMAIN EventFlags(a) <=> ~Null(a, "direction")
           /\ ~Null(a, "direction") =>
                 EventFlags(a)["address"] = IF a["direction"] = "in" THEN a["to_addr"]
                                                                     ELSE a["from_addr"]
  <1> DEFINE address == CASE Null(a, "direction") -> <<>>
         [] Arg(a, "direction", NoValue) = "in" -> "address" :> a["to_addr"]
         [] Arg(a, "direction", NoValue) = "out" -> "address" :> a["from_addr"]
  <1>1. EventFlags(a) = Filters(a) @@ address
    BY DEF EventFlags, Filters
  <1>2. ~Null(a, "direction") => Arg(a, "direction", NoValue) = a["direction"]
    BY DEF Null, Arg
  <1>3. ASSUME Null(a, "direction") PROVE address = <<>>
    <2>1. Arg(a, "direction", NoValue) = NoValue
      BY <1>3 DEF Null, Arg
    <2>2. NoValue \notin {"in", "out"}
      BY NoValueIsApart
    <2>3. QED
      BY <1>3, <2>1, <2>2
  <1>4. ASSUME ~Null(a, "direction")
        PROVE  address = "address" :> IF a["direction"] = "in" THEN a["to_addr"]
                                                               ELSE a["from_addr"]
    BY <1>2, <1>4
  <1> HIDE DEF address
  <1>5. /\ DOMAIN address = IF Null(a, "direction") THEN {} ELSE {"address"}
        /\ ~Null(a, "direction") =>
              address["address"] = IF a["direction"] = "in" THEN a["to_addr"]
                                                            ELSE a["from_addr"]
    BY <1>3, <1>4, NothingGiven DEF :>
  <1>6. /\ DOMAIN EventFlags(a) = DOMAIN Filters(a) \cup DOMAIN address
        /\ \A f \in DOMAIN Filters(a) : EventFlags(a)[f] = Filters(a)[f]
        /\ \A f \in DOMAIN address \ DOMAIN Filters(a) : EventFlags(a)[f] = address[f]
    BY <1>1 DEF @@
  <1>7. "address" \notin DOMAIN Filters(a)
    BY FiltersAre
  <1>8. DOMAIN EventFlags(a) \subseteq {"type", "type-raw", "from", "to", "amount-min",
                                        "direction", "address"}
    BY <1>5, <1>6, FiltersAre
  <1>9. ASSUME NEW f, NEW flag, flag # "address", Carries(a, Filters(a), f, flag)
        PROVE  Carries(a, EventFlags(a), f, flag)
    BY <1>5, <1>6, <1>9 DEF Carries
  <1>10. QED
    BY <1>5, <1>6, <1>7, <1>8, <1>9, FiltersAre

OwnNames == {"type", "type-raw", "from", "to", "amount-min", "direction", "address", "finality",
             "confirmations", "size", "max-bps", "netuid", "mechid", "silent-for"}
CommonNames == {"rpc-url", "name", "max-runtime", "max-ru"}
Asking == Operators \cup Windows

LEMMA NamesAreApart ==
    /\ OwnNames \cap CommonNames = {} /\ OwnNames \cap Asking = {} /\ CommonNames \cap Asking = {}
  BY DEF OwnNames, CommonNames, Asking, Operators, Windows, Thresholds, Deltas

Plainly(t) == t.command \notin {<<"event">>, <<"tx">>, DepthForTrade}

LEMMA OwnFlagsAre ==
    ASSUME NEW t, NEW a,
           t.command = <<"event">> => Null(a, "direction") \/ a["direction"] \in {"in", "out"}
    PROVE  /\ DOMAIN OwnFlags(t, a) \subseteq OwnNames
           /\ t.command = <<"event">> => OwnFlags(t, a) = EventFlags(a)
           /\ t.command = <<"tx">> => OwnFlags(t, a) = TxFlags(a)
           /\ t.command = DepthForTrade => OwnFlags(t, a) = DepthFlags(a)
           /\ Plainly(t) =>
                 /\ DOMAIN OwnFlags(t, a) \subseteq {"netuid", "mechid", "silent-for"}
                 /\ Carries(a, OwnFlags(t, a), "mechid", "mechid")
                 /\ Carries(a, OwnFlags(t, a), "silent_for", "silent-for")
                 /\ IF t.command[1] = "validator" THEN Carries(a, OwnFlags(t, a), "netuid", "netuid")
                                                  ELSE "netuid" \notin DOMAIN OwnFlags(t, a)
  <1>1. CASE t.command = <<"event">>
    <2>1. OwnFlags(t, a) = EventFlags(a)
      BY <1>1 DEF OwnFlags
    <2>2. QED
      BY <1>1, <2>1, EventFlagsAre DEF OwnNames, Plainly, DepthForTrade
  <1>2. CASE t.command = <<"tx">>
    <2>1. OwnFlags(t, a) = TxFlags(a)
      BY <1>2 DEF OwnFlags, TxFlags
    <2>2. QED
      BY <1>2, <2>1, TxFlagsAre DEF OwnNames, Plainly, DepthForTrade
  <1>3. CASE t.command = DepthForTrade
    <2>1. OwnFlags(t, a) = DepthFlags(a)
      BY <1>3 DEF OwnFlags, DepthFlags, DepthForTrade
    <2>2. QED
      BY <1>3, <2>1, DepthFlagsAre DEF OwnNames, Plainly, DepthForTrade
  <1>4. CASE Plainly(t) /\ t.command[1] = "validator"
    <2>1. OwnFlags(t, a) = ValidatorFlags(a)
      BY <1>4 DEF OwnFlags, ValidatorFlags, DepthForTrade, Plainly
    <2>2. QED
      BY <1>4, <2>1, ValidatorFlagsAre DEF OwnNames, Plainly
  <1>5. CASE Plainly(t) /\ t.command[1] # "validator"
    <2>1. OwnFlags(t, a) = OtherFlags(a)
      BY <1>5 DEF OwnFlags, OtherFlags, DepthForTrade, Plainly
    <2>2. QED
      BY <1>5, <2>1, OtherFlagsAre DEF OwnNames, Plainly
  <1>6. QED
    BY <1>1, <1>2, <1>3, <1>4, <1>5 DEF Plainly

\* The flags of a condition: its kind, and the windows of a move.
LEMMA ConditionFlagsAre ==
    ASSUME NEW c, KnownKind(c)
    PROVE  /\ c.kind \in Operators
           /\ DOMAIN ConditionFlags(c) \subseteq {c.kind} \cup Windows
           /\ c.kind \in DOMAIN ConditionFlags(c)
           /\ c.kind \in Thresholds \cup {"changes-to", "changes-from"} =>
                 DOMAIN ConditionFlags(c) = {c.kind} /\ ConditionFlags(c)[c.kind] = c.value
           /\ c.kind \in Deltas =>
                 /\ ConditionFlags(c)[c.kind] = c.pct
                 /\ Carries(c, ConditionFlags(c), "window_time", "window-time")
                 /\ Carries(c, ConditionFlags(c), "window_blocks", "window-blocks")
                 /\ Carries(c, ConditionFlags(c), "window_epochs", "window-epochs")
           /\ c.kind = "on-change" => DOMAIN ConditionFlags(c) = {"on-change"}
  <1>1. c.kind \in Operators
    BY DEF KnownKind, Operators
  <1>2. CASE c.kind \in Thresholds \cup {"changes-to", "changes-from"}
    <2>1. ConditionFlags(c) = c.kind :> c.value
      BY <1>2 DEF ConditionFlags, Deltas, Thresholds
    <2>2. c.kind \notin Deltas /\ c.kind # "on-change"
      BY <1>2 DEF Deltas, Thresholds
    <2>3. QED
      BY <1>1, <2>1, <2>2 DEF :>
  <1>3. CASE c.kind \in Deltas
    <2>1. ConditionFlags(c) = c.kind :> c.pct @@ WindowFlags(c)
      BY <1>3 DEF ConditionFlags, Deltas, Thresholds
    <2>2. c.kind \notin Windows /\ c.kind \notin Thresholds \cup {"changes-to", "changes-from"}
          /\ c.kind # "on-change"
      BY <1>3 DEF Deltas, Thresholds, Windows
    <2>4. /\ DOMAIN ConditionFlags(c) = {c.kind} \cup DOMAIN WindowFlags(c)
          /\ ConditionFlags(c)[c.kind] = c.pct
          /\ \A f \in DOMAIN WindowFlags(c) \ {c.kind} : ConditionFlags(c)[f] = WindowFlags(c)[f]
      BY <2>1 DEF @@, :>
    <2>5. DOMAIN WindowFlags(c) \subseteq Windows
      BY WindowFlagsAre DEF Windows
    <2>6. ASSUME NEW f, NEW flag \in Windows, Carries(c, WindowFlags(c), f, flag)
          PROVE  Carries(c, ConditionFlags(c), f, flag)
      BY <2>2, <2>4, <2>6 DEF Carries
    <2>7. /\ Carries(c, ConditionFlags(c), "window_time", "window-time")
          /\ Carries(c, ConditionFlags(c), "window_blocks", "window-blocks")
          /\ Carries(c, ConditionFlags(c), "window_epochs", "window-epochs")
      BY <2>6, WindowFlagsAre DEF Windows
    <2>8. QED
      BY <1>1, <2>2, <2>4, <2>5, <2>7
  <1>4. CASE c.kind = "on-change"
    <2>1. ConditionFlags(c) = "on-change" :> TRUE
      BY <1>4 DEF ConditionFlags, Deltas, Thresholds
    <2>2. c.kind \notin Deltas /\ c.kind \notin Thresholds \cup {"changes-to", "changes-from"}
      BY <1>4 DEF Deltas, Thresholds
    <2>3. QED
      BY <1>1, <1>4, <2>1, <2>2 DEF :>
  <1>5. QED
    BY <1>1, <1>2, <1>3, <1>4 DEF Operators

\* The condition's flags, and on-change where the watch has no other condition.
AskedFlags(t, a) ==
    (IF t.command \in AlwaysOnChange THEN "on-change" :> TRUE ELSE <<>>)
    @@ (IF "condition" \in DOMAIN a THEN ConditionFlags(a.condition) ELSE <<>>)

LEMMA AskedFlagsAre ==
    ASSUME NEW t, NEW a, "condition" \in DOMAIN a => KnownKind(a.condition),
           t.command \in AlwaysOnChange => "condition" \notin DOMAIN a
    PROVE  /\ DOMAIN AskedFlags(t, a) \subseteq Asking
           /\ t.command \in AlwaysOnChange => DOMAIN AskedFlags(t, a) = {"on-change"}
           /\ "condition" \in DOMAIN a =>
                 /\ DOMAIN AskedFlags(t, a) = DOMAIN ConditionFlags(a.condition)
                 /\ \A f \in DOMAIN ConditionFlags(a.condition) :
                       AskedFlags(t, a)[f] = ConditionFlags(a.condition)[f]
           /\ t.command \notin AlwaysOnChange /\ "condition" \notin DOMAIN a =>
                 DOMAIN AskedFlags(t, a) = {}
  <1> DEFINE always == IF t.command \in AlwaysOnChange THEN "on-change" :> TRUE ELSE <<>>
             asks == IF "condition" \in DOMAIN a THEN ConditionFlags(a.condition) ELSE <<>>
  <1>1. AskedFlags(t, a) = always @@ asks
    BY DEF AskedFlags
  <1>2. DOMAIN always = IF t.command \in AlwaysOnChange THEN {"on-change"} ELSE {}
    BY NothingGiven DEF :>
  <1>3. DOMAIN asks = IF "condition" \in DOMAIN a THEN DOMAIN ConditionFlags(a.condition) ELSE {}
    BY NothingGiven
  <1>4. "condition" \in DOMAIN a => asks = ConditionFlags(a.condition)
    OBVIOUS
  <1> HIDE DEF always, asks
  <1>5. /\ DOMAIN AskedFlags(t, a) = DOMAIN always \cup DOMAIN asks
        /\ \A f \in DOMAIN asks \ DOMAIN always : AskedFlags(t, a)[f] = asks[f]
    BY <1>1 DEF @@
  <1>6. "condition" \in DOMAIN a => DOMAIN ConditionFlags(a.condition) \subseteq Asking
    BY ConditionFlagsAre DEF Asking
  <1>7. "on-change" \in Asking
    BY DEF Asking, Operators
  <1>8. QED
    BY <1>2, <1>3, <1>4, <1>5, <1>6, <1>7

OptionsOf(t, a) == BuildArgv(t, a).options

\* Options come from the condition, from the tool's own fields or from those that
\* all tools have, and no flag comes from two of them.
LEMMA OptionsAre ==
    ASSUME NEW t, NEW a, DOMAIN AskedFlags(t, a) \subseteq Asking,
           DOMAIN OwnFlags(t, a) \subseteq OwnNames
    PROVE  LET o == OptionsOf(t, a)
           IN /\ DOMAIN o = DOMAIN AskedFlags(t, a) \cup DOMAIN OwnFlags(t, a)
                                                    \cup DOMAIN CommonFlags(a)
              /\ \A f \in DOMAIN AskedFlags(t, a) : o[f] = AskedFlags(t, a)[f]
              /\ \A f \in DOMAIN OwnFlags(t, a) : o[f] = OwnFlags(t, a)[f]
              /\ \A f \in DOMAIN CommonFlags(a) : o[f] = CommonFlags(a)[f]
              /\ DOMAIN CommonFlags(a) \subseteq CommonNames
  <1> DEFINE o == OptionsOf(t, a)
             asked1 == AskedFlags(t, a)
             own == OwnFlags(t, a)
             common == CommonFlags(a)
             both == asked1 @@ own
  <1>1. o = both @@ common
    BY DEF OptionsOf, BuildArgv, AskedFlags
  <1>2. DOMAIN asked1 \subseteq Asking /\ DOMAIN own \subseteq OwnNames
    OBVIOUS
  <1>3. DOMAIN common \subseteq CommonNames
    BY CommonFlagsAre DEF CommonNames
  <1> HIDE DEF o, asked1, own, common
  <1>4. /\ DOMAIN both = DOMAIN asked1 \cup DOMAIN own
        /\ \A f \in DOMAIN asked1 : both[f] = asked1[f]
        /\ \A f \in DOMAIN own \ DOMAIN asked1 : both[f] = own[f]
    BY DEF @@
  <1> HIDE DEF both
  <1>5. /\ DOMAIN o = DOMAIN both \cup DOMAIN common
        /\ \A f \in DOMAIN both : o[f] = both[f]
        /\ \A f \in DOMAIN common \ DOMAIN both : o[f] = common[f]
    BY <1>1 DEF @@
  <1>6. /\ DOMAIN o = DOMAIN asked1 \cup DOMAIN own \cup DOMAIN common
        /\ \A f \in DOMAIN asked1 : o[f] = asked1[f]
        /\ \A f \in DOMAIN own : o[f] = own[f]
        /\ \A f \in DOMAIN common : o[f] = common[f]
    BY <1>2, <1>3, <1>4, <1>5, NamesAreApart
  <1>7. QED
    BY <1>3, <1>6 DEF o, asked1, own, common

IdNames == {"netuid", "hotkey", "coldkey", "token", "tx_hash"}

LEMMA IdFieldsAre == \A command : IdFields(command) \subseteq IdNames
  BY DEF IdFields, IdNames

LEMMA IdNamesAreApart ==
    IdNames \cap (Asking \cup CommonNames \cup (OwnNames \ {"netuid"})) = {}
  BY DEF IdNames, OwnNames, CommonNames, Asking, Operators, Windows, Thresholds, Deltas

ValuesOfCall(t, a) == Values(BuildArgv(t, a))

\* The ids, then the options, then the defaults of the subnet and the mechanism.
LEMMA ValuesAre ==
    ASSUME NEW t, NEW a
    PROVE  LET v == ValuesOfCall(t, a)
               o == OptionsOf(t, a)
               c == CommandOf(t)
           IN /\ DOMAIN v = IdFields(t.command) \cup DOMAIN o \cup DOMAIN c.defaults
              /\ \A f \in IdFields(t.command) : v[f] = a[f]
              /\ \A f \in DOMAIN o \ IdFields(t.command) : v[f] = o[f]
              /\ \A f \in DOMAIN c.defaults \ (IdFields(t.command) \cup DOMAIN o) :
                    v[f] = c.defaults[f]
  <1> DEFINE v == ValuesOfCall(t, a)
             o == OptionsOf(t, a)
             ids == [f \in IdFields(t.command) |-> a[f]]
             typed == ids @@ o
             defaults == CommandOf(t).defaults
  <1>1. v = typed @@ defaults
    BY DEF ValuesOfCall, Values, BuildArgv, OptionsOf, CommandOf
  <1>2. DOMAIN ids = IdFields(t.command) /\ \A f \in IdFields(t.command) : ids[f] = a[f]
    OBVIOUS
  <1> HIDE DEF v, o, ids, defaults
  <1>3. /\ DOMAIN typed = DOMAIN ids \cup DOMAIN o
        /\ \A f \in DOMAIN ids : typed[f] = ids[f]
        /\ \A f \in DOMAIN o \ DOMAIN ids : typed[f] = o[f]
    BY DEF @@
  <1> HIDE DEF typed
  <1>4. /\ DOMAIN v = DOMAIN typed \cup DOMAIN defaults
        /\ \A f \in DOMAIN typed : v[f] = typed[f]
        /\ \A f \in DOMAIN defaults \ DOMAIN typed : v[f] = defaults[f]
    BY <1>1 DEF @@
  <1>5. QED
    BY <1>2, <1>3, <1>4 DEF v, o, defaults

\* What a validated field is.
LEMMA FieldsFit ==
    ASSUME NEW m, NEW a, Validates(m, a)
    PROVE  /\ "netuid" \in DOMAIN a => a["netuid"] \in 0..m.maxNetuid
           /\ "mechid" \in DOMAIN a => a["mechid"] \in 0..15
           /\ "hotkey" \in DOMAIN a => a["hotkey"] # "bad"
           /\ "coldkey" \in DOMAIN a => a["coldkey"] # "bad"
           /\ "tx_hash" \in DOMAIN a => a["tx_hash"] # "bad"
           /\ "from_addr" \in DOMAIN a => a["from_addr"] # "bad"
           /\ "to_addr" \in DOMAIN a => a["to_addr"] # "bad"
           /\ "type_raw" \in DOMAIN a => a["type_raw"] # "bad"
           /\ "event_type" \in DOMAIN a => a["event_type"] \in FriendlyEvents \cup {NoValue}
           /\ "direction" \in DOMAIN a => a["direction"] \in {"in", "out", NoValue}
           /\ "silent_for" \in DOMAIN a =>
                 a["silent_for"] # NoValue /\ PositiveDuration(a["silent_for"])
           /\ "max_runtime" \in DOMAIN a =>
                 (a["max_runtime"] # NoValue => WallClock(a["max_runtime"]))
           /\ "amount_min" \in DOMAIN a => (a["amount_min"] # NoValue => a["amount_min"] >= 0)
           /\ "size" \in DOMAIN a => a["size"] # NoValue /\ Positive(a["size"])
           /\ "max_bps" \in DOMAIN a => a["max_bps"] # NoValue /\ Positive(a["max_bps"])
           /\ "finality" \in DOMAIN a => a["finality"] \in m.finalities
           /\ "confirmations" \in DOMAIN a =>
                 (a["confirmations"] # NoValue => a["confirmations"] \in Int
                                                  /\ a["confirmations"] >= 1)
           /\ "condition" \in DOMAIN a => ConditionFits(m.condition, a["condition"])
  <1>1. \A f \in DOMAIN a : FieldFits(m, f, a[f])
    BY DEF Validates
  <1>2. \A v : FieldFits(m, "netuid", v) => v \in 0..m.maxNetuid
    BY DEF FieldFits
  <1>3. \A v : FieldFits(m, "mechid", v) => v \in 0..15
    BY DEF FieldFits
  <1>4. \A v : \A f \in {"hotkey", "coldkey", "tx_hash"} : FieldFits(m, f, v) => v # "bad"
    BY DEF FieldFits
  <1>5. \A v : \A f \in {"from_addr", "to_addr", "type_raw"} : FieldFits(m, f, v) => v # "bad"
    BY DEF FieldFits
  <1>6. \A v : FieldFits(m, "event_type", v) => v \in FriendlyEvents \cup {NoValue}
    BY DEF FieldFits
  <1>7. \A v : FieldFits(m, "direction", v) => v \in {"in", "out", NoValue}
    BY DEF FieldFits
  <1>8. \A v : FieldFits(m, "silent_for", v) => v # NoValue /\ PositiveDuration(v)
    BY DEF FieldFits
  <1>9. \A v : FieldFits(m, "max_runtime", v) => (v # NoValue => WallClock(v))
    BY DEF FieldFits
  <1>10. \A v : FieldFits(m, "amount_min", v) => (v # NoValue => v >= 0)
    BY DEF FieldFits
  <1>11. \A v : \A f \in {"size", "max_bps"} : FieldFits(m, f, v) => v # NoValue /\ Positive(v)
    BY DEF FieldFits
  <1>12. \A v : FieldFits(m, "finality", v) => v \in m.finalities
    BY DEF FieldFits
  <1>13. \A v : FieldFits(m, "confirmations", v) => (v # NoValue => v \in Int /\ v >= 1)
    BY DEF FieldFits
  <1>14. \A v : FieldFits(m, "condition", v) => ConditionFits(m.condition, v)
    BY DEF FieldFits
  <1>15. QED
    BY <1>1, <1>2, <1>3, <1>4, <1>5, <1>6, <1>7, <1>8, <1>9, <1>10, <1>11, <1>12, <1>13, <1>14

LEMMA DirectionFits ==
    ASSUME NEW m, NEW a, Validates(m, a)
    PROVE  Null(a, "direction") \/ a["direction"] \in {"in", "out"}
  BY FieldsFit DEF Null

\* What a command reads of a call: the flags of its condition, those of the tool's
\* own fields, the subnet and the mechanism if they are left to their defaults, the
\* ids, and the flags that all tools have.
AskedIsRead(t, a) ==
    LET v == ValuesOfCall(t, a)
    IN /\ \A f \in Asking : f \in DOMAIN v <=> f \in DOMAIN AskedFlags(t, a)
       /\ \A f \in DOMAIN AskedFlags(t, a) : v[f] = AskedFlags(t, a)[f]
OwnIsRead(t, a) ==
    LET v == ValuesOfCall(t, a)
    IN /\ DOMAIN OwnFlags(t, a) \subseteq OwnNames
       /\ \A f \in OwnNames \ {"netuid", "mechid"} :
             f \in DOMAIN v <=> f \in DOMAIN OwnFlags(t, a)
       /\ \A f \in DOMAIN OwnFlags(t, a) \ IdFields(t.command) :
             f \in DOMAIN v /\ v[f] = OwnFlags(t, a)[f]
DefaultsAreRead(t, a) ==
    LET v == ValuesOfCall(t, a)
        defaults == CommandOf(t).defaults
    IN \A f \in {"netuid", "mechid"} \ (DOMAIN OwnFlags(t, a) \cup IdFields(t.command)) :
          /\ f \in DOMAIN v <=> f \in DOMAIN defaults
          /\ f \in DOMAIN v => v[f] = defaults[f]
IdsAreRead(t, a) ==
    LET v == ValuesOfCall(t, a)
    IN /\ \A f \in IdFields(t.command) : f \in DOMAIN v /\ v[f] = a[f]
       /\ \A f \in IdNames \ {"netuid"} : f \in DOMAIN v => f \in IdFields(t.command)
CommonIsRead(t, a) ==
    LET v == ValuesOfCall(t, a)
        o == OptionsOf(t, a)
    IN \A f \in CommonNames :
          /\ f \in DOMAIN v <=> f \in DOMAIN CommonFlags(a)
          /\ f \in DOMAIN o <=> f \in DOMAIN CommonFlags(a)
          /\ f \in DOMAIN CommonFlags(a) => v[f] = CommonFlags(a)[f] /\ o[f] = CommonFlags(a)[f]

LEMMA CallValues ==
    ASSUME NEW t \in Tools, NEW a, Builds(t, a)
    PROVE  /\ DOMAIN OptionsOf(t, a) = DOMAIN AskedFlags(t, a) \cup DOMAIN OwnFlags(t, a)
                                                               \cup DOMAIN CommonFlags(a)
           /\ AskedIsRead(t, a) /\ OwnIsRead(t, a) /\ DefaultsAreRead(t, a)
           /\ IdsAreRead(t, a) /\ CommonIsRead(t, a)
  <1> DEFINE c == CommandOf(t)
             o == OptionsOf(t, a)
             v == ValuesOfCall(t, a)
             asks == AskedFlags(t, a)
             own == OwnFlags(t, a)
             common == CommonFlags(a)
             ids == IdFields(t.command)
             defaults == c.defaults
  <1>1. Suits(c, t) /\ Validates(t.input, a)
    BY ToolsSuit DEF Builds
  <1>2. DOMAIN defaults \subseteq {"netuid", "mechid"}
    BY <1>1 DEF Suits, ReadsSuit
  <1>3. "condition" \in DOMAIN a => t.command \notin AlwaysOnChange
    BY <1>1 DEF Suits, OptionsSuit, FieldsOf, Validates
  <1>4. DOMAIN asks \subseteq Asking
    BY <1>3, AskedFlagsAre DEF Builds
  <1>5. DOMAIN own \subseteq OwnNames
    BY <1>1, DirectionFits, OwnFlagsAre
  <1>6. /\ DOMAIN o = DOMAIN asks \cup DOMAIN own \cup DOMAIN common
        /\ \A f \in DOMAIN asks : o[f] = asks[f]
        /\ \A f \in DOMAIN own : o[f] = own[f]
        /\ \A f \in DOMAIN common : o[f] = common[f]
        /\ DOMAIN common \subseteq CommonNames
    BY <1>4, <1>5, OptionsAre
  <1>7. DOMAIN o \subseteq Asking \cup OwnNames \cup CommonNames
    BY <1>4, <1>5, <1>6
  <1>8. /\ DOMAIN v = ids \cup DOMAIN o \cup DOMAIN defaults
        /\ \A f \in ids : v[f] = a[f]
        /\ \A f \in DOMAIN o \ ids : v[f] = o[f]
        /\ \A f \in DOMAIN defaults \ (ids \cup DOMAIN o) : v[f] = defaults[f]
    BY ValuesAre
  <1>9. ids \subseteq IdNames
    BY IdFieldsAre
  <1> HIDE DEF o, v, asks, own, common, ids, defaults, c
  <1>10. {"netuid", "mechid"} \subseteq OwnNames /\ "netuid" \in IdNames /\ "mechid" \notin IdNames
    BY DEF OwnNames, IdNames
  <1>11. /\ \A f \in Asking : f \notin OwnNames /\ f \notin CommonNames /\ f \notin IdNames
         /\ \A f \in CommonNames : f \notin OwnNames /\ f \notin IdNames
         /\ \A f \in OwnNames : f \in IdNames => f = "netuid"
    BY NamesAreApart, IdNamesAreApart
  <1>12. /\ \A f \in Asking : f \in DOMAIN v <=> f \in DOMAIN asks
         /\ \A f \in DOMAIN asks : v[f] = asks[f]
    BY <1>2, <1>4, <1>5, <1>6, <1>8, <1>9, <1>10, <1>11
  <1>13. /\ \A f \in OwnNames \ {"netuid", "mechid"} : f \in DOMAIN v <=> f \in DOMAIN own
         /\ \A f \in DOMAIN own \ ids : f \in DOMAIN v /\ v[f] = own[f]
    BY <1>2, <1>4, <1>5, <1>6, <1>8, <1>9, <1>10, <1>11
  <1>14. \A f \in {"netuid", "mechid"} \ (DOMAIN own \cup ids) :
            /\ f \in DOMAIN v <=> f \in DOMAIN defaults
            /\ f \in DOMAIN v => v[f] = defaults[f]
    BY <1>2, <1>4, <1>5, <1>6, <1>8, <1>9, <1>10, <1>11
  <1>15. /\ \A f \in ids : f \in DOMAIN v /\ v[f] = a[f]
         /\ \A f \in IdNames \ {"netuid"} : f \in DOMAIN v => f \in ids
    BY <1>2, <1>4, <1>5, <1>6, <1>8, <1>9, <1>10, <1>11
  <1>16. \A f \in CommonNames :
            /\ f \in DOMAIN v <=> f \in DOMAIN common
            /\ f \in DOMAIN o <=> f \in DOMAIN common
            /\ f \in DOMAIN common => v[f] = common[f] /\ o[f] = common[f]
    BY <1>2, <1>4, <1>5, <1>6, <1>8, <1>9, <1>10, <1>11
  <1>17. AskedIsRead(t, a)
    BY <1>12 DEF AskedIsRead, v, asks
  <1>18. OwnIsRead(t, a)
    BY <1>5, <1>13 DEF OwnIsRead, v, own, ids
  <1>19. DefaultsAreRead(t, a)
    BY <1>14 DEF DefaultsAreRead, v, own, ids, defaults, c
  <1>20. IdsAreRead(t, a)
    BY <1>15 DEF IdsAreRead, v, ids
  <1>21. CommonIsRead(t, a)
    BY <1>16 DEF CommonIsRead, v, o, common
  <1>22. QED
    BY <1>6, <1>17, <1>18, <1>19, <1>20, <1>21 DEF o, asks, own, common

-----------------------------------------------------------------------------
(***************************************************************************)
(* The condition of a call, resolved by the command.                       *)
(***************************************************************************)

\* What the watch waits for is resolved, and is what the call asks for.
Answers(a, w) == w # Refused /\ SameCondition(a, w)

LEMMA OnlyOne == ASSUME NEW x PROVE Cardinality({x}) = 1 /\ Chosen({x}) = x
  BY FS_Singleton DEF Chosen

LEMMA AtMostOne ==
    ASSUME NEW S, IsFiniteSet(S)
    PROVE  Cardinality(S) <= 1 <=> \A x, y \in S : x = y
  <1>1. CASE S = {}
    BY <1>1, FS_EmptySet
  <1>2. CASE S # {}
    <2>1. PICK x \in S : TRUE
      BY <1>2
    <2>2. ASSUME \A z, y \in S : z = y PROVE Cardinality(S) <= 1
      <3>1. S = {x}
        BY <2>1, <2>2
      <3>2. QED
        BY <3>1, FS_Singleton
    <2>3. ASSUME Cardinality(S) <= 1, NEW y \in S, NEW z \in S PROVE y = z
      <3>1. Cardinality(S) \in Nat /\ Cardinality(S) # 0
        BY <1>2, FS_CardinalityType, FS_EmptySet
      <3>2. Cardinality(S) = 1
        BY <2>3, <3>1
      <3>3. PICK u : S = {u}
        BY <3>2, FS_Singleton
      <3>4. QED
        BY <2>3, <3>3
    <2>4. QED
      BY <2>2, <2>3
  <1>3. QED
    BY <1>1, <1>2

LEMMA ThreeAreFinite == ASSUME NEW x, NEW y, NEW z PROVE IsFiniteSet({x, y, z})
  <1>1. IsFiniteSet({x}) /\ IsFiniteSet({y}) /\ IsFiniteSet({z})
    BY FS_Singleton
  <1>2. IsFiniteSet({x} \cup {y})
    BY <1>1, FS_Union
  <1>3. IsFiniteSet(({x} \cup {y}) \cup {z})
    BY <1>1, <1>2, FS_Union
  <1>4. ({x} \cup {y}) \cup {z} = {x, y, z}
    OBVIOUS
  <1>5. QED
    BY <1>3, <1>4

LEMMA ThresholdResolved ==
    ASSUME NEW v, NEW f, Given(v, Thresholds) = {f}, Finite(v[f])
    PROVE  ResolveThreshold(v) = [primitive |-> "threshold", operator |-> f, target |-> v[f]]
  <1>1. Cardinality({f}) = 1 /\ Chosen({f}) = f
    BY OnlyOne
  <1>2. QED
    BY <1>1 DEF ResolveThreshold

LEMMA DeltaResolved ==
    ASSUME NEW v, NEW f, Given(v, Deltas) = {f}, Positive(v[f]), WindowFits(v)
    PROVE  ResolveDelta(v) = [primitive |-> "delta", operator |-> f, target |-> v[f],
                              window |-> ResolveWindow(v)]
  <1>1. Cardinality({f}) = 1 /\ Chosen({f}) = f
    BY OnlyOne
  <1>2. QED
    BY <1>1 DEF ResolveDelta

\* resolve_window and _window_flags: at most one window, and it is the condition's.
LEMMA WindowResolved ==
    ASSUME NEW c, NEW windows, windows \subseteq WindowFields, MoveFits(c, windows), NEW v,
           Carries(c, v, "window_time", "window-time"),
           Carries(c, v, "window_blocks", "window-blocks"),
           Carries(c, v, "window_epochs", "window-epochs")
    PROVE  WindowFits(v) /\ ResolveWindow(v) = WantedWindow(c)
  <1> DEFINE set == {w \in windows : ~Null(c, w)}
             given == Given(v, Windows)
  <1>1. \A w \in WindowFields : ~Null(c, w) => w \in set
    BY DEF MoveFits, Null, WindowFields
  <1>2. IsFiniteSet(set) /\ IsFiniteSet(given)
    <2>1. IsFiniteSet(WindowFields) /\ IsFiniteSet(Windows)
      BY ThreeAreFinite DEF WindowFields, Windows
    <2>2. set \subseteq WindowFields /\ given \subseteq Windows
      BY DEF Given
    <2>3. QED
      BY <2>1, <2>2, FS_Subset
  <1>3. \A x, y \in set : x = y
    BY <1>2, AtMostOne DEF MoveFits
  <1>4. /\ "window-time" \in given <=> "window_time" \in set
        /\ "window-blocks" \in given <=> "window_blocks" \in set
        /\ "window-epochs" \in given <=> "window_epochs" \in set
    BY <1>1 DEF Carries, Given, Windows, WindowFields
  <1> HIDE DEF set
  <1>5. \A x, y \in given : x = y
    BY <1>3, <1>4 DEF Given, Windows
  <1>6. Cardinality(given) <= 1
    BY <1>2, <1>5, AtMostOne
  <1>7. WindowFits(v)
    BY <1>6 DEF WindowFits, MoveFits, Carries
  <1>8. CASE given = {}
    <2>1. Null(c, "window_time") /\ Null(c, "window_blocks") /\ Null(c, "window_epochs")
      BY <1>8 DEF Carries, Given, Windows
    <2>2. QED
      BY <1>7, <1>8, <2>1 DEF ResolveWindow, WantedWindow
  <1>9. CASE given # {}
    <2>1. PICK f \in given : given = {f}
      BY <1>5, <1>9
    <2>2. Chosen(given) = f
      BY <2>1, OnlyOne
    <2>3. f \in Windows
      BY <2>1 DEF Given
    <2>4. CASE f = "window-time"
      <3>1. ~Null(c, "window_time") /\ v["window-time"] = c["window_time"]
        BY <2>1, <2>4 DEF Carries, Given
      <3>2. Null(c, "window_blocks") /\ Null(c, "window_epochs")
        BY <2>1, <2>4 DEF Carries, Given, Windows
      <3>3. QED
        BY <1>7, <1>9, <2>2, <2>4, <3>1, <3>2 DEF ResolveWindow, WantedWindow
    <2>5. CASE f = "window-blocks"
      <3>1. ~Null(c, "window_blocks") /\ v["window-blocks"] = c["window_blocks"]
        BY <2>1, <2>5 DEF Carries, Given
      <3>2. Null(c, "window_time") /\ Null(c, "window_epochs")
        BY <2>1, <2>5 DEF Carries, Given, Windows
      <3>3. QED
        BY <1>7, <1>9, <2>2, <2>5, <3>1, <3>2 DEF ResolveWindow, WantedWindow
    <2>6. CASE f = "window-epochs"
      <3>1. ~Null(c, "window_epochs") /\ v["window-epochs"] = c["window_epochs"]
        BY <2>1, <2>6 DEF Carries, Given
      <3>2. Null(c, "window_time") /\ Null(c, "window_blocks")
        BY <2>1, <2>6 DEF Carries, Given, Windows
      <3>3. QED
        BY <1>7, <1>9, <2>2, <2>6, <3>1, <3>2 DEF ResolveWindow, WantedWindow
    <2>7. QED
      BY <2>3, <2>4, <2>5, <2>6 DEF Windows
  <1>10. QED
    BY <1>8, <1>9

\* The values that a command reads have the flags of a condition, and no others of
\* their kind.
Asks(c, v) == /\ \A f \in Asking : f \in DOMAIN v <=> f \in DOMAIN ConditionFlags(c)
              /\ \A f \in DOMAIN ConditionFlags(c) : v[f] = ConditionFlags(c)[f]

LEMMA ConditionKinds ==
    ASSUME NEW takes, NEW c, KnownKind(c), ConditionFits(takes, c)
    PROVE  /\ c.kind \in takes.kinds
           /\ c.kind \in Thresholds => Finite(c.value)
           /\ c.kind \in Deltas => MoveFits(c, takes.windows)
           /\ c.kind = "on-change" => DOMAIN c = {"kind"}
           /\ c.kind \in {"changes-to", "changes-from"} =>
                 DOMAIN c = {"kind", "value"} /\ c.value \in 0..1
  <1>1. "kind" \in DOMAIN c
    BY DEF KnownKind, Null
  <1>2. c.kind \in takes.kinds
    BY <1>1 DEF ConditionFits
  <1>3. ASSUME c.kind \in Thresholds PROVE Finite(c.value)
    BY <1>1, <1>3 DEF ConditionFits, Thresholds, Deltas
  <1>4. ASSUME c.kind \in Deltas PROVE MoveFits(c, takes.windows)
    BY <1>1, <1>4 DEF ConditionFits, Thresholds, Deltas
  <1>5. ASSUME c.kind = "on-change" PROVE DOMAIN c = {"kind"}
    BY <1>1, <1>5 DEF ConditionFits, Thresholds, Deltas
  <1>6. ASSUME c.kind \in {"changes-to", "changes-from"}
        PROVE  DOMAIN c = {"kind", "value"} /\ c.value \in 0..1
    BY <1>1, <1>6 DEF ConditionFits, Thresholds, Deltas
  <1>7. QED
    BY <1>2, <1>3, <1>4, <1>5, <1>6

LEMMA ConditionOfCall ==
    ASSUME NEW a, "condition" \in DOMAIN a
    PROVE  Arg(a, "condition", "kind" :> "on-change") = a.condition
  BY DEF Arg

\* A threshold, whichever of the resolvers looks for it.
LEMMA ThresholdAsked ==
    ASSUME NEW takes, NEW a, "condition" \in DOMAIN a, KnownKind(a.condition),
           ConditionFits(takes, a.condition), NEW v, Asks(a.condition, v),
           a.condition.kind \in Thresholds
    PROVE  /\ Answers(a, ResolveThreshold(v))
           /\ Answers(a, ResolveNumeric(v)) /\ Answers(a, ResolvePrice(v))
           /\ Answers(a, ResolveBalance(v))
  <1> DEFINE c == a.condition
             f == c.kind
             w == [primitive |-> "threshold", operator |-> f, target |-> c.value]
  <1>1. f \in Thresholds /\ Finite(c.value)
    BY ConditionKinds
  <1>2. DOMAIN ConditionFlags(c) = {f} /\ ConditionFlags(c)[f] = c.value
    BY ConditionFlagsAre
  <1>3. Asks(c, v)
    OBVIOUS
  <1>4. Arg(a, "condition", "kind" :> "on-change") = c
    BY ConditionOfCall
  <1> HIDE DEF c, f
  <1>5. v[f] = c.value
    BY <1>2, <1>3 DEF Asks
  <1>6. /\ Given(v, Thresholds) = {f} /\ Given(v, Deltas) = {} /\ Given(v, Windows) = {}
        /\ "on-change" \notin DOMAIN v
    BY <1>1, <1>2, <1>3
       DEF Asks, Given, Asking, Operators, Thresholds, Deltas, Windows
  <1>7. ResolveThreshold(v) = w
    BY <1>1, <1>5, <1>6, ThresholdResolved
  <1>8. ResolveNumeric(v) = ResolveThreshold(v) /\ ResolveBalance(v) = ResolveThreshold(v)
    BY <1>6 DEF ResolveNumeric, ResolveBalance
  <1>9. ResolvePrice(v) = ResolveNumeric(v)
    BY <1>6 DEF ResolvePrice
  <1>10. w # Refused /\ w.primitive = "threshold" /\ w.operator = f /\ w.target = c.value
    BY DEF Refused
  <1> HIDE DEF w
  <1>11. SameCondition(a, w)
    BY <1>4, <1>10 DEF SameCondition, f
  <1>12. QED
    BY <1>7, <1>8, <1>9, <1>10, <1>11 DEF Answers

\* A percentage move, with its window.
LEMMA MoveAsked ==
    ASSUME NEW takes, takes.windows \subseteq WindowFields,
           NEW a, "condition" \in DOMAIN a, KnownKind(a.condition),
           ConditionFits(takes, a.condition), NEW v, Asks(a.condition, v),
           a.condition.kind \in Deltas
    PROVE  /\ Answers(a, ResolveNumeric(v)) /\ Answers(a, ResolvePrice(v))
           /\ Answers(a, ResolveBalance(v))
  <1> DEFINE c == a.condition
             f == c.kind
             w == [primitive |-> "delta", operator |-> f, target |-> c.pct,
                   window |-> ResolveWindow(v)]
  <1>1. f \in Deltas /\ MoveFits(c, takes.windows)
    BY ConditionKinds
  <1>2. /\ DOMAIN ConditionFlags(c) \subseteq {f} \cup Windows /\ f \in DOMAIN ConditionFlags(c)
        /\ ConditionFlags(c)[f] = c.pct
        /\ Carries(c, ConditionFlags(c), "window_time", "window-time")
        /\ Carries(c, ConditionFlags(c), "window_blocks", "window-blocks")
        /\ Carries(c, ConditionFlags(c), "window_epochs", "window-epochs")
    BY ConditionFlagsAre
  <1>3. Asks(c, v)
    OBVIOUS
  <1>4. Arg(a, "condition", "kind" :> "on-change") = c
    BY ConditionOfCall
  <1> HIDE DEF c, f
  <1>5. v[f] = c.pct /\ Positive(c.pct)
    BY <1>1, <1>2, <1>3 DEF Asks, MoveFits
  <1>6. /\ Given(v, Deltas) = {f} /\ Given(v, Thresholds) = {}
    BY <1>1, <1>2, <1>3
       DEF Asks, Given, Asking, Operators, Thresholds, Deltas, Windows
  <1>7. /\ Carries(c, v, "window_time", "window-time")
        /\ Carries(c, v, "window_blocks", "window-blocks")
        /\ Carries(c, v, "window_epochs", "window-epochs")
    BY <1>2, <1>3 DEF Asks, Asking, Windows, Carries
  <1>8. WindowFits(v) /\ ResolveWindow(v) = WantedWindow(c)
    BY <1>1, <1>7, WindowResolved
  <1>9. ResolveDelta(v) = w
    BY <1>5, <1>6, <1>8, DeltaResolved
  <1>10. ResolveNumeric(v) = ResolveDelta(v) /\ ResolveBalance(v) = ResolveDelta(v)
    BY <1>6 DEF ResolveNumeric, ResolveBalance
  <1>11. ResolvePrice(v) = ResolveNumeric(v)
    BY <1>6 DEF ResolvePrice
  <1>12. /\ w # Refused /\ w.primitive = "delta" /\ w.operator = f /\ w.target = c.pct
         /\ w.window = WantedWindow(c)
    BY <1>8 DEF Refused
  <1> HIDE DEF w
  <1>13. SameCondition(a, w)
    BY <1>4, <1>12 DEF SameCondition, f
  <1>14. QED
    BY <1>9, <1>10, <1>11, <1>12, <1>13 DEF Answers

\* AnyChange answers a call that asks for a change, or has no condition.
LEMMA AnyChangeAnswers ==
    ASSUME NEW a,
           \/ "condition" \notin DOMAIN a
           \/ /\ "condition" \in DOMAIN a
              /\ a.condition.kind = "on-change" /\ DOMAIN a.condition = {"kind"}
    PROVE  Answers(a, AnyChange)
  <1> DEFINE c == Arg(a, "condition", "kind" :> "on-change")
             w == AnyChange
  <1>1. c.kind = "on-change" /\ DOMAIN c = {"kind"}
    <2>1. CASE "condition" \notin DOMAIN a
      <3>1. c = "kind" :> "on-change"
        BY <2>1 DEF Arg
      <3>2. QED
        BY <3>1 DEF :>
    <2>2. CASE "condition" \in DOMAIN a
      <3>1. c = a.condition
        BY <2>2, ConditionOfCall
      <3> HIDE DEF c
      <3>2. QED
        BY <2>2, <3>1
    <2>3. QED
      BY <2>1, <2>2
  <1>2. w # Refused /\ w.primitive = "state" /\ w.operator = "on-change" /\ w.target = NoValue
    BY DEF AnyChange, Refused
  <1> HIDE DEF c, w
  <1>3. Arg(c, "value", NoValue) = NoValue
    BY <1>1 DEF Arg
  <1>4. SameCondition(a, w)
    BY <1>1, <1>2, <1>3 DEF SameCondition, c
  <1>5. QED
    BY <1>2, <1>4 DEF Answers, w

LEMMA ChangeAsked ==
    ASSUME NEW takes, NEW a, "condition" \in DOMAIN a, KnownKind(a.condition),
           ConditionFits(takes, a.condition), NEW v, Asks(a.condition, v),
           a.condition.kind = "on-change"
    PROVE  /\ Answers(a, ResolveOnChange(v)) /\ Answers(a, ResolveBalance(v))
           /\ Answers(a, ResolveCommission(v))
  <1>1. DOMAIN a.condition = {"kind"}
    BY ConditionKinds
  <1>2. DOMAIN ConditionFlags(a.condition) = {"on-change"}
    BY ConditionFlagsAre
  <1>3. /\ "on-change" \in DOMAIN v /\ Given(v, Deltas) = {}
        /\ Given(v, {"on-change", "changes-to", "changes-from"}) = {"on-change"}
    BY <1>2 DEF Asks, Given, Asking, Operators, Thresholds, Deltas, Windows
  <1>4. Answers(a, AnyChange)
    BY <1>1, AnyChangeAnswers
  <1>5. ResolveOnChange(v) = AnyChange /\ ResolveBalance(v) = AnyChange
    BY <1>3 DEF ResolveOnChange, ResolveBalance
  <1>6. Cardinality({"on-change"}) = 1 /\ Chosen({"on-change"}) = "on-change"
    BY OnlyOne
  <1>7. ResolveCommission(v) = AnyChange
    BY <1>3, <1>6 DEF ResolveCommission
  <1>8. QED
    BY <1>4, <1>5, <1>7

\* A commission that changes to or from a value.
LEMMA CommissionAsked ==
    ASSUME NEW takes, NEW a, "condition" \in DOMAIN a, KnownKind(a.condition),
           ConditionFits(takes, a.condition), NEW v, Asks(a.condition, v),
           a.condition.kind \in {"changes-to", "changes-from"}
    PROVE  Answers(a, ResolveCommission(v))
  <1> DEFINE c == a.condition
             f == c.kind
             w == [primitive |-> "state", operator |-> f, target |-> c.value]
  <1>1. f \in {"changes-to", "changes-from"} /\ c.value \in 0..1 /\ DOMAIN c = {"kind", "value"}
    BY ConditionKinds
  <1>2. DOMAIN ConditionFlags(c) = {f} /\ ConditionFlags(c)[f] = c.value
    BY ConditionFlagsAre
  <1>3. Asks(c, v)
    OBVIOUS
  <1>4. Arg(a, "condition", "kind" :> "on-change") = c
    BY ConditionOfCall
  <1> HIDE DEF c, f
  <1>5. v[f] = c.value
    BY <1>2, <1>3 DEF Asks
  <1>6. Given(v, {"on-change", "changes-to", "changes-from"}) = {f}
    BY <1>1, <1>2, <1>3 DEF Asks, Given, Asking, Operators, Thresholds, Deltas, Windows
  <1>7. Cardinality({f}) = 1 /\ Chosen({f}) = f
    BY OnlyOne
  <1>8. ResolveCommission(v) = w
    BY <1>1, <1>5, <1>6, <1>7 DEF ResolveCommission
  <1>9. w # Refused /\ w.primitive = "state" /\ w.operator = f /\ w.target = c.value
    BY DEF Refused
  <1> HIDE DEF w
  <1>10. Arg(c, "value", NoValue) = c.value
    BY <1>1 DEF Arg
  <1>11. SameCondition(a, w)
    BY <1>4, <1>9, <1>10 DEF SameCondition, f
  <1>12. QED
    BY <1>8, <1>9, <1>11 DEF Answers

\* A flag of the tool's own fields is read as it was given.
LEMMA OwnValue ==
    ASSUME NEW t \in Tools, NEW a, Builds(t, a), NEW flag \in OwnNames \ {"netuid", "mechid"},
           NEW f, Carries(a, OwnFlags(t, a), f, flag)
    PROVE  Carries(a, ValuesOfCall(t, a), f, flag)
  <1>1. flag \notin IdFields(t.command)
    BY IdFieldsAre, IdNamesAreApart
  <1>2. flag \in DOMAIN ValuesOfCall(t, a) <=> flag \in DOMAIN OwnFlags(t, a)
    <2>1. \A g \in OwnNames \ {"netuid", "mechid"} :
             g \in DOMAIN ValuesOfCall(t, a) <=> g \in DOMAIN OwnFlags(t, a)
      BY CallValues DEF OwnIsRead
    <2>2. QED
      BY <2>1
  <1>3. flag \in DOMAIN OwnFlags(t, a) =>
           ValuesOfCall(t, a)[flag] = OwnFlags(t, a)[flag]
    <2>1. \A g \in DOMAIN OwnFlags(t, a) \ IdFields(t.command) :
             g \in DOMAIN ValuesOfCall(t, a) /\ ValuesOfCall(t, a)[g] = OwnFlags(t, a)[g]
      BY CallValues DEF OwnIsRead
    <2>2. QED
      BY <1>1, <2>1
  <1>4. QED
    BY <1>2, <1>3 DEF Carries

LEMMA SilenceAsked ==
    ASSUME NEW t \in Tools, NEW a, Builds(t, a), CommandOf(t).shape = "silence"
    PROVE  Answers(a, ResolveSilence(ValuesOfCall(t, a)))
  <1> DEFINE v == ValuesOfCall(t, a)
             w == [primitive |-> "liveness", silence |-> a["silent_for"]]
  <1>1. Suits(CommandOf(t), t) /\ Validates(t.input, a)
    BY ToolsSuit DEF Builds
  <1>2. Plainly(t) /\ "silent_for" \in t.input.required
    BY <1>1 DEF Suits, PlaceSuits, ShapeSuits, Plainly
  <1>3. "silent_for" \in DOMAIN a
    BY <1>1, <1>2 DEF Validates
  <1>4. a["silent_for"] # NoValue /\ PositiveDuration(a["silent_for"])
    BY <1>1, <1>3, FieldsFit
  <1>5. Carries(a, OwnFlags(t, a), "silent_for", "silent-for")
    BY <1>1, <1>2, DirectionFits, OwnFlagsAre
  <1>6. Carries(a, v, "silent_for", "silent-for")
    BY <1>5, OwnValue DEF OwnNames
  <1> HIDE DEF v
  <1>7. "silent-for" \in DOMAIN v /\ v["silent-for"] = a["silent_for"]
    BY <1>3, <1>4, <1>6 DEF Carries, Null
  <1>8. ResolveSilence(v) = w
    BY <1>4, <1>7 DEF ResolveSilence
  <1>9. w # Refused /\ w.primitive = "liveness" /\ w.silence = a["silent_for"]
    BY DEF Refused
  <1> HIDE DEF w
  <1>10. SameCondition(a, w)
    BY <1>9 DEF SameCondition
  <1>11. QED
    BY <1>8, <1>9, <1>10 DEF Answers, v

\* The size and the slippage of a trade come with the threshold.
LEMMA DepthAsked ==
    ASSUME NEW t \in Tools, NEW a, Builds(t, a), CommandOf(t).shape = "depth",
           Answers(a, ResolveThreshold(ValuesOfCall(t, a)))
    PROVE  Answers(a, ResolveDepth(ValuesOfCall(t, a)))
  <1> DEFINE v == ValuesOfCall(t, a)
  <1>1. Suits(CommandOf(t), t) /\ Validates(t.input, a)
    BY ToolsSuit DEF Builds
  <1>2. t.command = DepthForTrade /\ {"size", "max_bps"} \subseteq t.input.required
    BY <1>1 DEF Suits, ShapeSuits
  <1>3. "size" \in DOMAIN a /\ "max_bps" \in DOMAIN a
    BY <1>1, <1>2 DEF Validates
  <1>4. /\ a["size"] # NoValue /\ Positive(a["size"])
        /\ a["max_bps"] # NoValue /\ Positive(a["max_bps"])
    BY <1>1, <1>3, FieldsFit
  <1>5. OwnFlags(t, a) = DepthFlags(a)
    BY <1>1, <1>2, DirectionFits, OwnFlagsAre
  <1>6. Carries(a, v, "size", "size") /\ Carries(a, v, "max_bps", "max-bps")
    BY <1>5, DepthFlagsAre, OwnValue DEF OwnNames
  <1> HIDE DEF v
  <1>7. /\ "size" \in DOMAIN v /\ v["size"] = a["size"]
        /\ "max-bps" \in DOMAIN v /\ v["max-bps"] = a["max_bps"]
    BY <1>3, <1>4, <1>6 DEF Carries, Null
  <1>8. ResolveDepth(v) = ResolveThreshold(v)
    BY <1>4, <1>7 DEF ResolveDepth
  <1>9. QED
    BY <1>8 DEF v

\* An event passes the filters of the watch exactly if it passes those of the call.
LEMMA EventAsked ==
    ASSUME NEW t \in Tools, NEW a, Builds(t, a), CommandOf(t).shape = "event"
    PROVE  Answers(a, ResolveEvent(ValuesOfCall(t, a)))
  <1> DEFINE v == ValuesOfCall(t, a)
             k == IF Null(a, "type_raw") THEN "type" ELSE "type-raw"
             args == [f \in Given(v, {"from", "to"}) |-> v[f]]
             amount == Arg(v, "amount-min", NoValue)
             direction == Arg(v, "direction", NoValue)
             address == Arg(v, "address", NoValue)
             w == EventFilter(v[k], args, amount, direction, address)
  <1>1. Suits(CommandOf(t), t) /\ Validates(t.input, a)
    BY ToolsSuit DEF Builds
  <1>2. t.command = <<"event">> /\ t.input = EventInput
    BY <1>1 DEF Suits, ShapeSuits
  <1>3. EventFits(a)
    BY <1>1, <1>2 DEF Validates
  <1>4. OwnFlags(t, a) = EventFlags(a)
    BY <1>1, <1>2, DirectionFits, OwnFlagsAre
  <1>5. Null(a, "direction") \/ a["direction"] \in {"in", "out"}
    BY <1>1, DirectionFits
  <1>6. /\ Carries(a, v, "event_type", "type") /\ Carries(a, v, "type_raw", "type-raw")
        /\ Carries(a, v, "from_addr", "from") /\ Carries(a, v, "to_addr", "to")
        /\ Carries(a, v, "amount_min", "amount-min") /\ Carries(a, v, "direction", "direction")
    BY <1>4, <1>5, EventFlagsAre, OwnValue DEF OwnNames
  <1>7. "address" \in OwnNames \ {"netuid", "mechid"} /\ "address" \notin IdFields(t.command)
    BY IdFieldsAre, IdNamesAreApart DEF OwnNames
  <1>8. /\ "address" \in DOMAIN v <=> ~Null(a, "direction")
        /\ ~Null(a, "direction") =>
              v["address"] = IF a["direction"] = "in" THEN a["to_addr"] ELSE a["from_addr"]
    <2>1. \A g \in OwnNames \ {"netuid", "mechid"} : g \in DOMAIN v <=> g \in DOMAIN OwnFlags(t, a)
      BY CallValues DEF OwnIsRead
    <2>2. \A g \in DOMAIN OwnFlags(t, a) \ IdFields(t.command) :
             g \in DOMAIN v /\ v[g] = OwnFlags(t, a)[g]
      BY CallValues DEF OwnIsRead
    <2> HIDE DEF v
    <2>3. /\ "address" \in DOMAIN v <=> "address" \in DOMAIN EventFlags(a)
          /\ "address" \in DOMAIN EventFlags(a) => v["address"] = EventFlags(a)["address"]
      BY <1>4, <1>7, <2>1, <2>2
    <2>4. /\ "address" \in DOMAIN EventFlags(a) <=> ~Null(a, "direction")
          /\ ~Null(a, "direction") =>
               EventFlags(a)["address"] = IF a["direction"] = "in" THEN a["to_addr"]
                                                                   ELSE a["from_addr"]
      BY <1>5, EventFlagsAre
    <2>5. QED
      BY <2>3, <2>4
  <1> HIDE DEF v
  <1>9. Null(a, "event_type") <=> ~Null(a, "type_raw")
    BY <1>3 DEF EventFits
  <1>10. Given(v, {"type", "type-raw"}) = {k}
    BY <1>6, <1>9 DEF Carries, Given
  <1>11. Cardinality({k}) = 1 /\ Chosen({k}) = k
    <2> HIDE DEF k
    <2>1. QED
      BY OnlyOne
  <1>12. /\ ~Null(a, "direction") /\ a["direction"] = "in" => ~Null(a, "to_addr")
         /\ ~Null(a, "direction") /\ a["direction"] = "out" => ~Null(a, "from_addr")
    BY <1>3 DEF EventFits, Arg, Null
  <1>13. /\ ~Null(a, "to_addr") => a["to_addr"] # "bad"
         /\ ~Null(a, "from_addr") => a["from_addr"] # "bad"
         /\ ~Null(a, "type_raw") => a["type_raw"] # "bad"
         /\ ~Null(a, "event_type") => a["event_type"] \in FriendlyEvents
         /\ ~Null(a, "amount_min") => a["amount_min"] >= 0
    BY <1>1, FieldsFit DEF Null
  <1>14. \A f \in Given(v, {"from", "to", "address"}) : v[f] # "bad"
    <2>1. "from" \in DOMAIN v => v["from"] # "bad"
      BY <1>6, <1>13 DEF Carries
    <2>2. "to" \in DOMAIN v => v["to"] # "bad"
      BY <1>6, <1>13 DEF Carries
    <2>3. "address" \in DOMAIN v => v["address"] # "bad"
      BY <1>5, <1>8, <1>12, <1>13
    <2>4. QED
      BY <2>1, <2>2, <2>3 DEF Given
  <1>15. /\ "type-raw" \in DOMAIN v => v["type-raw"] # "bad"
         /\ "type" \in DOMAIN v => v["type"] \in FriendlyEvents
    BY <1>6, <1>13 DEF Carries
  <1>16. Arg(v, "amount-min", 0) >= 0
    <2>1. CASE Null(a, "amount_min")
      BY <1>6, <2>1 DEF Carries, Arg
    <2>2. CASE ~Null(a, "amount_min")
      <3>1. Arg(v, "amount-min", 0) = a["amount_min"]
        BY <1>6, <2>2 DEF Carries, Arg
      <3>2. QED
        BY <1>13, <2>2, <3>1
    <2>3. QED
      BY <2>1, <2>2
  <1>17. "direction" \in DOMAIN v => "address" \in DOMAIN v
    BY <1>6, <1>8 DEF Carries
  <1>18. ResolveEvent(v) = w
    <2>1. "type-raw" \in {k} => v["type-raw"] # "bad"
      BY <1>10, <1>15 DEF Given
    <2>2. "type" \in {k} => v["type"] \in FriendlyEvents
      BY <1>10, <1>15 DEF Given
    <2> HIDE DEF k
    <2>3. QED
      BY <1>10, <1>11, <1>14, <1>16, <1>17, <2>1, <2>2 DEF ResolveEvent
  <1>19. /\ v[k] = IF Null(a, "type_raw") THEN a["event_type"] ELSE a["type_raw"]
         /\ DOMAIN args = Given(v, {"from", "to"})
         /\ ("from" \in DOMAIN args <=> ~Null(a, "from_addr"))
         /\ ("to" \in DOMAIN args <=> ~Null(a, "to_addr"))
         /\ ~Null(a, "from_addr") => args["from"] = a["from_addr"]
         /\ ~Null(a, "to_addr") => args["to"] = a["to_addr"]
    <2>1. v[k] = IF Null(a, "type_raw") THEN a["event_type"] ELSE a["type_raw"]
      <3>1. CASE Null(a, "type_raw")
        BY <1>6, <1>9, <3>1 DEF Carries
      <3>2. CASE ~Null(a, "type_raw")
        BY <1>6, <3>2 DEF Carries
      <3>3. QED
        BY <3>1, <3>2
    <2>2. DOMAIN args = Given(v, {"from", "to"})
      OBVIOUS
    <2>3. \A f \in Given(v, {"from", "to"}) : args[f] = v[f]
      OBVIOUS
    <2> HIDE DEF args
    <2>4. /\ ("from" \in Given(v, {"from", "to"}) <=> "from" \in DOMAIN v)
          /\ ("to" \in Given(v, {"from", "to"}) <=> "to" \in DOMAIN v)
      BY DEF Given
    <2>5. /\ ("from" \in DOMAIN v <=> ~Null(a, "from_addr"))
          /\ ~Null(a, "from_addr") => v["from"] = a["from_addr"]
          /\ ("to" \in DOMAIN v <=> ~Null(a, "to_addr"))
          /\ ~Null(a, "to_addr") => v["to"] = a["to_addr"]
      BY <1>6 DEF Carries
    <2>6. QED
      BY <2>1, <2>2, <2>3, <2>4, <2>5
  <1>20. /\ amount = IF Null(a, "amount_min") THEN NoValue ELSE a["amount_min"]
         /\ direction = IF Null(a, "direction") THEN NoValue ELSE a["direction"]
         /\ ~Null(a, "direction") =>
               address = IF a["direction"] = "in" THEN a["to_addr"] ELSE a["from_addr"]
    BY <1>6, <1>8 DEF Carries, Arg
  <1>21. DOMAIN args \subseteq {"from", "to"}
    BY <1>19 DEF Given
  <1>22. /\ w # Refused /\ w.primitive = "event" /\ w.type = v[k] /\ w.args = args
         /\ w.amountMin = amount /\ w.direction = direction /\ w.address = address
    BY DEF EventFilter, Refused
  <1> HIDE DEF w, args, amount, direction, address, k
  <1>23. ASSUME NEW e \in Events PROVE Passes(w, e) <=> WantsEvent(a, e)
    <2>1. (\A f \in DOMAIN args : e[f] = args[f])
             <=> /\ ~Null(a, "from_addr") => e.from = a["from_addr"]
                 /\ ~Null(a, "to_addr") => e.to = a["to_addr"]
      BY <1>19, <1>21
    <2>2. (amount # NoValue => e.amount >= amount)
             <=> (~Null(a, "amount_min") => e.amount >= a["amount_min"])
      BY <1>20 DEF Null
    <2>3. (~Null(a, "from_addr") => e.from = a["from_addr"])
              /\ (~Null(a, "to_addr") => e.to = a["to_addr"])
          => (direction = "in" => e.to = address) /\ (direction = "out" => e.from = address)
      BY <1>12, <1>20, NoValueIsApart
    <2>4. e.type = Named(w.type)
             <=> e.type = Named(IF Null(a, "type_raw") THEN a["event_type"] ELSE a["type_raw"])
      BY <1>19, <1>22
    <2>5. QED
      BY <1>22, <2>1, <2>2, <2>3, <2>4 DEF Passes, WantsEvent
  <1>24. SameCondition(a, w)
    BY <1>22, <1>23 DEF SameCondition
  <1>25. QED
    BY <1>18, <1>22, <1>24 DEF Answers, v

\* A transaction's finality, and on an EVM chain its confirmations.
LEMMA TxCarried ==
    ASSUME NEW t \in Tools, NEW a, Builds(t, a), t.command = <<"tx">>
    PROVE  /\ Carries(a, ValuesOfCall(t, a), "finality", "finality")
           /\ Carries(a, ValuesOfCall(t, a), "confirmations", "confirmations")
           /\ ValuesOfCall(t, a)["tx_hash"] # "bad"
  <1>1. Suits(CommandOf(t), t) /\ Validates(t.input, a)
    BY ToolsSuit DEF Builds
  <1>2. OwnFlags(t, a) = TxFlags(a)
    BY <1>1, DirectionFits, OwnFlagsAre
  <1>3. "tx_hash" \in DOMAIN a
    BY <1>1 DEF Suits, PlaceSuits, Validates
  <1>4. "tx_hash" \in IdFields(t.command)
    BY DEF IdFields
  <1>5. ValuesOfCall(t, a)["tx_hash"] = a["tx_hash"]
    BY <1>4, CallValues DEF IdsAreRead
  <1>6. QED
    BY <1>1, <1>2, <1>3, <1>5, TxFlagsAre, OwnValue, FieldsFit DEF OwnNames

LEMMA TxAnswers ==
    ASSUME NEW a, NEW finality, NEW confirmations,
           finality = Arg(a, "finality", "included"),
           ~Null(a, "confirmations") => confirmations = a["confirmations"]
    PROVE  Answers(a, TxWait(finality, confirmations))
  <1> DEFINE w == TxWait(finality, confirmations)
  <1>1. /\ w # Refused /\ w.primitive = "tx" /\ w.finality = finality
        /\ w.confirmations = confirmations
    BY DEF TxWait, Refused
  <1> HIDE DEF w
  <1>2. SameCondition(a, w)
    BY <1>1 DEF SameCondition
  <1>3. QED
    BY <1>1, <1>2 DEF Answers, w

LEMMA BtTxAsked ==
    ASSUME NEW t \in Tools, NEW a, Builds(t, a), CommandOf(t).shape = "bt_tx"
    PROVE  Answers(a, ResolveBtTx(ValuesOfCall(t, a)))
  <1> DEFINE v == ValuesOfCall(t, a)
  <1>1. Suits(CommandOf(t), t) /\ Validates(t.input, a)
    BY ToolsSuit DEF Builds
  <1>2. /\ t.command = <<"tx">> /\ "finality" \in t.input.required
        /\ t.input.finalities = {"included", "finalized"}
        /\ "confirmations" \notin FieldsOf(t.input)
    BY <1>1 DEF Suits, ShapeSuits
  <1>3. "finality" \in DOMAIN a /\ "confirmations" \notin DOMAIN a
    BY <1>1, <1>2 DEF Validates, FieldsOf
  <1>4. a["finality"] \in {"included", "finalized"}
    BY <1>1, <1>2, <1>3, FieldsFit
  <1>5. Carries(a, v, "finality", "finality") /\ v["tx_hash"] # "bad"
    BY <1>2, TxCarried
  <1> HIDE DEF v
  <1>6. "finality" \in DOMAIN v /\ v["finality"] = a["finality"]
    BY <1>3, <1>4, <1>5, NoValueIsApart DEF Carries, Null
  <1>7. ResolveBtTx(v) = TxWait(a["finality"], NoValue)
    BY <1>4, <1>5, <1>6 DEF ResolveBtTx, Arg
  <1>8. Answers(a, TxWait(a["finality"], NoValue))
    <2>1. Arg(a, "finality", "included") = a["finality"] /\ Null(a, "confirmations")
      BY <1>3 DEF Arg, Null
    <2>2. QED
      BY <2>1, TxAnswers
  <1>9. QED
    BY <1>7, <1>8 DEF v

LEMMA EvmTxAsked ==
    ASSUME NEW t \in Tools, NEW a, Builds(t, a), CommandOf(t).shape = "evm_tx"
    PROVE  Answers(a, ResolveEvmTx(t.chain, ValuesOfCall(t, a)))
  <1> DEFINE v == ValuesOfCall(t, a)
             finality == Arg(a, "finality", "included")
             confirmations == IF finality = "included" THEN Arg(v, "confirmations", 1) ELSE NoValue
  <1>1. Suits(CommandOf(t), t) /\ Validates(t.input, a)
    BY ToolsSuit DEF Builds
  <1>2. t.command = <<"tx">> /\ t.input.finalities = Finalities(t.chain)
    BY <1>1 DEF Suits, ShapeSuits
  <1>3. /\ Carries(a, v, "finality", "finality")
        /\ Carries(a, v, "confirmations", "confirmations") /\ v["tx_hash"] # "bad"
    BY <1>2, TxCarried
  <1>4. finality \in Finalities(t.chain) /\ Arg(v, "finality", "included") = finality
    <2>1. CASE "finality" \in DOMAIN a
      <3>1. finality = a["finality"] /\ finality \in Finalities(t.chain)
        BY <1>1, <1>2, <2>1, FieldsFit DEF Arg
      <3>2. finality # NoValue
        BY <3>1, NoValueIsApart DEF Finalities
      <3> HIDE DEF v, finality
      <3>3. QED
        BY <1>3, <2>1, <3>1, <3>2 DEF Carries, Null, Arg
    <2>2. CASE "finality" \notin DOMAIN a
      <3>1. finality = "included" /\ "finality" \notin DOMAIN v
        BY <1>3, <2>2 DEF Arg, Carries, Null
      <3>2. "included" \in Finalities(t.chain)
        BY DEF Finalities
      <3> HIDE DEF v, finality
      <3>3. QED
        BY <3>1, <3>2 DEF Arg
    <2>3. QED
      BY <2>1, <2>2
  <1>5. ~Null(a, "confirmations") =>
           a["confirmations"] \in Int /\ a["confirmations"] >= 1 /\ finality = "included"
    BY <1>1, FieldsFit DEF Validates, ConfirmationsFit, Null
  <1> HIDE DEF v, finality
  <1>6. "confirmations" \in DOMAIN v => v["confirmations"] > 0 /\ finality = "included"
    BY <1>3, <1>5 DEF Carries
  <1>7. ResolveEvmTx(t.chain, v) = TxWait(finality, confirmations)
    BY <1>3, <1>4, <1>6 DEF ResolveEvmTx
  <1>8. ~Null(a, "confirmations") => confirmations = a["confirmations"]
    BY <1>3, <1>5 DEF Carries, Arg
  <1> HIDE DEF confirmations
  <1>9. Answers(a, TxWait(finality, confirmations))
    BY <1>8, TxAnswers DEF finality
  <1>10. QED
    BY <1>7, <1>9 DEF v

LEMMA UpgradeAsked ==
    ASSUME NEW a, Null(a, "event_type"), Null(a, "type_raw")
    PROVE  Answers(a, EventFilter("System.CodeUpdated", <<>>, NoValue, NoValue, NoValue))
  <1> DEFINE w == EventFilter("System.CodeUpdated", <<>>, NoValue, NoValue, NoValue)
  <1>1. w # Refused /\ w.primitive = "event"
    BY DEF EventFilter, Refused
  <1> HIDE DEF w
  <1>2. SameCondition(a, w)
    BY <1>1 DEF SameCondition
  <1>3. QED
    BY <1>1, <1>2 DEF Answers, w

\* A tool that always watches for a change has no condition.
LEMMA AlwaysOnChangeHasNone ==
    ASSUME NEW t \in Tools, NEW a, Builds(t, a), t.command \in AlwaysOnChange
    PROVE  "condition" \notin DOMAIN a
  <1>1. Suits(CommandOf(t), t) /\ Validates(t.input, a)
    BY ToolsSuit DEF Builds
  <1>2. "condition" \notin FieldsOf(t.input)
    BY <1>1 DEF Suits, OptionsSuit
  <1>3. QED
    BY <1>1, <1>2 DEF Validates, FieldsOf

LEMMA CallAsks ==
    ASSUME NEW t \in Tools, NEW a, Builds(t, a), "condition" \in DOMAIN a
    PROVE  Asks(a.condition, ValuesOfCall(t, a))
  <1> DEFINE v == ValuesOfCall(t, a)
             c == a.condition
  <1>1. KnownKind(c)
    BY DEF Builds
  <1>2. /\ DOMAIN AskedFlags(t, a) = DOMAIN ConditionFlags(c)
        /\ \A f \in DOMAIN ConditionFlags(c) : AskedFlags(t, a)[f] = ConditionFlags(c)[f]
    <2>1. t.command \in AlwaysOnChange => "condition" \notin DOMAIN a
      BY AlwaysOnChangeHasNone
    <2>2. QED
      BY <1>1, <2>1, AskedFlagsAre
  <1> HIDE DEF c
  <1>3. \A f \in Asking : f \in DOMAIN v <=> f \in DOMAIN AskedFlags(t, a)
    BY CallValues DEF AskedIsRead
  <1>4. \A f \in DOMAIN AskedFlags(t, a) : v[f] = AskedFlags(t, a)[f]
    BY CallValues DEF AskedIsRead
  <1> HIDE DEF v
  <1>5. QED
    BY <1>2, <1>3, <1>4 DEF Asks, v, c

\* The condition of a call that builds one.
LEMMA CallCondition ==
    ASSUME NEW t \in Tools, NEW a, Builds(t, a), "condition" \in t.input.required
    PROVE  /\ "condition" \in DOMAIN a /\ KnownKind(a.condition)
           /\ ConditionFits(t.input.condition, a.condition)
           /\ a.condition.kind \in t.input.condition.kinds
           /\ t.input.condition.windows \subseteq WindowFields
           /\ Asks(a.condition, ValuesOfCall(t, a))
  <1>1. Suits(CommandOf(t), t) /\ Validates(t.input, a)
    BY ToolsSuit DEF Builds
  <1>2. "condition" \in DOMAIN a
    BY <1>1 DEF Validates
  <1>3. KnownKind(a.condition)
    BY <1>2 DEF Builds
  <1>4. ConditionFits(t.input.condition, a.condition)
    BY <1>1, <1>2, FieldsFit
  <1>5. a.condition.kind \in t.input.condition.kinds
    BY <1>3, <1>4, ConditionKinds
  <1>6. t.input.condition.windows \subseteq WindowFields
    BY <1>1 DEF Suits, OptionsSuit
  <1>7. QED
    BY <1>2, <1>3, <1>4, <1>5, <1>6, CallAsks

LEMMA ChangeOfTool ==
    ASSUME NEW t \in Tools, NEW a, Builds(t, a), CommandOf(t).shape = "change"
    PROVE  Answers(a, ResolveOnChange(ValuesOfCall(t, a)))
  <1> DEFINE v == ValuesOfCall(t, a)
  <1>1. Suits(CommandOf(t), t)
    BY ToolsSuit
  <1>2. CASE t.command \in AlwaysOnChange
    <2>1. "condition" \notin DOMAIN a
      BY <1>2, AlwaysOnChangeHasNone
    <2>2. DOMAIN AskedFlags(t, a) = {"on-change"}
      BY <1>2, <2>1, AskedFlagsAre
    <2>3. \A f \in Asking : f \in DOMAIN v <=> f \in DOMAIN AskedFlags(t, a)
      BY CallValues DEF AskedIsRead
    <2> HIDE DEF v
    <2>4. "on-change" \in DOMAIN v
      BY <2>2, <2>3 DEF Asking, Operators
    <2>5. ResolveOnChange(v) = AnyChange
      BY <2>4 DEF ResolveOnChange
    <2>6. QED
      BY <2>1, <2>5, AnyChangeAnswers DEF v
  <1>3. CASE t.command \notin AlwaysOnChange
    <2>1. "condition" \in t.input.required /\ t.input.condition.kinds = {"on-change"}
      BY <1>1, <1>3 DEF Suits, ShapeSuits
    <2>2. a.condition.kind = "on-change"
      BY <2>1, CallCondition
    <2>3. QED
      BY <2>1, <2>2, CallCondition, ChangeAsked
  <1>4. QED
    BY <1>2, <1>3

\* A command resolves the condition that its tool was called with.
LEMMA CallIsResolved ==
    ASSUME NEW t \in Tools, NEW a, Builds(t, a)
    PROVE  Answers(a, Resolved(t.chain, CommandOf(t).shape, ValuesOfCall(t, a)))
  <1> DEFINE v == ValuesOfCall(t, a)
             shape == CommandOf(t).shape
             m == t.input
  <1>1. Suits(CommandOf(t), t) /\ Validates(m, a)
    BY ToolsSuit DEF Builds
  <1>2. ShapeSuits(CommandOf(t), t)
    BY <1>1 DEF Suits
  <1>3. ASSUME "condition" \in m.required
        PROVE  /\ a.condition.kind \in m.condition.kinds
               /\ a.condition.kind \in Thresholds =>
                     /\ Answers(a, ResolveThreshold(v))
                     /\ Answers(a, ResolveNumeric(v)) /\ Answers(a, ResolvePrice(v))
                     /\ Answers(a, ResolveBalance(v))
               /\ a.condition.kind \in Deltas =>
                     /\ Answers(a, ResolveNumeric(v)) /\ Answers(a, ResolvePrice(v))
                     /\ Answers(a, ResolveBalance(v))
               /\ a.condition.kind = "on-change" =>
                     Answers(a, ResolveBalance(v)) /\ Answers(a, ResolveCommission(v))
               /\ a.condition.kind \in {"changes-to", "changes-from"} =>
                     Answers(a, ResolveCommission(v))
    <2>1. a.condition.kind \in m.condition.kinds
      BY <1>3, CallCondition
    <2>2. ASSUME a.condition.kind \in Thresholds
          PROVE  /\ Answers(a, ResolveThreshold(v))
                 /\ Answers(a, ResolveNumeric(v)) /\ Answers(a, ResolvePrice(v))
                 /\ Answers(a, ResolveBalance(v))
      BY <1>3, <2>2, CallCondition, ThresholdAsked
    <2>3. ASSUME a.condition.kind \in Deltas
          PROVE  /\ Answers(a, ResolveNumeric(v)) /\ Answers(a, ResolvePrice(v))
                 /\ Answers(a, ResolveBalance(v))
      BY <1>3, <2>3, CallCondition, MoveAsked
    <2>4. ASSUME a.condition.kind = "on-change"
          PROVE  Answers(a, ResolveBalance(v)) /\ Answers(a, ResolveCommission(v))
      BY <1>3, <2>4, CallCondition, ChangeAsked
    <2>5. ASSUME a.condition.kind \in {"changes-to", "changes-from"}
          PROVE  Answers(a, ResolveCommission(v))
      BY <1>3, <2>5, CallCondition, CommissionAsked
    <2>6. QED
      BY <2>1, <2>2, <2>3, <2>4, <2>5
  <1>4. CASE shape = "threshold"
    <2>1. "condition" \in m.required /\ m.condition.kinds = Thresholds
      BY <1>2, <1>4 DEF ShapeSuits
    <2>2. Answers(a, ResolveThreshold(v))
      BY <1>3, <2>1
    <2>3. QED
      BY <1>4, <2>2 DEF Resolved
  <1>5. CASE shape = "numeric"
    <2>1. "condition" \in m.required /\ m.condition.kinds = Thresholds \cup Deltas
      BY <1>2, <1>5 DEF ShapeSuits
    <2>2. Answers(a, ResolveNumeric(v))
      BY <1>3, <2>1
    <2>3. QED
      BY <1>5, <2>2 DEF Resolved
  <1>6. CASE shape = "price"
    <2>1. "condition" \in m.required /\ m.condition.kinds = Thresholds \cup Deltas
      BY <1>2, <1>6 DEF ShapeSuits
    <2>2. Answers(a, ResolvePrice(v))
      BY <1>3, <2>1
    <2>3. QED
      BY <1>6, <2>2 DEF Resolved
  <1>7. CASE shape = "balance"
    <2>1. /\ "condition" \in m.required
          /\ m.condition.kinds = Thresholds \cup Deltas \cup {"on-change"}
      BY <1>2, <1>7 DEF ShapeSuits
    <2>2. Answers(a, ResolveBalance(v))
      BY <1>3, <2>1
    <2>3. QED
      BY <1>7, <2>2 DEF Resolved
  <1>8. CASE shape = "commission"
    <2>1. /\ "condition" \in m.required
          /\ m.condition.kinds = {"on-change", "changes-to", "changes-from"}
      BY <1>2, <1>8 DEF ShapeSuits
    <2>2. Answers(a, ResolveCommission(v))
      BY <1>3, <2>1
    <2>3. QED
      BY <1>8, <2>2 DEF Resolved
  <1>9. CASE shape = "change"
    BY <1>9, ChangeOfTool DEF Resolved
  <1>10. CASE shape = "silence"
    BY <1>10, SilenceAsked DEF Resolved
  <1>11. CASE shape = "depth"
    <2>1. "condition" \in m.required /\ m.condition.kinds = Thresholds
      BY <1>2, <1>11 DEF ShapeSuits
    <2>2. Answers(a, ResolveThreshold(v))
      BY <1>3, <2>1
    <2>3. Answers(a, ResolveDepth(v))
      BY <1>11, <2>2, DepthAsked
    <2>4. QED
      BY <1>11, <2>3 DEF Resolved
  <1>12. CASE shape = "event"
    BY <1>12, EventAsked DEF Resolved
  <1>13. CASE shape = "upgrade"
    <2>1. {"event_type", "type_raw"} \cap FieldsOf(m) = {}
      BY <1>2, <1>13 DEF ShapeSuits
    <2>2. DOMAIN a \subseteq FieldsOf(m)
      BY <1>1 DEF Validates, FieldsOf
    <2>3. Null(a, "event_type") /\ Null(a, "type_raw")
      BY <2>1, <2>2 DEF Null
    <2>4. QED
      BY <1>13, <2>3, UpgradeAsked DEF Resolved
  <1>14. CASE shape = "bt_tx"
    BY <1>14, BtTxAsked DEF Resolved
  <1>15. CASE shape = "evm_tx"
    BY <1>15, EvmTxAsked DEF Resolved
  <1>16. QED
    BY <1>2, <1>4, <1>5, <1>6, <1>7, <1>8, <1>9, <1>10, <1>11, <1>12, <1>13, <1>14, <1>15
       DEF ShapeSuits

\* A flag that all tools have.
LEMMA CommonValue ==
    ASSUME NEW t \in Tools, NEW a, Builds(t, a), NEW flag \in CommonNames,
           NEW f, Carries(a, CommonFlags(a), f, flag)
    PROVE  Carries(a, ValuesOfCall(t, a), f, flag) /\ Carries(a, OptionsOf(t, a), f, flag)
  <1>1. /\ flag \in DOMAIN ValuesOfCall(t, a) <=> flag \in DOMAIN CommonFlags(a)
        /\ flag \in DOMAIN OptionsOf(t, a) <=> flag \in DOMAIN CommonFlags(a)
        /\ flag \in DOMAIN CommonFlags(a) =>
              /\ ValuesOfCall(t, a)[flag] = CommonFlags(a)[flag]
              /\ OptionsOf(t, a)[flag] = CommonFlags(a)[flag]
    BY CallValues DEF CommonIsRead
  <1>2. QED
    BY <1>1 DEF Carries

LEMMA CommonValues ==
    ASSUME NEW t \in Tools, NEW a, Builds(t, a)
    PROVE  LET v == ValuesOfCall(t, a)
           IN /\ Carries(a, v, "name", "name") /\ Carries(a, OptionsOf(t, a), "name", "name")
              /\ Carries(a, v, "rpc_url", "rpc-url")
              /\ Carries(a, OptionsOf(t, a), "rpc_url", "rpc-url")
              /\ Carries(a, v, "max_runtime", "max-runtime")
              /\ Carries(a, v, "max_ru", "max-ru")
  <1>1. {"name", "rpc-url", "max-runtime", "max-ru"} \subseteq CommonNames
    BY DEF CommonNames
  <1>2. QED
    BY <1>1, CommonFlagsAre, CommonValue

\* A field that may be null, and the flag that carries it.
LEMMA CarriedOrNull ==
    ASSUME NEW a, NEW v, NEW f, NEW flag, Carries(a, v, f, flag)
    PROVE  /\ Arg(v, flag, NoValue) = Arg(a, f, NoValue)
           /\ \A default : Arg(v, flag, default) = IF Null(a, f) THEN default ELSE a[f]
  BY DEF Carries, Arg, Null

\* The subnet and the mechanism: from the ids, from an option or by default.
LEMMA SelectorsAreRead ==
    ASSUME NEW t \in Tools, NEW a, Builds(t, a), Plainly(t), NEW p \in {"netuid", "mechid"},
           p = "netuid" => t.command[1] = "validator"
    PROVE  LET v == ValuesOfCall(t, a)
           IN /\ ~Null(a, p) => p \in DOMAIN v /\ v[p] = a[p]
              /\ Null(a, p) => /\ p \in DOMAIN v <=> p \in DOMAIN CommandOf(t).defaults
                               /\ p \in DOMAIN v => v[p] = SelectorDefaults[p]
  <1> DEFINE v == ValuesOfCall(t, a)
             own == OwnFlags(t, a)
             ids == IdFields(t.command)
             defaults == CommandOf(t).defaults
  <1>1. Suits(CommandOf(t), t)
    BY ToolsSuit
  <1>2. \A q \in DOMAIN defaults : defaults[q] = SelectorDefaults[q]
    BY <1>1 DEF Suits, ReadsSuit
  <1>3. t.command # <<"event">>
    BY DEF Plainly
  <1>4. Carries(a, own, p, p)
    BY <1>3, OwnFlagsAre
  <1>5. p \notin ids
    <2>1. CASE p = "netuid"
      BY <2>1 DEF IdFields
    <2>2. CASE p = "mechid"
      BY <2>2, IdFieldsAre DEF IdNames
    <2>3. QED
      BY <2>1, <2>2
  <1>6. p \in DOMAIN own => p \in DOMAIN v /\ v[p] = own[p]
    <2>1. \A q \in DOMAIN own \ ids : q \in DOMAIN v /\ v[q] = own[q]
      BY CallValues DEF OwnIsRead
    <2> HIDE DEF own, ids, v
    <2>2. QED
      BY <1>5, <2>1
  <1>7. p \notin DOMAIN own => /\ p \in DOMAIN v <=> p \in DOMAIN defaults
                               /\ p \in DOMAIN v => v[p] = defaults[p]
    <2>1. \A q \in {"netuid", "mechid"} \ (DOMAIN own \cup ids) :
             /\ q \in DOMAIN v <=> q \in DOMAIN defaults
             /\ q \in DOMAIN v => v[q] = defaults[q]
      BY CallValues DEF DefaultsAreRead
    <2> HIDE DEF own, ids, v, defaults
    <2>2. QED
      BY <1>5, <2>1
  <1> HIDE DEF v, own, defaults
  <1>8. QED
    BY <1>2, <1>4, <1>6, <1>7 DEF Carries, v, defaults

\* Where a validator's command can be found.
LEMMA ValidatorsArePlain ==
    ASSUME NEW t, t.command[1] = "validator" PROVE Plainly(t)
  BY DEF Plainly, DepthForTrade

\* The ids of the watched thing.
LEMMA CallParams ==
    ASSUME NEW t \in Tools, NEW a, Builds(t, a)
    PROVE  \A p \in CommandOf(t).params : /\ p \in DOMAIN ValuesOfCall(t, a)
                                          /\ ValuesOfCall(t, a)[p] = a[p]
  <1> DEFINE v == ValuesOfCall(t, a)
  <1>1. Suits(CommandOf(t), t) /\ Validates(t.input, a)
    BY ToolsSuit DEF Builds
  <1>2. ASSUME NEW p \in CommandOf(t).params PROVE p \in DOMAIN v /\ v[p] = a[p]
    <2>1. CASE p \in IdFields(t.command)
      BY <2>1, CallValues DEF IdsAreRead
    <2>2. CASE p \notin IdFields(t.command)
      <3>1. p = "netuid" /\ t.command[1] = "validator"
        BY <1>1, <2>2 DEF Suits, IdsSuit
      <3>2. p \in DOMAIN a
        BY <1>1 DEF Suits, IdsSuit, Validates
      <3>3. a["netuid"] \in Int
        BY <1>1, <3>1, <3>2, FieldsFit DEF Suits, IdsSuit
      <3>4. ~Null(a, "netuid")
        BY <3>1, <3>2, <3>3, NoValueIsApart DEF Null
      <3>5. QED
        BY <3>1, <3>4, ValidatorsArePlain, SelectorsAreRead
    <2>3. QED
      BY <2>1, <2>2
  <1>3. QED
    BY <1>2

\* What the provider reads beside the ids.
LEMMA CallReads ==
    ASSUME NEW t \in Tools, NEW a, Builds(t, a)
    PROVE  \A p \in CommandOf(t).reads :
              ValuesOfCall(t, a)[p] =
                 IF Null(a, Field(p)) THEN SelectorDefaults[p] ELSE a[Field(p)]
  <1> DEFINE v == ValuesOfCall(t, a)
             c == CommandOf(t)
  <1>1. Suits(c, t) /\ Validates(t.input, a)
    BY ToolsSuit DEF Builds
  <1>2. CASE t.command = DepthForTrade /\ c.reads = {"size", "max-bps"}
             /\ {"size", "max_bps"} \subseteq t.input.required
    <2>1. OwnFlags(t, a) = DepthFlags(a)
      BY <1>2, <1>1, DirectionFits, OwnFlagsAre
    <2>2. Carries(a, v, "size", "size") /\ Carries(a, v, "max_bps", "max-bps")
      BY <2>1, DepthFlagsAre, OwnValue DEF OwnNames
    <2>3. ~Null(a, "size") /\ ~Null(a, "max_bps")
      BY <1>1, <1>2, FieldsFit DEF Validates, Null
    <2>4. Field("size") = "size" /\ Field("max-bps") = "max_bps"
      BY DEF Field
    <2> HIDE DEF v
    <2>5. QED
      BY <1>2, <2>2, <2>3, <2>4 DEF Carries, v
  <1>3. CASE /\ c.reads \subseteq {"netuid", "mechid"}
             /\ c.reads # {} => t.command \notin {<<"event">>, <<"tx">>, DepthForTrade}
             /\ "netuid" \in c.reads => t.command[1] = "validator"
    <2>1. ASSUME NEW p \in c.reads
          PROVE  v[p] = IF Null(a, Field(p)) THEN SelectorDefaults[p] ELSE a[Field(p)]
      <3>1. p \in {"netuid", "mechid"} /\ Plainly(t)
        BY <1>3 DEF Plainly
      <3>2. Field(p) = p
        BY <3>1 DEF Field
      <3>3. p \in DOMAIN c.defaults
        BY <1>1, <3>1 DEF Suits, ReadsSuit
      <3>4. QED
        BY <1>3, <3>1, <3>2, <3>3, SelectorsAreRead
    <2>2. QED
      BY <2>1
  <1>4. QED
    BY <1>1, <1>2, <1>3 DEF Suits, ReadsSuit

\* The watch of a call is the one that was asked for.
LEMMA CallIsWatched ==
    ASSUME NEW t \in Tools, NEW a, Builds(t, a), NEW w,
           w = Dispatched(BuildArgv(t, a), CommandOf(t), ValuesOfCall(t, a))
    PROVE  /\ w.chain = t.chain /\ w.path = t.watches
           /\ \A p \in DOMAIN w.params : w.params[p] = a[p]
           /\ \A p \in DOMAIN w.reads :
                 w.reads[p] = IF Null(a, Field(p)) THEN SelectorDefaults[p] ELSE a[Field(p)]
           /\ SameCondition(a, w.condition)
           /\ w.name = Arg(a, "name", NoValue)
           /\ w.maxRuntime = Arg(a, "max_runtime", NoValue)
           /\ w.maxRu = Arg(a, "max_ru", NoValue)
           /\ w.rpc = IF Null(a, "rpc_url") THEN "default" ELSE a["rpc_url"]
  <1> DEFINE v == ValuesOfCall(t, a)
             c == CommandOf(t)
             l == BuildArgv(t, a)
             condition == Resolved(t.chain, c.shape, v)
  <1>1. c.path = t.watches
    BY ToolsSuit DEF Suits
  <1>2. l.chain = t.chain
    BY DEF BuildArgv
  <1>3. \A p \in c.params : v[p] = a[p]
    BY CallParams
  <1>4. \A p \in c.reads : v[p] = IF Null(a, Field(p)) THEN SelectorDefaults[p] ELSE a[Field(p)]
    BY CallReads
  <1>5. SameCondition(a, condition)
    BY CallIsResolved DEF Answers
  <1>6. /\ Arg(v, "name", NoValue) = Arg(a, "name", NoValue)
        /\ Arg(v, "max-runtime", NoValue) = Arg(a, "max_runtime", NoValue)
        /\ Arg(v, "max-ru", NoValue) = Arg(a, "max_ru", NoValue)
    BY CommonValues, CarriedOrNull
  <1>7. Arg(v, "rpc-url", "default") = IF Null(a, "rpc_url") THEN "default" ELSE a["rpc_url"]
    BY CommonValues, CarriedOrNull
  <1> HIDE DEF v, c, l, condition
  <1>8. w = Dispatched(l, c, v)
    BY DEF l, c, v
  <1>9. condition = Resolved(l.chain, c.shape, v)
    BY <1>2 DEF condition
  <1>10. /\ w.chain = l.chain /\ w.path = c.path /\ w.condition = condition
         /\ w.params = [p \in c.params |-> v[p]] /\ w.reads = [p \in c.reads |-> v[p]]
         /\ w.name = Arg(v, "name", NoValue) /\ w.rpc = Arg(v, "rpc-url", "default")
         /\ w.maxRuntime = Arg(v, "max-runtime", NoValue) /\ w.maxRu = Arg(v, "max-ru", NoValue)
    BY <1>8, <1>9 DEF Dispatched
  <1>11. QED
    BY <1>1, <1>2, <1>3, <1>4, <1>5, <1>6, <1>7, <1>10

\* A call that is accepted is taken by its command: every flag is one of its
\* options, and every value fits.
LEMMA AskedIsTaken ==
    ASSUME NEW t \in Tools, NEW a, Builds(t, a)
    PROVE  DOMAIN AskedFlags(t, a) \subseteq CommandOf(t).takes
  <1> DEFINE takes == CommandOf(t).takes
             kinds == t.input.condition
             c == a.condition
  <1>1. Suits(CommandOf(t), t) /\ Validates(t.input, a)
    BY ToolsSuit DEF Builds
  <1>2. OptionsSuit(CommandOf(t), t)
    BY <1>1 DEF Suits
  <1>3. CASE t.command \in AlwaysOnChange
    <2>1. DOMAIN AskedFlags(t, a) = {"on-change"}
      BY <1>3, AlwaysOnChangeHasNone, AskedFlagsAre
    <2>2. QED
      BY <1>2, <1>3, <2>1 DEF OptionsSuit
  <1>4. CASE "condition" \in DOMAIN a
    <2>1. KnownKind(c) /\ ConditionFits(kinds, c)
      BY <1>1, <1>4, FieldsFit DEF Builds
    <2>2. t.command \notin AlwaysOnChange
      BY <1>4, AlwaysOnChangeHasNone
    <2>3. DOMAIN AskedFlags(t, a) = DOMAIN ConditionFlags(c)
      BY <1>4, <2>1, <2>2, AskedFlagsAre
    <2>4. c.kind \in kinds.kinds
      BY <2>1, ConditionKinds
    <2>5. c.kind \in takes
      BY <1>2, <2>4 DEF OptionsSuit
    <2>6. CASE c.kind \in Deltas
      <3>1. MoveFits(c, kinds.windows)
        BY <2>1, <2>6, ConditionKinds
      <3>2. \A f \in WindowFields : ~Null(c, f) => f \in kinds.windows
        BY <3>1 DEF MoveFits, Null, WindowFields
      <3>3. /\ "window-time" \in DOMAIN ConditionFlags(c) <=> ~Null(c, "window_time")
            /\ "window-blocks" \in DOMAIN ConditionFlags(c) <=> ~Null(c, "window_blocks")
            /\ "window-epochs" \in DOMAIN ConditionFlags(c) <=> ~Null(c, "window_epochs")
        BY <2>1, <2>6, ConditionFlagsAre DEF Carries
      <3>4. /\ "window_time" \in kinds.windows => "window-time" \in takes
            /\ "window_blocks" \in kinds.windows => "window-blocks" \in takes
            /\ "window_epochs" \in kinds.windows => "window-epochs" \in takes
        BY <1>2 DEF OptionsSuit
      <3>5. DOMAIN ConditionFlags(c) \subseteq {c.kind} \cup Windows
        BY <2>1, ConditionFlagsAre
      <3> HIDE DEF takes, kinds, c
      <3>6. QED
        BY <2>3, <2>5, <3>2, <3>3, <3>4, <3>5 DEF Windows, WindowFields, takes
    <2>7. CASE c.kind \notin Deltas
      <3>1. DOMAIN ConditionFlags(c) = {c.kind}
        BY <2>1, <2>7, ConditionFlagsAre DEF KnownKind
      <3>2. QED
        BY <2>3, <2>5, <3>1
    <2>8. QED
      BY <2>6, <2>7
  <1>5. CASE t.command \notin AlwaysOnChange /\ "condition" \notin DOMAIN a
    <2>1. DOMAIN AskedFlags(t, a) = {}
      BY <1>5, AskedFlagsAre
    <2>2. QED
      BY <2>1
  <1>6. QED
    BY <1>3, <1>4, <1>5

LEMMA OwnIsTaken ==
    ASSUME NEW t \in Tools, NEW a, Builds(t, a)
    PROVE  DOMAIN OwnFlags(t, a) \subseteq CommandOf(t).takes
  <1> DEFINE takes == CommandOf(t).takes
             own == OwnFlags(t, a)
  <1>1. Suits(CommandOf(t), t) /\ Validates(t.input, a)
    BY ToolsSuit DEF Builds
  <1>2. OptionsSuit(CommandOf(t), t)
    BY <1>1 DEF Suits
  <1>3. \A f : ~Null(a, f) => f \in FieldsOf(t.input)
    BY <1>1 DEF Validates, Null, FieldsOf
  <1>4. Null(a, "direction") \/ a["direction"] \in {"in", "out"}
    BY <1>1, DirectionFits
  <1>5. CASE t.command = <<"event">>
    BY <1>2, <1>4, <1>5, OwnFlagsAre, EventFlagsAre DEF OptionsSuit
  <1>6. CASE t.command = <<"tx">>
    <2>1. own = TxFlags(a)
      BY <1>6, <1>4, OwnFlagsAre
    <2>2. /\ DOMAIN own \subseteq {"finality", "confirmations"}
          /\ "confirmations" \in DOMAIN own <=> ~Null(a, "confirmations")
      BY <2>1, TxFlagsAre DEF Carries
    <2>3. QED
      BY <1>2, <1>3, <1>6, <2>2 DEF OptionsSuit
  <1>7. CASE t.command = DepthForTrade
    <2>1. own = DepthFlags(a)
      BY <1>7, <1>4, OwnFlagsAre
    <2>2. DOMAIN own \subseteq {"size", "max-bps"}
      BY <2>1, DepthFlagsAre
    <2>3. QED
      BY <1>2, <1>7, <2>2 DEF OptionsSuit
  <1>8. CASE Plainly(t)
    <2>1. /\ DOMAIN own \subseteq {"netuid", "mechid", "silent-for"}
          /\ "mechid" \in DOMAIN own <=> ~Null(a, "mechid")
          /\ "silent-for" \in DOMAIN own <=> ~Null(a, "silent_for")
          /\ "netuid" \in DOMAIN own => t.command[1] = "validator" /\ ~Null(a, "netuid")
      BY <1>4, <1>8, OwnFlagsAre DEF Carries
    <2>2. /\ "mechid" \in FieldsOf(t.input) => "mechid" \in takes
          /\ "silent_for" \in FieldsOf(t.input) => "silent-for" \in takes
          /\ "netuid" \in FieldsOf(t.input) /\ t.command[1] = "validator" => "netuid" \in takes
      BY <1>2 DEF OptionsSuit
    <2> HIDE DEF takes, own
    <2>3. DOMAIN own \subseteq takes
      BY <1>3, <2>1, <2>2
    <2>4. QED
      BY <2>3 DEF takes, own
  <1>9. QED
    BY <1>5, <1>6, <1>7, <1>8 DEF Plainly

LEMMA CallIsTaken ==
    ASSUME NEW t \in Tools, NEW a, Builds(t, a)
    PROVE  Takes(CommandOf(t), BuildArgv(t, a))
  <1>1. CommonNames \subseteq CommandOf(t).takes
    BY ToolsSuit DEF Suits, OptionsSuit, CommonNames, Common
  <1>2. DOMAIN CommonFlags(a) \subseteq CommonNames
    BY CommonFlagsAre DEF CommonNames
  <1>3. DOMAIN OptionsOf(t, a) \subseteq CommandOf(t).takes
    <2>1. DOMAIN OptionsOf(t, a) = DOMAIN AskedFlags(t, a) \cup DOMAIN OwnFlags(t, a)
                                                           \cup DOMAIN CommonFlags(a)
      BY CallValues
    <2>2. DOMAIN AskedFlags(t, a) \subseteq CommandOf(t).takes
      BY AskedIsTaken
    <2>3. DOMAIN OwnFlags(t, a) \subseteq CommandOf(t).takes
      BY OwnIsTaken
    <2>4. QED
      BY <1>1, <1>2, <2>1, <2>2, <2>3
  <1>4. CommandOf(t).params \subseteq DOMAIN ValuesOfCall(t, a)
    BY CallParams
  <1>5. QED
    BY <1>3, <1>4 DEF Takes, OptionsOf, ValuesOfCall

\* The subnet and the mechanism of a call are in the domain of its command.
LEMMA SelectorsFit ==
    ASSUME NEW t \in Tools, NEW a, Builds(t, a)
    PROVE  LET v == ValuesOfCall(t, a)
           IN /\ "netuid" \in DOMAIN v => v["netuid"] \in 0..CommandOf(t).maxNetuid
              /\ "mechid" \in DOMAIN v => v["mechid"] \in 0..15
  <1> DEFINE v == ValuesOfCall(t, a)
             c == CommandOf(t)
             own == OwnFlags(t, a)
             ids == IdFields(t.command)
  <1>1. Suits(c, t) /\ Validates(t.input, a)
    BY ToolsSuit DEF Builds
  <1>2. /\ t.input.maxNetuid \in Nat /\ c.maxNetuid \in Nat /\ 1 <= c.maxNetuid
        /\ t.input.maxNetuid <= c.maxNetuid
    BY <1>1 DEF Suits, IdsSuit
  <1>3. /\ ~Null(a, "netuid") => a["netuid"] \in 0..c.maxNetuid
        /\ ~Null(a, "mechid") => a["mechid"] \in 0..15
    <2>1. /\ "netuid" \in DOMAIN a => a["netuid"] \in 0..t.input.maxNetuid
          /\ "mechid" \in DOMAIN a => a["mechid"] \in 0..15
      BY <1>1, FieldsFit
    <2> HIDE DEF c
    <2>2. QED
      BY <1>2, <2>1 DEF Null
  <1>4. SelectorDefaults["netuid"] = 1 /\ SelectorDefaults["mechid"] = 0
    BY DEF SelectorDefaults, @@, :>
  <1>5. "netuid" \in ids => "netuid" \in DOMAIN a /\ v["netuid"] = a["netuid"]
    BY <1>1, CallValues DEF Suits, IdsSuit, Validates, IdsAreRead
  <1>6. "mechid" \notin ids
    BY IdFieldsAre DEF IdNames
  <1>7. \A p \in {"netuid", "mechid"} \ ids :
           p \in DOMAIN v => \/ ~Null(a, p) /\ v[p] = a[p]
                             \/ v[p] = SelectorDefaults[p]
    <2>1. ASSUME NEW p \in {"netuid", "mechid"} \ ids, p \in DOMAIN v, p \in DOMAIN own
          PROVE  ~Null(a, p) /\ v[p] = a[p]
      <3>1. v[p] = own[p]
        BY <2>1, CallValues DEF OwnIsRead
      <3>2. Plainly(t)
        <4>1. Null(a, "direction") \/ a["direction"] \in {"in", "out"}
          BY <1>1, DirectionFits
        <4>2. t.command = <<"event">> => p \notin DOMAIN own
          BY <4>1, OwnFlagsAre, EventFlagsAre
        <4>3. t.command = <<"tx">> => p \notin DOMAIN own
          BY <4>1, OwnFlagsAre, TxFlagsAre
        <4>4. t.command = DepthForTrade => p \notin DOMAIN own
          BY <4>1, OwnFlagsAre, DepthFlagsAre
        <4>5. QED
          BY <2>1, <4>2, <4>3, <4>4 DEF Plainly
      <3>3. Carries(a, own, p, p)
        <4>1. t.command # <<"event">>
          BY <3>2 DEF Plainly
        <4>2. Carries(a, own, "mechid", "mechid")
          BY <3>2, <4>1, OwnFlagsAre
        <4>3. "netuid" \in DOMAIN own => Carries(a, own, "netuid", "netuid")
          BY <3>2, <4>1, OwnFlagsAre
        <4>4. QED
          BY <2>1, <4>2, <4>3
      <3> HIDE DEF v, own
      <3>4. QED
        BY <2>1, <3>1, <3>3 DEF Carries
    <2>2. ASSUME NEW p \in {"netuid", "mechid"} \ ids, p \in DOMAIN v, p \notin DOMAIN own
          PROVE  v[p] = SelectorDefaults[p]
      <3>1. \A q \in {"netuid", "mechid"} \ (DOMAIN own \cup ids) :
               /\ q \in DOMAIN v <=> q \in DOMAIN c.defaults
               /\ q \in DOMAIN v => v[q] = c.defaults[q]
        BY CallValues DEF DefaultsAreRead
      <3>2. \A q \in DOMAIN c.defaults : c.defaults[q] = SelectorDefaults[q]
        BY <1>1 DEF Suits, ReadsSuit
      <3> HIDE DEF own, ids, v, c
      <3>3. QED
        BY <2>2, <3>1, <3>2
    <2>3. QED
      BY <2>1, <2>2
  <1> HIDE DEF v, c, own, ids
  <1>8. "netuid" \in DOMAIN v => v["netuid"] \in 0..c.maxNetuid
    <2>1. CASE "netuid" \in ids
      <3>1. a["netuid"] \in 0..c.maxNetuid
        <4>1. a["netuid"] \in 0..t.input.maxNetuid
          BY <1>1, <1>5, <2>1, FieldsFit
        <4>2. QED
          BY <1>2, <4>1
      <3>2. QED
        BY <1>5, <2>1, <3>1
    <2>2. CASE "netuid" \notin ids
      BY <1>2, <1>3, <1>4, <1>7, <2>2
    <2>3. QED
      BY <2>1, <2>2
  <1>9. "mechid" \in DOMAIN v => v["mechid"] \in 0..15
    BY <1>3, <1>4, <1>6, <1>7
  <1>10. QED
    BY <1>8, <1>9 DEF v, c

LEMMA CallIsAccepted ==
    ASSUME NEW t \in Tools, NEW a, Builds(t, a), Arg(a, "token", NoValue) # "bad"
    PROVE  Accepts(CommandOf(t), BuildArgv(t, a))
  <1> DEFINE v == ValuesOfCall(t, a)
             c == CommandOf(t)
             ids == IdFields(t.command)
  <1>1. Suits(c, t) /\ Validates(t.input, a)
    BY ToolsSuit DEF Builds
  <1>2. ASSUME NEW f \in Given(v, {"hotkey", "coldkey", "token"}) PROVE v[f] # "bad"
    <2>1. f \in ids /\ v[f] = a[f]
      <3>1. \A g \in IdNames \ {"netuid"} : g \in DOMAIN v => g \in ids
        BY CallValues DEF IdsAreRead
      <3>2. \A g \in ids : g \in DOMAIN v /\ v[g] = a[g]
        BY CallValues DEF IdsAreRead
      <3> HIDE DEF v, ids
      <3>3. f \in IdNames \ {"netuid"} /\ f \in DOMAIN v
        BY DEF Given, IdNames
      <3>4. QED
        BY <3>1, <3>2, <3>3
    <2>2. f \in DOMAIN a
      BY <1>1, <2>1 DEF Suits, IdsSuit, Validates
    <2>3. f \in {"hotkey", "coldkey"} => a[f] # "bad"
      BY <1>1, <2>2, FieldsFit
    <2>4. f = "token" => a[f] # "bad"
      BY <2>2 DEF Arg
    <2>5. QED
      BY <2>1, <2>3, <2>4 DEF Given
  <1>3. InDomain(c, v)
    BY <1>2, SelectorsFit DEF InDomain
  <1>4. LimitFits(v)
    <2>1. Carries(a, v, "max_runtime", "max-runtime")
      BY CommonValues
    <2>2. ~Null(a, "max_runtime") => WallClock(a["max_runtime"])
      BY <1>1, FieldsFit DEF Null
    <2> HIDE DEF v
    <2>3. QED
      BY <2>1, <2>2 DEF Carries, LimitFits
  <1>5. Takes(c, BuildArgv(t, a))
    BY CallIsTaken
  <1>6. Resolved(t.chain, c.shape, v) # Refused
    BY CallIsResolved DEF Answers
  <1>7. BuildArgv(t, a).chain = t.chain
    BY DEF BuildArgv
  <1>8. QED
    BY <1>3, <1>4, <1>5, <1>6, <1>7 DEF Accepts, ValuesOfCall

\* A command that starts with ids always has an option beside the common ones.
LEMMA CallHasOptions ==
    ASSUME NEW t \in Tools, NEW a, Builds(t, a), t.command[1] \in IdFirst
    PROVE  DOMAIN OptionsOf(t, a) # {}
  <1> DEFINE asks == DOMAIN AskedFlags(t, a)
             own == DOMAIN OwnFlags(t, a)
             shape == CommandOf(t).shape
  <1>1. Suits(CommandOf(t), t) /\ Validates(t.input, a)
    BY ToolsSuit DEF Builds
  <1>2. ShapeSuits(CommandOf(t), t) /\ shape \notin {"event", "upgrade", "bt_tx", "evm_tx"}
    BY <1>1 DEF Suits, PlaceSuits
  <1>3. \/ "condition" \in t.input.required
        \/ t.command \in AlwaysOnChange
        \/ "silent_for" \in t.input.required /\ shape = "silence"
    BY <1>2 DEF ShapeSuits
  <1>4. CASE t.command \in AlwaysOnChange
    <2>1. asks = {"on-change"}
      BY <1>4, AlwaysOnChangeHasNone, AskedFlagsAre
    <2>2. QED
      BY <2>1, CallValues
  <1>5. CASE "condition" \in t.input.required /\ t.command \notin AlwaysOnChange
    <2>1. "condition" \in DOMAIN a /\ KnownKind(a.condition)
      BY <1>5, CallCondition
    <2>2. a.condition.kind \in asks
      BY <1>5, <2>1, AskedFlagsAre, ConditionFlagsAre
    <2>3. QED
      BY <2>2, CallValues
  <1>6. CASE "silent_for" \in t.input.required /\ shape = "silence"
    <2>1. Plainly(t)
      BY <1>1, <1>6 DEF Suits, PlaceSuits, Plainly
    <2>2. ~Null(a, "silent_for")
      BY <1>1, <1>6, FieldsFit DEF Validates, Null
    <2>3. "silent-for" \in own
      BY <1>1, <2>1, <2>2, DirectionFits, OwnFlagsAre DEF Carries
    <2>4. QED
      BY <2>3, CallValues
  <1>7. QED
    BY <1>3, <1>4, <1>5, <1>6

\* The free text of the line of a call is a token, a label or an endpoint.
LEMMA CallText ==
    ASSUME NEW t \in Tools, NEW a, Builds(t, a), NEW text \in OptionLike,
           text \in FreeText(BuildArgv(t, a))
    PROVE  \E f \in {"token", "name", "rpc_url"} : Arg(a, f, NoValue) \in OptionLike
  <1>1. /\ BuildArgv(t, a).options = OptionsOf(t, a)
        /\ BuildArgv(t, a).ids = [f \in IdFields(t.command) |-> a[f]]
    BY DEF BuildArgv, OptionsOf
  <1>2. text # NoValue
    BY NoValueIsApart DEF OptionLike
  <1>3. CASE \E f \in DOMAIN OptionsOf(t, a) \cap {"name", "rpc-url"} : text = OptionsOf(t, a)[f]
    <2>1. PICK f \in {"name", "rpc-url"} : Arg(OptionsOf(t, a), f, NoValue) = text
      BY <1>3 DEF Arg
    <2>2. /\ Arg(OptionsOf(t, a), "name", NoValue) = Arg(a, "name", NoValue)
          /\ Arg(OptionsOf(t, a), "rpc-url", NoValue) = Arg(a, "rpc_url", NoValue)
      BY CommonValues, CarriedOrNull
    <2>3. QED
      BY <2>1, <2>2
  <1>4. CASE "token" \in IdFields(t.command) /\ text = a["token"]
    <2>1. "token" \in DOMAIN a
      BY <1>4, ToolsSuit DEF Suits, IdsSuit, Builds, Validates
    <2>2. QED
      BY <1>4, <2>1 DEF Arg
  <1>5. QED
    BY <1>1, <1>3, <1>4 DEF FreeText

LEMMA CallHelpsOnly ==
    ASSUME NEW t \in Tools, NEW a, Builds(t, a),
           PrintsHelp(BuildArgv(t, a)) \/ ReadsAsOption(BuildArgv(t, a))
    PROVE  \E f \in {"token", "name", "rpc_url"} : Arg(a, f, NoValue) \in OptionLike
  <1>1. /\ BuildArgv(t, a).command = t.command
        /\ BuildArgv(t, a).options = OptionsOf(t, a)
    BY DEF BuildArgv, OptionsOf
  <1>2. \E text \in OptionLike : text \in FreeText(BuildArgv(t, a))
    BY <1>1, CallHasOptions DEF PrintsHelp, ReadsAsOption, OptionLike
  <1>3. QED
    BY <1>2, CallText

-----------------------------------------------------------------------------
(* Typed lines: what each command lets a person type. *)

Others == Windows \cup Common \cup OwnNames
LEMMA OthersAreApart == Others \cap Operators = {}
  <1>1. Common = CommonNames \cup {"out"}
    BY DEF Common, CommonNames
  <1>2. Windows \cap Operators = {} /\ "out" \notin Operators
    BY DEF Windows, Operators, Thresholds, Deltas
  <1>3. QED
    BY <1>1, <1>2, NamesAreApart DEF Others, Asking

\* The operators among the options of a command are those its resolver looks at.
Offers(c) ==
    CASE c.shape \in {"threshold", "depth"} -> c.takes \subseteq Thresholds \cup Others
      [] c.shape \in {"numeric", "price"} ->
            c.takes \subseteq Thresholds \cup Deltas \cup Others
      [] c.shape = "commission" ->
            c.takes \subseteq {"on-change", "changes-to", "changes-from"} \cup Others
      [] c.shape = "change" -> c.takes \subseteq {"on-change"} \cup Others
      [] c.shape = "balance" -> TRUE
      [] c.shape \in {"silence", "event", "upgrade", "bt_tx", "evm_tx"} ->
            c.takes \subseteq Others
      [] OTHER -> FALSE
Heeds(c, command) ==
    /\ DOMAIN c.defaults \subseteq {"netuid", "mechid"}
    /\ Offers(c)
    /\ c.shape = "balance" => command = <<"account", "balance">>
    /\ command = <<"subnet", "price">> => c.shape = "price"

LEMMA OthersAre ==
    /\ Common \subseteq Others /\ Windows \subseteq Others
    /\ {"type", "type-raw", "from", "to", "amount-min", "direction", "address", "finality",
        "confirmations", "size", "max-bps", "netuid", "mechid", "silent-for",
        "window-time"} \subseteq Others
  BY DEF Others, OwnNames, Windows

LEMMA SubnetHeeds ==
    ASSUME NEW command \in BtNames, command[1] = "subnet"
    PROVE  Heeds(BtCommand(command), command)
  <1> DEFINE name == command[2]
             c == SubnetCommand(name)
  <1>1. BtCommand(command) = c
    BY DEF BtCommand
  <1>2. command \in {"subnet"} \X ({"price", "registration-cost", "depth-for-trade",
                                    "hyperparams", "identity"} \cup SubnetNumericNames)
    BY DEF BtNames
  <1>3. command = <<"subnet", name>>
    BY <1>2
  <1>4. \/ name = "price"
        \/ name = "registration-cost"
        \/ name = "depth-for-trade"
        \/ name \in {"hyperparams", "identity"}
        \/ name \in SubnetNumericNames
    BY <1>2
  <1> HIDE DEF name
  <1>5. CASE name = "price"
    <2>1. /\ c.takes = Numeric \cup Common /\ c.shape = "price"
          /\ DOMAIN c.defaults = {}
      BY <1>5 DEF SubnetCommand, Command, SubnetPrice, OnSubnet, SubnetNumericNames
    <2>2. command = <<"subnet", "price">>
      BY <1>3, <1>5
    <2> HIDE DEF c
    <2>3. Heeds(c, command)
      BY <2>1, <2>2, OthersAre DEF Heeds, Offers, Numeric
    <2>4. QED
      BY <1>1, <2>3 DEF c
  <1>6. CASE name = "registration-cost"
    <2>1. /\ c.takes = Thresholds \cup Common /\ c.shape = "threshold"
          /\ DOMAIN c.defaults = {}
      BY <1>6 DEF SubnetCommand, Command, SubnetRegistrationCost, OnSubnet, SubnetNumericNames
    <2>2. command # <<"subnet", "price">>
      BY <1>3, <1>6
    <2> HIDE DEF c
    <2>3. Heeds(c, command)
      BY <2>1, <2>2, OthersAre DEF Heeds, Offers
    <2>4. QED
      BY <1>1, <2>3 DEF c
  <1>7. CASE name = "depth-for-trade"
    <2>1. /\ c.takes = (Thresholds \cup {"size", "max-bps"}) \cup Common /\ c.shape = "depth"
          /\ DOMAIN c.defaults = {}
      BY <1>7 DEF SubnetCommand, Command, SubnetDepthForTrade, OnSubnet, SubnetNumericNames
    <2>2. command # <<"subnet", "price">>
      BY <1>3, <1>7
    <2> HIDE DEF c
    <2>3. Heeds(c, command)
      BY <2>1, <2>2, OthersAre DEF Heeds, Offers
    <2>4. QED
      BY <1>1, <2>3 DEF c
  <1>8. CASE name \in {"hyperparams", "identity"}
    <2>1. /\ c.takes = {"on-change"} \cup Common /\ c.shape = "change"
          /\ DOMAIN c.defaults = {}
      BY <1>8 DEF SubnetCommand, Command, SubnetState, OnSubnet, SubnetNumericNames
    <2>2. command # <<"subnet", "price">>
      BY <1>3, <1>8
    <2> HIDE DEF c
    <2>3. Heeds(c, command)
      BY <2>1, <2>2, OthersAre DEF Heeds, Offers
    <2>4. QED
      BY <1>1, <2>3 DEF c
  <1>9. CASE name \in SubnetNumericNames
    <2>1. /\ c.takes = Numeric \cup Common /\ c.shape = "numeric"
          /\ DOMAIN c.defaults = {}
      BY <1>9 DEF SubnetCommand, Command, SubnetNumeric, SubnetNumericNames, OnSubnet
    <2>2. command # <<"subnet", "price">>
      BY <1>3, <1>9 DEF SubnetNumericNames
    <2> HIDE DEF c
    <2>3. Heeds(c, command)
      BY <2>1, <2>2, OthersAre DEF Heeds, Offers, Numeric
    <2>4. QED
      BY <1>1, <2>3 DEF c
  <1>10. QED
    BY <1>4, <1>5, <1>6, <1>7, <1>8, <1>9

LEMMA ValidatorHeeds ==
    ASSUME NEW command \in BtNames, command[1] = "validator"
    PROVE  Heeds(BtCommand(command), command)
  <1> DEFINE name == command[2]
             c == ValidatorCommand(name)
  <1>1. BtCommand(command) = c
    BY DEF BtCommand
  <1>2. command \in {"validator"} \X {"weights", "commission", "dividends-alpha", "stake-alpha",
                                      "child-keys", "identity"}
    BY DEF BtNames
  <1>3. command = <<"validator", name>>
    BY <1>2
  <1>4. \/ name = "weights"
        \/ name = "commission"
        \/ name = "dividends-alpha"
        \/ name = "stake-alpha"
        \/ name = "child-keys"
        \/ name = "identity"
    BY <1>2
  <1> HIDE DEF name
  <1>5. CASE name = "weights"
    <2>1. /\ c.takes = {"netuid", "mechid", "silent-for"} \cup Common /\ c.shape = "silence"
          /\ DOMAIN c.defaults = {"netuid", "mechid"}
      <3>1. c = ValidatorWeights
        BY <1>5 DEF ValidatorCommand
      <3>2. DOMAIN c.defaults = {"netuid", "mechid"}
        BY <3>1, MechanismDefaults DEF @@, :>
      <3>3. c.takes = {"netuid", "mechid", "silent-for"} \cup Common /\ c.shape = "silence"
        BY <3>1 DEF Command, ValidatorWeights, OnValidator
      <3>4. QED
        BY <3>2, <3>3
    <2>2. command # <<"subnet", "price">>
      BY <1>3, <1>5
    <2> HIDE DEF c
    <2>3. Heeds(c, command)
      BY <2>1, <2>2, OthersAre DEF Heeds, Offers
    <2>4. QED
      BY <1>1, <2>3 DEF c
  <1>6. CASE name = "commission"
    <2>1. /\ c.takes = {"on-change", "changes-to", "changes-from"} \cup Common /\ c.shape = "commission"
          /\ DOMAIN c.defaults = {}
      BY <1>6 DEF ValidatorCommand, Command, ValidatorCommission, OnValidator
    <2>2. command # <<"subnet", "price">>
      BY <1>3, <1>6
    <2> HIDE DEF c
    <2>3. Heeds(c, command)
      BY <2>1, <2>2, OthersAre DEF Heeds, Offers
    <2>4. QED
      BY <1>1, <2>3 DEF c
  <1>7. CASE name = "dividends-alpha"
    <2>1. /\ c.takes = (Numeric \cup {"netuid"}) \cup Common /\ c.shape = "numeric"
          /\ DOMAIN c.defaults = {}
      BY <1>7 DEF ValidatorCommand, Command, ValidatorDividends, ValidatorAlpha, OnValidator
    <2>2. command # <<"subnet", "price">>
      BY <1>3, <1>7
    <2> HIDE DEF c
    <2>3. Heeds(c, command)
      BY <2>1, <2>2, OthersAre DEF Heeds, Offers, Numeric
    <2>4. QED
      BY <1>1, <2>3 DEF c
  <1>8. CASE name = "stake-alpha"
    <2>1. /\ c.takes = (Numeric \cup {"netuid"}) \cup Common /\ c.shape = "numeric"
          /\ DOMAIN c.defaults = {}
      BY <1>8 DEF ValidatorCommand, Command, ValidatorStake, ValidatorAlpha, OnValidator
    <2>2. command # <<"subnet", "price">>
      BY <1>3, <1>8
    <2> HIDE DEF c
    <2>3. Heeds(c, command)
      BY <2>1, <2>2, OthersAre DEF Heeds, Offers, Numeric
    <2>4. QED
      BY <1>1, <2>3 DEF c
  <1>9. CASE name = "child-keys"
    <2>1. /\ c.takes = {"on-change"} \cup Common /\ c.shape = "change"
          /\ DOMAIN c.defaults = {}
      BY <1>9 DEF ValidatorCommand, Command, ValidatorChildKeys, OnValidator
    <2>2. command # <<"subnet", "price">>
      BY <1>3, <1>9
    <2> HIDE DEF c
    <2>3. Heeds(c, command)
      BY <2>1, <2>2, OthersAre DEF Heeds, Offers
    <2>4. QED
      BY <1>1, <2>3 DEF c
  <1>10. CASE name = "identity"
    <2>1. /\ c.takes = {"on-change"} \cup Common /\ c.shape = "change"
          /\ DOMAIN c.defaults = {}
      BY <1>10 DEF ValidatorCommand, Command, ValidatorIdentity, OnValidator
    <2>2. command # <<"subnet", "price">>
      BY <1>3, <1>10
    <2> HIDE DEF c
    <2>3. Heeds(c, command)
      BY <2>1, <2>2, OthersAre DEF Heeds, Offers
    <2>4. QED
      BY <1>1, <2>3 DEF c
  <1>11. QED
    BY <1>4, <1>5, <1>6, <1>7, <1>8, <1>9, <1>10

LEMMA NeuronHeeds ==
    ASSUME NEW command \in BtNames, command[1] = "neuron"
    PROVE  Heeds(BtCommand(command), command)
  <1> DEFINE name == command[2]
             c == NeuronCommand(name)
  <1>1. BtCommand(command) = c
    BY DEF BtCommand
  <1>2. command \in {"neuron"} \X {"last-update", "incentive", "dividends", "stake-alpha",
                                   "blocks-until-immunity-expires"}
    BY DEF BtNames
  <1>3. command = <<"neuron", name>>
    BY <1>2
  <1>4. \/ name = "last-update"
        \/ name = "incentive"
        \/ name \in {"dividends", "stake-alpha"}
        \/ name = "blocks-until-immunity-expires"
    BY <1>2
  <1> HIDE DEF name
  <1>5. CASE name = "last-update"
    <2>1. /\ c.takes = ({"silent-for"} \cup {"mechid"}) \cup Common /\ c.shape = "silence"
          /\ DOMAIN c.defaults = {"mechid"}
      <3>1. c = NeuronLastUpdate
        BY <1>5 DEF NeuronCommand
      <3>2. DOMAIN c.defaults = {"mechid"}
        BY <3>1, MechanismDefaults DEF @@, :>
      <3>3. c.takes = ({"silent-for"} \cup {"mechid"}) \cup Common /\ c.shape = "silence"
        BY <3>1 DEF Command, NeuronLastUpdate, OnMechanism, OnNeuron
      <3>4. QED
        BY <3>2, <3>3
    <2>2. command # <<"subnet", "price">>
      BY <1>3, <1>5
    <2> HIDE DEF c
    <2>3. Heeds(c, command)
      BY <2>1, <2>2, OthersAre DEF Heeds, Offers
    <2>4. QED
      BY <1>1, <2>3 DEF c
  <1>6. CASE name = "incentive"
    <2>1. /\ c.takes = (Numeric \cup {"mechid"}) \cup Common /\ c.shape = "numeric"
          /\ DOMAIN c.defaults = {"mechid"}
      <3>1. c = NeuronIncentive
        BY <1>6 DEF NeuronCommand
      <3>2. DOMAIN c.defaults = {"mechid"}
        BY <3>1, MechanismDefaults DEF @@, :>
      <3>3. c.takes = (Numeric \cup {"mechid"}) \cup Common /\ c.shape = "numeric"
        BY <3>1 DEF Command, NeuronIncentive, OnMechanism, OnNeuron
      <3>4. QED
        BY <3>2, <3>3
    <2>2. command # <<"subnet", "price">>
      BY <1>3, <1>6
    <2> HIDE DEF c
    <2>3. Heeds(c, command)
      BY <2>1, <2>2, OthersAre DEF Heeds, Offers, Numeric
    <2>4. QED
      BY <1>1, <2>3 DEF c
  <1>7. CASE name \in {"dividends", "stake-alpha"}
    <2>1. /\ c.takes = Numeric \cup Common /\ c.shape = "numeric"
          /\ DOMAIN c.defaults = {}
      BY <1>7 DEF NeuronCommand, Command, NeuronNumeric, OnNeuron
    <2>2. command # <<"subnet", "price">>
      BY <1>3, <1>7
    <2> HIDE DEF c
    <2>3. Heeds(c, command)
      BY <2>1, <2>2, OthersAre DEF Heeds, Offers, Numeric
    <2>4. QED
      BY <1>1, <2>3 DEF c
  <1>8. CASE name = "blocks-until-immunity-expires"
    <2>1. /\ c.takes = Thresholds \cup Common /\ c.shape = "threshold"
          /\ DOMAIN c.defaults = {}
      BY <1>8 DEF NeuronCommand, Command, NeuronImmunity, OnNeuron
    <2>2. command # <<"subnet", "price">>
      BY <1>3, <1>8
    <2> HIDE DEF c
    <2>3. Heeds(c, command)
      BY <2>1, <2>2, OthersAre DEF Heeds, Offers
    <2>4. QED
      BY <1>1, <2>3 DEF c
  <1>9. QED
    BY <1>4, <1>5, <1>6, <1>7, <1>8

LEMMA AccountHeeds ==
    ASSUME NEW command \in BtNames, command[1] = "account"
    PROVE  Heeds(BtCommand(command), command)
  <1> DEFINE name == command[2]
             c == AccountCommand(name)
  <1>1. BtCommand(command) = c
    BY DEF BtCommand
  <1>2. command \in {"account"} \X {"balance", "activity"}
    BY DEF BtNames
  <1>3. command = <<"account", name>>
    BY <1>2
  <1>4. \/ name = "balance"
        \/ name = "activity"
    BY <1>2
  <1> HIDE DEF name
  <1>5. CASE name = "balance"
    <2>1. /\ c.takes = (Numeric \cup {"on-change"}) \cup Common /\ c.shape = "balance"
          /\ DOMAIN c.defaults = {}
      BY <1>5 DEF AccountCommand, Command, AccountBalance, OnAccount
    <2>2. command # <<"subnet", "price">>
      BY <1>3, <1>5
    <2>3. command = <<"account", "balance">>
      BY <1>3, <1>5
    <2> HIDE DEF c
    <2>4. Heeds(c, command)
      BY <2>1, <2>2, <2>3, OthersAre DEF Heeds, Offers, Numeric
    <2>5. QED
      BY <1>1, <2>4 DEF c
  <1>6. CASE name = "activity"
    <2>1. /\ c.takes = {"silent-for"} \cup Common /\ c.shape = "silence"
          /\ DOMAIN c.defaults = {}
      BY <1>6 DEF AccountCommand, Command, AccountActivity, OnAccount
    <2>2. command # <<"subnet", "price">>
      BY <1>3, <1>6
    <2> HIDE DEF c
    <2>3. Heeds(c, command)
      BY <2>1, <2>2, OthersAre DEF Heeds, Offers
    <2>4. QED
      BY <1>1, <2>3 DEF c
  <1>7. QED
    BY <1>4, <1>5, <1>6

LEMMA NetworkHeeds ==
    ASSUME NEW command \in BtNames, command[1] = "network"
    PROVE  Heeds(BtCommand(command), command)
  <1> DEFINE name == command[2]
             c == NetworkCommand(name)
  <1>1. BtCommand(command) = c
    BY DEF BtCommand
  <1>2. command \in {"network"} \X {"tao-price", "subnet-registration-cost", "runtime-version",
                                    "subnet-count", "on-runtime-upgraded"}
    BY DEF BtNames
  <1>3. command = <<"network", name>>
    BY <1>2
  <1>4. \/ name = "tao-price"
        \/ name = "subnet-registration-cost"
        \/ name = "runtime-version"
        \/ name = "subnet-count"
        \/ name = "on-runtime-upgraded"
    BY <1>2
  <1> HIDE DEF name
  <1>5. CASE name = "tao-price"
    <2>1. /\ c.takes = (Thresholds \cup Deltas \cup {"window-time"}) \cup Common /\ c.shape = "numeric"
          /\ DOMAIN c.defaults = {}
      BY <1>5 DEF NetworkCommand, Command, TaoPrice, OnNetwork
    <2>2. command # <<"subnet", "price">>
      BY <1>3, <1>5
    <2> HIDE DEF c
    <2>3. Heeds(c, command)
      BY <2>1, <2>2, OthersAre DEF Heeds, Offers
    <2>4. QED
      BY <1>1, <2>3 DEF c
  <1>6. CASE name = "subnet-registration-cost"
    <2>1. /\ c.takes = Thresholds \cup Common /\ c.shape = "threshold"
          /\ DOMAIN c.defaults = {}
      BY <1>6 DEF NetworkCommand, Command, NetworkRegistrationCost, OnNetwork
    <2>2. command # <<"subnet", "price">>
      BY <1>3, <1>6
    <2> HIDE DEF c
    <2>3. Heeds(c, command)
      BY <2>1, <2>2, OthersAre DEF Heeds, Offers
    <2>4. QED
      BY <1>1, <2>3 DEF c
  <1>7. CASE name = "runtime-version"
    <2>1. /\ c.takes = {"on-change"} \cup Common /\ c.shape = "change"
          /\ DOMAIN c.defaults = {}
      BY <1>7 DEF NetworkCommand, Command, RuntimeVersion, OnNetwork
    <2>2. command # <<"subnet", "price">>
      BY <1>3, <1>7
    <2> HIDE DEF c
    <2>3. Heeds(c, command)
      BY <2>1, <2>2, OthersAre DEF Heeds, Offers
    <2>4. QED
      BY <1>1, <2>3 DEF c
  <1>8. CASE name = "subnet-count"
    <2>1. /\ c.takes = Numeric \cup Common /\ c.shape = "numeric"
          /\ DOMAIN c.defaults = {}
      BY <1>8 DEF NetworkCommand, Command, SubnetCount, OnNetwork
    <2>2. command # <<"subnet", "price">>
      BY <1>3, <1>8
    <2> HIDE DEF c
    <2>3. Heeds(c, command)
      BY <2>1, <2>2, OthersAre DEF Heeds, Offers, Numeric
    <2>4. QED
      BY <1>1, <2>3 DEF c
  <1>9. CASE name = "on-runtime-upgraded"
    <2>1. /\ c.takes = {} \cup Common /\ c.shape = "upgrade"
          /\ DOMAIN c.defaults = {}
      BY <1>9 DEF NetworkCommand, Command, RuntimeUpgraded, OnNetwork
    <2>2. command # <<"subnet", "price">>
      BY <1>3, <1>9
    <2> HIDE DEF c
    <2>3. Heeds(c, command)
      BY <2>1, <2>2, OthersAre DEF Heeds, Offers
    <2>4. QED
      BY <1>1, <2>3 DEF c
  <1>10. QED
    BY <1>4, <1>5, <1>6, <1>7, <1>8, <1>9

LEMMA LineHeeds ==
    ASSUME NEW chain \in EvmChains \cup {"bt"}, NEW command \in DOMAIN Commands(chain)
    PROVE  Heeds(Commands(chain)[command], command)
  <1>1. CASE chain = "bt"
    <2>1. command \in BtNames /\ Commands(chain)[command] = BtCommand(command)
      BY <1>1 DEF Commands
    <2>2. CASE command[1] \in {"subnet", "validator", "neuron", "account", "network"}
      BY <2>1, <2>2, SubnetHeeds, ValidatorHeeds, NeuronHeeds, AccountHeeds, NetworkHeeds
    <2>3. CASE command = <<"event">>
      <3>1. BtCommand(command) = EventDefault
        BY <2>3 DEF BtCommand
      <3>2. /\ EventDefault.takes = {"type", "type-raw", "from", "to", "amount-min",
                                     "direction", "address"} \cup Common
            /\ EventDefault.shape = "event" /\ DOMAIN EventDefault.defaults = {}
        BY DEF EventDefault, Command
      <3>3. command # <<"subnet", "price">>
        BY <2>3
      <3>4. QED
        BY <2>1, <3>1, <3>2, <3>3, OthersAre DEF Heeds, Offers
    <2>4. CASE command = <<"tx">>
      <3>1. BtCommand(command) = BtTransaction
        BY <2>4 DEF BtCommand
      <3>2. /\ BtTransaction.takes = {"finality"} \cup Common
            /\ BtTransaction.shape = "bt_tx" /\ DOMAIN BtTransaction.defaults = {}
        BY DEF BtTransaction, Command
      <3>3. command # <<"subnet", "price">>
        BY <2>4
      <3>4. QED
        BY <2>1, <3>1, <3>2, <3>3, OthersAre DEF Heeds, Offers
    <2>5. QED
      BY <2>1, <2>2, <2>3, <2>4 DEF BtNames
  <1>2. CASE chain \in EvmChains
    <2>1. command \in EvmNames(chain) /\ Commands(chain)[command] = EvmCommand(command)
      BY <1>2 DEF Commands, EvmChains
    <2>2. CASE command[1] = "network"
      <3>1. EvmCommand(command) = EvmFee(command[2])
        BY <2>2 DEF EvmCommand
      <3>2. /\ EvmFee(command[2]).takes = (Numeric \ {"window-epochs"}) \cup Common
            /\ EvmFee(command[2]).shape = "numeric" /\ DOMAIN EvmFee(command[2]).defaults = {}
        BY DEF EvmFee, OnNetwork, Command
      <3>3. command # <<"subnet", "price">>
        BY <2>2
      <3>4. QED
        BY <2>1, <3>1, <3>2, <3>3, OthersAre DEF Heeds, Offers, Numeric
    <2>3. CASE command = <<"token", "price">>
      <3>1. EvmCommand(command) = TokenPrice
        BY <2>3 DEF EvmCommand
      <3>2. /\ TokenPrice.takes = (Thresholds \cup Deltas \cup {"window-time"}) \cup Common
            /\ TokenPrice.shape = "numeric" /\ DOMAIN TokenPrice.defaults = {}
        BY DEF TokenPrice, Command
      <3>3. command # <<"subnet", "price">>
        BY <2>3
      <3>4. QED
        BY <2>1, <3>1, <3>2, <3>3, OthersAre DEF Heeds, Offers
    <2>4. CASE command = <<"tx">>
      <3>1. EvmCommand(command) = EvmTransaction
        BY <2>4 DEF EvmCommand
      <3>2. /\ EvmTransaction.takes = {"finality", "confirmations"} \cup Common
            /\ EvmTransaction.shape = "evm_tx" /\ DOMAIN EvmTransaction.defaults = {}
        BY DEF EvmTransaction, Command
      <3>3. command # <<"subnet", "price">>
        BY <2>4
      <3>4. QED
        BY <2>1, <3>1, <3>2, <3>3, OthersAre DEF Heeds, Offers
    <2>5. QED
      BY <2>1, <2>2, <2>3, <2>4 DEF EvmNames
  <1>3. QED
    BY <1>1, <1>2

\* A resolver that does not refuse has found one operator, and took it.
Obeys(w, v, kinds) == \A f \in Given(v, kinds) : w.operator = f /\ w.target \in {v[f], NoValue}
\* A percentage move looks at the window that was given.
Windowed(w, v) == w.primitive = "delta" => (Given(v, Windows) # {} => w.window.unit # "ever")

LEMMA TheOnlyOne ==
    ASSUME NEW S, IsFiniteSet(S), Cardinality(S) = 1
    PROVE  \A f \in S : f = Chosen(S)
  <1>1. \A x, y \in S : x = y
    BY AtMostOne
  <1>2. QED
    BY <1>1 DEF Chosen

LEMMA NoneIsZero == Cardinality({}) = 0
  BY FS_EmptySet

LEMMA GivenIsFinite ==
    ASSUME NEW v, NEW x, NEW y, NEW z
    PROVE  IsFiniteSet(Given(v, {x, y, z}))
  BY ThreeAreFinite, FS_Subset DEF Given

LEMMA ThresholdIsHeeded ==
    ASSUME NEW v, NEW w, w = ResolveThreshold(v), w # Refused
    PROVE  Obeys(w, v, Thresholds) /\ w.primitive = "threshold" /\ Given(v, Thresholds) # {}
  <1> DEFINE given == Given(v, Thresholds)
             f == Chosen(given)
  <1>1. Cardinality(given) = 1 /\ w = [primitive |-> "threshold", operator |-> f, target |-> v[f]]
    BY DEF ResolveThreshold
  <1>2. IsFiniteSet(given)
    <2>1. {"below", "above"} = {"below", "above", "above"}
      OBVIOUS
    <2>2. QED
      BY <2>1, GivenIsFinite DEF Thresholds
  <1>3. given # {}
    BY <1>1, NoneIsZero
  <1>4. \A g \in given : g = f
    BY <1>1, <1>2, TheOnlyOne
  <1>5. QED
    BY <1>1, <1>3, <1>4 DEF Obeys

LEMMA WindowIsHeeded ==
    ASSUME NEW v, Given(v, Windows) # {}
    PROVE  ResolveWindow(v).unit # "ever"
  <1> DEFINE f == Chosen(Given(v, Windows))
  <1>1. f \in {"window-time", "window-blocks", "window-epochs"}
    BY DEF Chosen, Given, Windows
  <1> HIDE DEF f
  <1>2. ResolveWindow(v).unit = CASE f = "window-time" -> "time" [] f = "window-blocks" -> "blocks"
                                  [] f = "window-epochs" -> "epochs"
    BY DEF ResolveWindow, f
  <1>3. QED
    BY <1>1, <1>2

LEMMA DeltaIsHeeded ==
    ASSUME NEW v, NEW w, w = ResolveDelta(v), w # Refused
    PROVE  Obeys(w, v, Deltas) /\ w.primitive = "delta" /\ Windowed(w, v)
  <1> DEFINE given == Given(v, Deltas)
             f == Chosen(given)
             window == ResolveWindow(v)
  <1>1. /\ Cardinality(given) = 1
        /\ w = [primitive |-> "delta", operator |-> f, target |-> v[f], window |-> window]
    BY DEF ResolveDelta
  <1>2. IsFiniteSet(given)
    BY GivenIsFinite DEF Deltas
  <1>3. \A g \in given : g = f
    BY <1>1, <1>2, TheOnlyOne
  <1>4. Given(v, Windows) # {} => window.unit # "ever"
    BY WindowIsHeeded
  <1> HIDE DEF window
  <1>5. QED
    BY <1>1, <1>3, <1>4 DEF Obeys, Windowed

LEMMA NumericIsHeeded ==
    ASSUME NEW v, NEW w, w = ResolveNumeric(v), w # Refused
    PROVE  /\ Obeys(w, v, Thresholds \cup Deltas) /\ Windowed(w, v)
           /\ Given(v, Thresholds) = {} => w.primitive = "delta"
  <1>1. CASE Given(v, Deltas) # {}
    <2>1. Given(v, Thresholds) = {} /\ w = ResolveDelta(v)
      BY <1>1 DEF ResolveNumeric
    <2>2. QED
      BY <2>1, DeltaIsHeeded DEF Obeys, Given
  <1>2. CASE Given(v, Deltas) = {}
    <2>1. w = ResolveThreshold(v)
      BY <1>2 DEF ResolveNumeric
    <2>2. QED
      BY <1>2, <2>1, ThresholdIsHeeded DEF Obeys, Given, Windowed
  <1>3. QED
    BY <1>1, <1>2

LEMMA PriceIsHeeded ==
    ASSUME NEW v, NEW w, w = ResolvePrice(v), w # Refused
    PROVE  /\ Obeys(w, v, Thresholds \cup Deltas) /\ Windowed(w, v)
           /\ Given(v, Windows) # {} => w.primitive = "delta"
  BY NumericIsHeeded DEF ResolvePrice

LEMMA BalanceIsHeeded ==
    ASSUME NEW v, NEW w, w = ResolveBalance(v), w # Refused
    PROVE  Windowed(w, v)
  <1>1. CASE Given(v, Deltas) # {}
    BY <1>1, DeltaIsHeeded DEF ResolveBalance
  <1>2. CASE Given(v, Deltas) = {} /\ "on-change" \in DOMAIN v
    BY <1>2 DEF ResolveBalance, AnyChange, Windowed
  <1>3. CASE Given(v, Deltas) = {} /\ "on-change" \notin DOMAIN v
    BY <1>3, ThresholdIsHeeded DEF ResolveBalance, Windowed
  <1>4. QED
    BY <1>1, <1>2, <1>3

LEMMA CommissionIsHeeded ==
    ASSUME NEW v, NEW w, w = ResolveCommission(v), w # Refused
    PROVE  Obeys(w, v, {"on-change", "changes-to", "changes-from"}) /\ w.primitive = "state"
  <1> DEFINE given == Given(v, {"on-change", "changes-to", "changes-from"})
             f == Chosen(given)
  <1>1. IsFiniteSet(given)
    BY GivenIsFinite
  <1>2. Cardinality(given) = 1
    BY DEF ResolveCommission
  <1>3. \A g \in given : g = f
    BY <1>1, <1>2, TheOnlyOne
  <1>4. w = IF f = "on-change" THEN AnyChange
            ELSE [primitive |-> "state", operator |-> f, target |-> v[f]]
    BY DEF ResolveCommission
  <1> HIDE DEF given, f
  <1>5. w.operator = f /\ w.target \in {v[f], NoValue} /\ w.primitive = "state"
    BY <1>4 DEF AnyChange
  <1>6. QED
    BY <1>3, <1>5 DEF Obeys, given

LEMMA ChangeIsHeeded ==
    ASSUME NEW v, NEW w, w = ResolveOnChange(v), w # Refused
    PROVE  Obeys(w, v, {"on-change"}) /\ w.primitive = "state"
  BY DEF ResolveOnChange, AnyChange, Obeys, Given

LEMMA OtherIsHeeded ==
    ASSUME NEW chain, NEW shape \in {"silence", "event", "upgrade", "bt_tx", "evm_tx"}, NEW v,
           NEW w, w = Resolved(chain, shape, v), w # Refused
    PROVE  w.primitive \in {"liveness", "event", "tx"}
  BY DEF Resolved, ResolveSilence, ResolveEvent, EventFilter, ResolveBtTx, ResolveEvmTx, TxWait

\* The shapes under which an operator may be typed.
ObeysOperator(w, v, f) == w.operator = f /\ w.target \in {v[f], NoValue}

LEMMA OperatorIsObeyed ==
    ASSUME NEW chain, NEW c, NEW command, Heeds(c, command), NEW v, NEW w,
           w = Resolved(chain, c.shape, v), w # Refused,
           command # <<"account", "balance">>,
           NEW f \in Operators, f \in DOMAIN v, f \in c.takes
    PROVE  ObeysOperator(w, v, f)
  <1> SUFFICES w.operator = f /\ w.target \in {v[f], NoValue}
    BY DEF ObeysOperator
  <1>1. f \notin Others
    BY OthersAreApart
  <1>2. Offers(c) /\ c.shape # "balance"
    BY DEF Heeds
  <1>3. CASE c.shape = "threshold"
    <2>1. f \in Thresholds
      BY <1>1, <1>2, <1>3 DEF Offers
    <2>2. w = ResolveThreshold(v)
      BY <1>3 DEF Resolved
    <2>3. QED
      BY <2>1, <2>2, ThresholdIsHeeded DEF Obeys, Given
  <1>4. CASE c.shape = "depth"
    <2>1. f \in Thresholds
      BY <1>1, <1>2, <1>4 DEF Offers
    <2>2. w = ResolveThreshold(v)
      BY <1>4 DEF Resolved, ResolveDepth
    <2>3. QED
      BY <2>1, <2>2, ThresholdIsHeeded DEF Obeys, Given
  <1>5. CASE c.shape = "numeric"
    <2>1. f \in Thresholds \cup Deltas
      BY <1>1, <1>2, <1>5 DEF Offers
    <2>2. w = ResolveNumeric(v)
      BY <1>5 DEF Resolved
    <2>3. QED
      BY <2>1, <2>2, NumericIsHeeded DEF Obeys, Given
  <1>6. CASE c.shape = "price"
    <2>1. f \in Thresholds \cup Deltas
      BY <1>1, <1>2, <1>6 DEF Offers
    <2>2. w = ResolvePrice(v)
      BY <1>6 DEF Resolved
    <2>3. QED
      BY <2>1, <2>2, PriceIsHeeded DEF Obeys, Given
  <1>7. CASE c.shape = "commission"
    <2>1. f \in {"on-change", "changes-to", "changes-from"}
      BY <1>1, <1>2, <1>7 DEF Offers
    <2>2. w = ResolveCommission(v)
      BY <1>7 DEF Resolved
    <2>3. QED
      BY <2>1, <2>2, CommissionIsHeeded DEF Obeys, Given
  <1>8. CASE c.shape = "change"
    <2>1. f \in {"on-change"}
      BY <1>1, <1>2, <1>8 DEF Offers
    <2>2. w = ResolveOnChange(v)
      BY <1>8 DEF Resolved
    <2>3. QED
      BY <2>1, <2>2, ChangeIsHeeded DEF Obeys, Given
  <1>9. CASE c.shape \in {"silence", "event", "upgrade", "bt_tx", "evm_tx"}
    BY <1>1, <1>2, <1>9 DEF Offers
  <1>10. QED
    BY <1>2, <1>3, <1>4, <1>5, <1>6, <1>7, <1>8, <1>9 DEF Offers

ObeysWindow(w, command) == /\ w.primitive = "delta" => w.window.unit # "ever"
                           /\ command = <<"subnet", "price">> => w.primitive = "delta"

LEMMA WindowIsObeyed ==
    ASSUME NEW chain, NEW c, NEW command, Heeds(c, command), NEW v, NEW w,
           w = Resolved(chain, c.shape, v), w # Refused, Given(v, Windows) # {}
    PROVE  ObeysWindow(w, command)
  <1> SUFFICES /\ w.primitive = "delta" => w.window.unit # "ever"
               /\ command = <<"subnet", "price">> => w.primitive = "delta"
    BY DEF ObeysWindow
  <1>1. Offers(c) /\ (command = <<"subnet", "price">> => c.shape = "price")
    BY DEF Heeds
  <1>2. CASE c.shape = "threshold"
    BY <1>1, <1>2, ThresholdIsHeeded DEF Resolved
  <1>3. CASE c.shape = "depth"
    BY <1>1, <1>3, ThresholdIsHeeded DEF Resolved, ResolveDepth
  <1>4. CASE c.shape = "numeric"
    BY <1>1, <1>4, NumericIsHeeded DEF Resolved, Windowed
  <1>5. CASE c.shape = "price"
    <2>1. w = ResolvePrice(v)
      BY <1>5 DEF Resolved
    <2>2. QED
      BY <2>1, PriceIsHeeded DEF Windowed
  <1>6. CASE c.shape = "commission"
    BY <1>1, <1>6, CommissionIsHeeded DEF Resolved
  <1>7. CASE c.shape = "change"
    BY <1>1, <1>7, ChangeIsHeeded DEF Resolved
  <1>8. CASE c.shape = "balance"
    BY <1>1, <1>8, BalanceIsHeeded DEF Resolved, Windowed
  <1>9. CASE c.shape \in {"silence", "event", "upgrade", "bt_tx", "evm_tx"}
    BY <1>1, <1>9, OtherIsHeeded
  <1>10. QED
    BY <1>1, <1>2, <1>3, <1>4, <1>5, <1>6, <1>7, <1>8, <1>9 DEF Offers

\* A typed line that is accepted, and the watch it dispatches.
HeedsLine(l, d) ==
    /\ l.command # <<"account", "balance">> =>
          \A f \in Given(l.options, Operators) :
             d.condition.operator = f /\ d.condition.target \in {l.options[f], NoValue}
    /\ (d.condition.primitive = "delta" \/ l.command = <<"subnet", "price">>) =>
          \A f \in Given(l.options, Windows) :
             d.condition.primitive = "delta" /\ d.condition.window.unit # "ever"
    /\ "max-runtime" \in DOMAIN l.options => d.maxRuntime = l.options["max-runtime"]

LEMMA LineIsHeeded ==
    ASSUME NEW l \in Lines, NEW c, c = Commands(l.chain)[l.command], Accepts(c, l),
           NEW d, d = Dispatched(l, c, Values(l))
    PROVE  HeedsLine(l, d)
  <1> DEFINE o == l.options
             v == Values(l)
             w == Resolved(l.chain, c.shape, v)
             typed == Operators \cup Windows \cup {"max-runtime"}
             ids == l.ids
             defaults == c.defaults
  <1>1. l.chain \in EvmChains \cup {"bt"} /\ l.command \in DOMAIN Commands(l.chain)
        /\ DOMAIN ids \subseteq IdNames
    BY RequestAssumption DEF IdNames
  <1>2. Heeds(c, l.command)
    BY <1>1, LineHeeds
  <1>3. \A f \in typed : f \notin DOMAIN ids /\ f \notin DOMAIN defaults
    <2>1. "max-runtime" \in CommonNames
      BY DEF CommonNames
    <2>2. {"netuid", "mechid"} \subseteq OwnNames
      BY DEF OwnNames
    <2>3. DOMAIN defaults \subseteq {"netuid", "mechid"}
      BY <1>2 DEF Heeds
    <2> HIDE DEF ids, defaults
    <2>4. QED
      BY <1>1, <2>1, <2>2, <2>3, NamesAreApart, IdNamesAreApart DEF Asking
  <1>4. v = ids @@ (o @@ defaults)
    <2>1. v = ids @@ o @@ defaults
      BY DEF Values
    <2>2. QED
      BY <2>1 DEF @@
  <1>5. \A f \in typed : f \in DOMAIN v <=> f \in DOMAIN o
    <2> HIDE DEF v, o, ids, defaults, typed
    <2>1. QED
      BY <1>3, <1>4 DEF @@
  <1>6. \A f \in typed : f \in DOMAIN o => v[f] = o[f]
    <2> HIDE DEF v, o, ids, defaults, typed
    <2>1. QED
      BY <1>3, <1>4 DEF @@
  <1>7. DOMAIN o \subseteq c.takes /\ w # Refused
    BY DEF Accepts, Takes
  <1>8. d.condition = w /\ d.maxRuntime = Arg(v, "max-runtime", NoValue)
    BY DEF Dispatched
  <1>9. w = Resolved(l.chain, c.shape, v)
    OBVIOUS
  <1> HIDE DEF v, o, w
  <1>10. ASSUME l.command # <<"account", "balance">>, NEW f \in Given(o, Operators)
        PROVE  w.operator = f /\ w.target \in {o[f], NoValue}
    <2>1. f \in Operators /\ f \in DOMAIN o /\ f \in DOMAIN v /\ f \in c.takes /\ v[f] = o[f]
      BY <1>5, <1>6, <1>7, <1>10 DEF Given
    <2>2. ObeysOperator(w, v, f)
      <3> DEFINE chain == l.chain
                 command == l.command
      <3>1. Heeds(c, command) /\ w = Resolved(chain, c.shape, v)
        BY <1>2, <1>9
      <3>2. w # Refused /\ command # <<"account", "balance">>
        BY <1>7, <1>10
      <3> HIDE DEF chain, command
      <3>3. QED
        BY <3>1, <3>2, <2>1, OperatorIsObeyed
    <2>3. QED
      BY <2>1, <2>2 DEF ObeysOperator
  <1>11. ASSUME w.primitive = "delta" \/ l.command = <<"subnet", "price">>,
                NEW f \in Given(o, Windows)
         PROVE  w.primitive = "delta" /\ w.window.unit # "ever"
    <2>1. Given(v, Windows) # {}
      BY <1>5, <1>11 DEF Given
    <2>2. ObeysWindow(w, l.command)
      <3> DEFINE chain == l.chain
                 command == l.command
      <3>1. Heeds(c, command) /\ w = Resolved(chain, c.shape, v)
        BY <1>2, <1>9
      <3>2. w # Refused
        BY <1>7
      <3> HIDE DEF chain, command
      <3>3. ObeysWindow(w, command)
        BY <3>1, <3>2, <2>1, WindowIsObeyed
      <3>4. QED
        BY <3>3 DEF command
    <2>3. QED
      BY <1>11, <2>2 DEF ObeysWindow
  <1>12. "max-runtime" \in DOMAIN o => d.maxRuntime = o["max-runtime"]
    BY <1>5, <1>6, <1>8 DEF Arg
  <1>13. QED
    BY <1>8, <1>10, <1>11, <1>12 DEF o, HeedsLine

-----------------------------------------------------------------------------
(* The life of a request. *)

\* The line of a process is the typed one, or the one a call was built into.
LineOfRequest == IF ByTool THEN Builds(asked.tool, asked.args)
                                /\ line = BuildArgv(asked.tool, asked.args)
                           ELSE line = asked
CommandOfLine == Commands(line.chain)[line.command]

(* RequestInv: a request stays what it was; a process is given its line, and  *)
(* a watch that is started is the one that an accepted line dispatches; a     *)
(* call that ended without a watch was not built into a line, or its line     *)
(* prints help or is refused (mcp/exec.py, cli/chains/).                      *)
RequestInv ==
    /\ asked \in Calls \cup Lines
    /\ stage = "called" => ByTool
    /\ stage = "typed" => ~ByTool
    /\ stage \in {"built", "started"} => LineOfRequest
    /\ stage = "started" => /\ Accepts(CommandOfLine, line)
                            /\ watch = Dispatched(line, CommandOfLine, Values(line))
    /\ stage \in {"refused", "helped"} /\ ByTool =>
          \/ ~Builds(asked.tool, asked.args)
          \/ LineOfRequest /\ \/ PrintsHelp(line)
                              \/ ReadsAsOption(line)
                              \/ ~Accepts(CommandOfLine, line)

LEMMA ToolOfCall ==
    ASSUME asked \in Calls \cup Lines
    PROVE  /\ ByTool => asked \in Calls /\ asked.tool \in Tools
           /\ ~ByTool => asked \in Lines
  BY RequestAssumption DEF ByTool

THEOREM RequestInvHolds == RequestSpec => []RequestInv
  <1>1. RequestInit => RequestInv
    BY RequestAssumption DEF RequestInit, RequestInv, ByTool
  <1>2. RequestInv /\ [RequestNext]_requestVars => RequestInv'
    <2> SUFFICES ASSUME RequestInv, [RequestNext]_requestVars PROVE RequestInv'
      OBVIOUS
    <2>1. CASE RejectCall
      BY <2>1 DEF RequestInv, RejectCall, LineOfRequest, CommandOfLine, ByTool
    <2>2. CASE BuildLine
      BY <2>2 DEF RequestInv, BuildLine, LineOfRequest, ByTool
    <2>3. CASE ReadLine
      BY <2>3 DEF RequestInv, ReadLine, LineOfRequest, ByTool
    <2>4. CASE PrintHelp
      BY <2>4 DEF RequestInv, PrintHelp, LineOfRequest, CommandOfLine, ByTool
    <2>5. CASE RejectLine
      BY <2>5 DEF RequestInv, RejectLine, LineOfRequest, CommandOfLine, ByTool
    <2>6. CASE Dispatch
      BY <2>6 DEF RequestInv, Dispatch, LineOfRequest, CommandOfLine, ByTool
    <2>7. CASE UNCHANGED requestVars
      BY <2>7 DEF RequestInv, requestVars, LineOfRequest, CommandOfLine, ByTool
    <2>8. QED
      BY <2>1, <2>2, <2>3, <2>4, <2>5, <2>6, <2>7 DEF RequestNext
  <1>3. QED
    BY <1>1, <1>2, PTL DEF RequestSpec

\* The line of a call has the command of its tool.
LEMMA LineOfCall ==
    ASSUME RequestInv, ByTool, LineOfRequest
    PROVE  /\ asked.tool \in Tools /\ Builds(asked.tool, asked.args)
           /\ line = BuildArgv(asked.tool, asked.args)
           /\ CommandOfLine = CommandOf(asked.tool)
           /\ Values(line) = ValuesOfCall(asked.tool, asked.args)
  <1>1. asked.tool \in Tools
    BY ToolOfCall DEF RequestInv
  <1>2. Builds(asked.tool, asked.args) /\ line = BuildArgv(asked.tool, asked.args)
    BY DEF LineOfRequest
  <1>3. line.chain = asked.tool.chain /\ line.command = asked.tool.command
    BY <1>2 DEF BuildArgv
  <1>4. QED
    BY <1>1, <1>2, <1>3 DEF CommandOfLine, CommandOf, ValuesOfCall

(* A tool call starts the watch that it asks for, whatever its arguments: on  *)
(* the subnet, mechanism, account or transaction of the call, with its        *)
(* condition, window, limits and endpoint (mcp/exec.py:127-260, cli/chains/). *)
THEOREM AskedIsWatchedHolds == RequestSpec => []AskedIsWatched
  <1>1. RequestInv => AskedIsWatched
    <2> SUFFICES ASSUME RequestInv, stage = "started", ByTool PROVE AskedIsWatched
      BY DEF AskedIsWatched
    <2>1. LineOfRequest /\ watch = Dispatched(line, CommandOfLine, Values(line))
      BY DEF RequestInv
    <2>2. /\ asked.tool \in Tools /\ Builds(asked.tool, asked.args)
          /\ watch = Dispatched(BuildArgv(asked.tool, asked.args), CommandOf(asked.tool),
                                ValuesOfCall(asked.tool, asked.args))
      BY <2>1, LineOfCall
    <2>3. QED
      BY <2>2, CallIsWatched DEF AskedIsWatched
  <1>2. QED
    BY <1>1, RequestInvHolds, PTL

(* A call whose arguments its input model accepts starts a watch, but for the *)
(* exceptions that ValidIsStarted names (no kind of condition, a malformed    *)
(* token, text that begins as an option does): the rules of the command,      *)
(* written a second time, refuse nothing more (cli/inputs/, cli/chains/).     *)
THEOREM ValidIsStartedHolds == RequestSpec => []ValidIsStarted
  <1>1. RequestInv => ValidIsStarted
    <2> SUFFICES ASSUME RequestInv, stage \in {"refused", "helped"}, ByTool,
                        Validates(asked.tool.input, asked.args),
                        "condition" \in DOMAIN asked.args => KnownKind(asked.args.condition),
                        Arg(asked.args, "token", NoValue) # "bad"
                 PROVE  \E f \in {"token", "name", "rpc_url"} :
                           Arg(asked.args, f, NoValue) \in OptionLike
      BY DEF ValidIsStarted
    <2>1. Builds(asked.tool, asked.args)
      BY DEF Builds
    <2>2. /\ LineOfRequest
          /\ PrintsHelp(line) \/ ReadsAsOption(line) \/ ~Accepts(CommandOfLine, line)
      BY <2>1 DEF RequestInv
    <2>3. /\ asked.tool \in Tools /\ line = BuildArgv(asked.tool, asked.args)
          /\ CommandOfLine = CommandOf(asked.tool)
      BY <2>2, LineOfCall
    <2>4. Accepts(CommandOfLine, line)
      BY <2>1, <2>3, CallIsAccepted
    <2>5. QED
      BY <2>1, <2>2, <2>3, <2>4, CallHelpsOnly
  <1>2. QED
    BY <1>1, RequestInvHolds, PTL

LEMMA LineOfTyped ==
    ASSUME RequestInv, stage = "started", ~ByTool
    PROVE  TypedIsHeeded
  <1> DEFINE c == CommandOfLine
             d == watch
  <1>1. /\ line = asked /\ Accepts(c, line)
        /\ d = Dispatched(line, c, Values(line))
    BY DEF RequestInv, LineOfRequest
  <1>2. asked \in Lines
    BY ToolOfCall DEF RequestInv
  <1>3. c = Commands(asked.chain)[asked.command]
    BY <1>1 DEF CommandOfLine
  <1> HIDE DEF c, d
  <1>4. HeedsLine(asked, d)
    BY <1>1, <1>2, <1>3, LineIsHeeded
  <1>5. QED
    BY <1>4 DEF TypedIsHeeded, HeedsLine, d

(* A typed line that starts a watch asks for one thing only, whatever its     *)
(* options: each operator that was typed is the one of the condition, each    *)
(* window of a percentage move or of a subnet's price is looked at, and the   *)
(* time limit is kept (cli/chains/).                                          *)
THEOREM TypedIsHeededHolds == RequestSpec => []TypedIsHeeded
  <1>1. RequestInv => TypedIsHeeded
    BY LineOfTyped DEF TypedIsHeeded
  <1>2. QED
    BY <1>1, RequestInvHolds, PTL
=============================================================================
