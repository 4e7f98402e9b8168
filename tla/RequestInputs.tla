---------------------------- MODULE RequestInputs ----------------------------
(* Tool calls and command lines for TLC: each field with values inside, at   *)
(* and outside its range, one or two at a time.                              *)
EXTENDS McpTools

Time(n) == [unit |-> "time", n |-> n]
Blocks(n) == [unit |-> "blocks", n |-> n]
NoDuration == [unit |-> "none", n |-> 1]

\* Values of the fields.  The first of each is a good one.
Good == "netuid" :> 7 @@ "hotkey" :> "hk" @@ "coldkey" :> "ck" @@ "tx_hash" :> "0x1"
        @@ "token" :> "usdc" @@ "silent_for" :> Blocks(2) @@ "size" :> 3 @@ "max_bps" :> 4
        @@ "finality" :> "included" @@ "event_type" :> "transfer"
ValuesOf(f) ==
    CASE f = "netuid" -> {-1, 0, 4095, 4096, 65535, 65536, NoValue}
      [] f = "mechid" -> {0, 3, 15, 16}
      [] f \in {"hotkey", "coldkey", "tx_hash"} -> {"other", "bad", NoValue}
      [] f = "token" -> {"other", "bad", "--help", "--text", NoValue}
      [] f = "silent_for" -> {Time(1), Time(0), Blocks(1), NoDuration, NoValue}
      [] f = "max_runtime" -> {Time(1), Time(0), Blocks(1), NoDuration, NoValue}
      [] f \in {"max_ru", "amount_min"} -> {0, 1, -1, NoValue}
      [] f \in {"size", "max_bps"} -> {1, 0, Infinite, NoValue}
      [] f = "finality" -> {"finalized", "safe"}
      [] f = "confirmations" -> {0, 1, 2, NoValue}
      [] f = "name" -> {"label", "--help", "--text", NoValue}
      [] f = "rpc_url" -> {"wss", "--help", "--text", NoValue}
      [] OTHER -> {"anything"}

AllConditions ==
    {<<>>, "kind" :> "on-change", "kind" :> "below"}
    \cup {"kind" :> k @@ "value" :> v :
            k \in Thresholds \cup {"changes-to", "changes-from"}, v \in {-1, 0, 1, Infinite}}
    \cup {"kind" :> k @@ "pct" :> p : k \in Deltas, p \in {0, 2, Infinite}}
    \cup {"kind" :> k @@ "pct" :> 2 @@ "window_time" :> x :
                  k \in Deltas, x \in {Time(3), Time(0), Blocks(3), NoValue}}
    \cup {"kind" :> k @@ "pct" :> 2 @@ w :> x : k \in Deltas, x \in {0, 3, NoValue},
                  w \in {"window_blocks", "window_epochs"}}
    \cup {"kind" :> k @@ "pct" :> 2 @@ "window_time" :> Time(3) @@ "window_blocks" :> x :
                  k \in Deltas, x \in {3, NoValue}}

Base(t) == [f \in t.input.required |->
               IF f # "condition" THEN Good[f]
               ELSE IF "below" \in t.input.condition.kinds
                    THEN "kind" :> "below" @@ "value" :> 1
                    ELSE "kind" :> "on-change"]
           @@ IF t.input = EventInput THEN "event_type" :> "transfer" ELSE <<>>

\* Each condition; each value of each field, and its absence; and a field no
\* tool has.
CallsOf(t) ==
    LET fields == t.input.required \cup t.input.optional
        base == Base(t)
        without(f) == [g \in DOMAIN base \ {f} |-> base[g]]
    IN {base} \cup {"condition" :> c @@ base : c \in AllConditions}
       \cup UNION {{f :> v @@ base : v \in ValuesOf(f)} : f \in fields \ {"condition"}}
       \cup {without(f) : f \in fields}
       \cup {"out" :> "file" @@ base}
       \cup {f :> v @@ g :> u @@ base : f \in fields \cap {"netuid"}, v \in {0, 4095},
                                       g \in fields \cap {"mechid"}, u \in {0, 15}}

Maybe(f, values) == {<<>>} \cup {f :> v : v \in values}
EventArgs ==
    {type @@ raw @@ from @@ to @@ amount @@ direction :
        type \in Maybe("event_type", {"transfer", "swap", "unknown", NoValue}),
        raw \in Maybe("type_raw", {"Balances.Transfer", "bad", NoValue}),
        from \in Maybe("from_addr", {"alice", "bad"}),
        to \in Maybe("to_addr", {"alice", "bob"}),
        amount \in Maybe("amount_min", {-1, 1}),
        direction \in Maybe("direction", {"in", "out", "both", NoValue})}
TxArgs == {"tx_hash" :> "0x1" @@ finality @@ confirmations :
              finality \in Maybe("finality", {"included", "safe", "finalized"}),
              confirmations \in Maybe("confirmations", {0, 1, 2, NoValue})}

ToolCalls == UNION {[tool : {t}, args : CallsOf(t)] : t \in Tools}
           \cup [tool : {EventTool}, args : EventArgs]
           \cup UNION {[tool : {t}, args : TxArgs] : t \in {u \in Tools : u.command = <<"tx">>}}

\* Typed lines: up to two options of a command, or three of a price.
OptionValues(f) ==
    CASE f \in Thresholds -> {1, Infinite}
      [] f \in Deltas -> {0, 2}
      [] f = "window-time" -> {Time(3), Blocks(3)}
      [] f \in {"window-blocks", "window-epochs"} -> {0, 3}
      [] f = "silent-for" -> {Time(1), Blocks(0)}
      [] f = "max-runtime" -> {Time(1), Blocks(1)}
      [] f = "on-change" -> {TRUE}
      [] f \in {"changes-to", "changes-from"} -> {1, 2}
      [] f = "name" -> {"label", "--help", "--text"}
      [] f = "rpc-url" -> {"wss", "--help"}
      [] OTHER -> {}
Choices(takes) == UNION {{<<f, v>> : v \in OptionValues(f)} : f \in takes}
Options(takes) ==
    {<<>>} \cup {x[1] :> x[2] : x \in Choices(takes)}
    \cup {x[1] :> x[2] @@ y[1] :> y[2] : x, y \in Choices(takes)}
Three == {d :> 2 @@ w :> (IF w = "window-time" THEN Time(3) ELSE 3) @@ f :> 1 :
            d \in Deltas, w \in Windows, f \in Thresholds}
GoodIds(c) == [f \in c.params |-> Good[f]]
TypedLines ==
    UNION {UNION {[chain : {chain}, command : {command}, ids : {GoodIds(Commands(chain)[command])},
                   options : Options(Commands(chain)[command].takes)] :
                     command \in DOMAIN Commands(chain)} : chain \in EvmChains \cup {"bt"}}
    \cup [chain : {"bt"}, command : {<<"subnet", "price">>}, ids : {"netuid" :> 7},
          options : Three]
=============================================================================
