---------------------------- MODULE MCTxSigning ----------------------------
(* TxSigning for TLC: every kind with every value of every field alone,     *)
(* the nestings, and a limit order against all buses of up to two devices.  *)
EXTENDS TxSigning

Plain(k)    == [kind |-> k, vals |-> [f \in DOMAIN Schema[k] |-> Default(Schema[k][f])], order |-> "xy"]
Variants(a) == {a} \cup UNION {{[a EXCEPT !.vals[f] = v] : v \in ValuesOf(Schema[a.kind][f])}
                                 : f \in DOMAIN a.vals}
\* A list of actions, and actions under those of a list.
List(as)        == [p \in {<<i>> : i \in DOMAIN as} |-> as[p[1]]]
With(list, i, as) ==
  [p \in DOMAIN list \cup {<<i, k>> : k \in DOMAIN as} |-> IF p \in DOMAIN list THEN list[p] ELSE as[p[2]]]

Market  == Plain("MarketOrder")
Propose == List(<<Plain("MultisigPropose")>>)
Limits  == {l \in Variants(Plain("LimitOrder")) : l.vals["price"] # "a" \/ l = Plain("LimitOrder")}
Parents == {"MultisigPropose", "Trigger", "OnFill"}
Singles == UNION {Variants(Plain(k)) : k \in Kinds \ Parents}
Nested  ==
  {With(Propose, 1, <<l, Market>>) : l \in Limits}
    \cup {With(List(<<Plain("Trigger")>>), 1, <<l>>) : l \in Limits}
    \cup {With(List(<<Plain("OnFill")>>), 1, <<l, Plain("Stop")>>) : l \in Limits \cup {Plain("Cancel")}}
    \cup {With(Propose, 1, <<Plain("OnFill")>>) @@ (<<1, 1, 1>> :> k) @@ (<<1, 1, 2>> :> Market)
             : k \in {Market, Plain("Faucet")}}
    \cup {With(Propose, 1, <<Plain("MultisigPropose")>>) @@ (<<1, 1, 1>> :> Market)}
Lists   == {List(<<a>>) : a \in Singles} \cup Nested \cup {List(<<l, Market>>) : l \in Limits}
             \cup {With(List(<<Plain("MultisigPropose"), Market>>), 1, <<Market, Market>>)}

Tx1(list) == [actions |-> list, account |-> "acct", nonce |-> 7]

Device(d, strict, answer) ==
  [base |-> d, key |-> IF d = "b1" THEN "k1" ELSE "k2", strict |-> strict, answer |-> answer]
Devices == {Device(d, s, a) : d \in {"b1", "b2"}, s \in BOOLEAN, a \in {"ready", "held", "locked"}}
Calm    == {<<Device("b1", TRUE, "ready")>>}
Busses  == {<<>>} \cup {<<d>> : d \in Devices}
             \cup {<<d, e>> : d \in {x \in Devices : x.base = "b1"}, e \in {x \in Devices : x.base = "b2"}}

MCCases ==
  [tx : {Tx1(l) : l \in Lists}, mode : {"Raw", "Offchain"}, target : {"any"}, busses : {Calm}]
    \cup [tx : {Tx1(List(<<Plain("LimitOrder")>>))}, mode : {"Offchain"}, target : {"any", "k1", "b2"},
           busses : {Busses}]
MCDomains == {"mainnet", "testnet"}
=============================================================================
