----------------------------- MODULE MarketPlan -----------------------------
(***************************************************************************)
(* The commands of bulk-sdk: the action lists it proposes for a new        *)
(* market, a risk cube or security definitions.  The configuration tree is *)
(* a record: the definitions in Currencies.json and Perpetuals.json, which *)
(* risk and model files exist, whether bulk-sdk-core accepts what is in    *)
(* them, and the executor file with its funding and liquidator sections.   *)
(***************************************************************************)
EXTENDS Commands

Pair(symbol) == <<symbol, "USD">>
Wildcard     == <<"*">>
Tiers        == {"low", "medium", "high"}

Opaque(kind, content) == Built(kind, [payload |-> content], NothingFixed)

\* opaque_action over what RiskCube::from_csv reads.
ConfigRiskAction(args) ==
  IF args.coin = "unknown" \/ args.csv = "bad" THEN Refused
  ELSE Does(<<Opaque("ConfigRisk", args.csv)>>)

\* One definition is a list of one; all have to parse before any is used.
ConfigSecurityActions(args) ==
  IF args.definitions = <<>> \/ "bad" \in Range(args.definitions) THEN Refused
  ELSE Does([i \in DOMAIN args.definitions |-> Opaque("ConfigSecurity", args.definitions[i])])

\* The only definition of that name, when it has the right type; otherwise none.
SelectSecurityDefinition(definitions, name, type) ==
  LET named == SelectSeq(definitions, LAMBDA d : d.name = name)
  IN  IF Len(named) = 1 /\ named[1].type = type THEN <<named[1]>> ELSE <<>>

\* Exactly one of the two file names of a tier.
ReadReference(files, kind) == Cardinality(files.models[kind] \cap {"tier", "BIP1"}) = 1

ReadMarketModel(files, kind, tier) ==
  IF tier = "none" THEN "named" \in files.models[kind] ELSE ReadReference(files, kind)

ModelKinds == {"volatility", "fairprice", "regime"}

\* The securities to configure, or <<>> when anything is missing or ambiguous.
ReadMarketPlan(files, args) ==
  LET currency  == SelectSecurityDefinition(files.currencies, args.symbol, "Currency")
      perpetual == SelectSecurityDefinition(files.perpetuals, Pair(args.symbol), "Perpetual")
  IN  IF /\ args.symbol \notin {"", "paper"}
         /\ args.tier \in Tiers \cup {"none"}
         /\ currency # <<>> /\ perpetual # <<>>
         /\ perpetual[1].pccy = args.symbol /\ perpetual[1].qccy = "USD"
         /\ (IF args.tier = "none" THEN args.symbol ELSE args.tier) \in files.risk
         /\ \A kind \in ModelKinds : ReadMarketModel(files, kind, args.tier)
      THEN (IF args.skip_currency THEN <<>> ELSE currency) \o perpetual
      ELSE <<>>

\* The entry of the pair, or the wildcard, whole; "none" when it is absent or incomplete.
FundingConfigFor(funding, pair) ==
  LET selected == CASE pair \in DOMAIN funding -> funding[pair]
                    [] pair \notin DOMAIN funding /\ Wildcard \in DOMAIN funding -> funding[Wildcard]
                    [] OTHER -> "partial"
  IN  IF selected = "partial" THEN "none" ELSE selected

FundingAction(pair, parameters) ==
  Built("ConfigFunding", [f \in DOMAIN Schema["ConfigFunding"] |-> parameters], [symbol |-> pair])

\* The market comes after everything it needs.
BuildMarketActions(plan, symbol, funding) ==
  [i \in DOMAIN plan |-> Opaque("ConfigSecurity", plan[i].name)]
    \o <<Opaque("ConfigVolatility", symbol), Opaque("ConfigFairPrice", symbol),
         Opaque("ConfigRegime", symbol), Opaque("ConfigRisk", symbol),
         FundingAction(Pair(symbol), funding),
         Built("AddMarket", [symbol |-> Pair(symbol)], NothingFixed)>>

CreateMarketActions(files, args) ==
  LET plan    == ReadMarketPlan(files, args)
      funding == FundingConfigFor(files.funding, Pair(args.symbol))
  IN  IF plan = <<>> \/ ~files.valid \/ funding = "none" THEN Refused
      ELSE Does(BuildMarketActions(plan, args.symbol, funding))

\* The liquidator section of the executor file with the pair's policy, its own or the only
\* wildcard's, moved to the end.
MarketLiquidatorAction(policies, pair) ==
  LET own      == SelectSeq(policies, LAMBDA p : p.symbol = pair)
      wildcard == SelectSeq(policies, LAMBDA p : p.symbol = Wildcard)
      others   == SelectSeq(policies, LAMBDA p : p.symbol # pair)
      update(p) == Does(<<Built("UpdateLiquidatorConfig",
                          [f \in DOMAIN Schema["UpdateLiquidatorConfig"] |-> "local"],
                          [instruments |-> Append(others, [p EXCEPT !.symbol = pair])])>>)
  IN  CASE own # <<>> -> update(own[1])
        [] own = <<>> /\ Len(wildcard) = 1 -> update(wildcard[1])
        [] OTHER -> Refused

\* Mutant: the market is left running.
PrepareMarketActionsOpen(files, args) ==
  LET created == CreateMarketActions(files, args)
      policy  == MarketLiquidatorAction(files.liquidator, Pair(args.symbol))
  IN  IF created.ok /\ policy.ok THEN Does(created.actions \o policy.actions) ELSE Refused

PrepareMarketActions(files, args) ==
  LET created == CreateMarketActions(files, args)
      policy  == MarketLiquidatorAction(files.liquidator, Pair(args.symbol))
  IN  IF created.ok /\ policy.ok
      THEN Does(created.actions \o policy.actions \o <<Suspended(Pair(args.symbol))>>)
      ELSE Refused

\* The commands of bulk-sdk.
SdkDispatch(c) ==
  CASE c.name \in {"create-bip1", "create-market"} -> PrepareMarketActions(c.args.files, c.args)
    [] c.name = "config-risk-matrix"               -> ConfigRiskAction(c.args)
    [] OTHER                                       -> ConfigSecurityActions(c.args)

=============================================================================
