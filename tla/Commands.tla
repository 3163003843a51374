------------------------------ MODULE Commands ------------------------------
(***************************************************************************)
(* The commands of bulk-cli: what each one makes of its arguments.  A      *)
(* command is [name, args] with args a record whose fields are named as    *)
(* those of the action they end up in.  Numbers are tokens: "zero", "neg", *)
(* "nan", "over" and "none" (not given) are the ones the code tells apart. *)
(***************************************************************************)
EXTENDS Actions, CliArgs, SequencesExt

Refused        == [ok |-> FALSE, actions |-> <<>>]
Does(actions)  == [ok |-> TRUE, actions |-> actions]
NothingFixed   == <<>>
DoesOne(kind, args, fixed) == Does(<<Built(kind, args, fixed)>>)

\* `x <= 0.0`, which lets NaN pass.
NotPositive(x) == x \in {"zero", "neg"}

-----------------------------------------------------------------------------
(* Account, orders, conditional orders.                                    *)

HandleFaucet(args, account) == DoesOne("Faucet", args, [user |-> account])

\* Symbols given twice collapse in the HashMap.
HandleUpdateLeverage(args) ==
  LET symbols == {args.settings[i][1] : i \in DOMAIN args.settings}
  IN  IF args.settings = <<>> THEN Refused
      ELSE DoesOne("UpdateUserSettings", args,
                   [max_leverage |-> IF Cardinality(symbols) = 1 THEN "m1" ELSE "m2"])

HandleAgentWallet(args) == DoesOne("AgentWalletCreation", args, NothingFixed)

\* --margin-symbol is read and not used.
HandleCreateSubaccount(args) == DoesOne("CreateSubAccount", args, NothingFixed)

HandleRemoveSubaccount(args) == DoesOne("RemoveSubAccount", args, NothingFixed)

HandleTransfer(args) ==
  IF args.kind \in {"internal", "external"} THEN DoesOne("Transfer", args, NothingFixed)
  ELSE Refused

\* QtyPrice::from_str
QtyPriceOk(args) == ~NotPositive(args.size) /\ ~NotPositive(args.price)

HandlePlace(args) ==
  CASE ~QtyPriceOk(args) -> Refused
    [] args.price # "none" /\ args.slippage # "none" -> Refused
    [] args.price # "none" /\ args.slippage = "none" ->
         DoesOne("LimitOrder", args, [builder_code |-> "none"])
    [] OTHER -> DoesOne("MarketOrder", args,
                  [builder_code |-> "none",
                   slippage |-> IF args.slippage = "none" THEN "100bps" ELSE args.slippage])

HandleModify(args) == DoesOne("ModifyOrder", args, [amount |-> args.size])

HandleCancel(args) == DoesOne("Cancel", args, NothingFixed)

HandleCancelAll(args) ==
  DoesOne("CancelAll", args,
          [symbols |-> IF args.instrument = "none" THEN <<>> ELSE <<args.instrument>>])

Bare == [iso |-> "false", builder_code |-> "none"]

HandleStop(args)       == DoesOne("Stop", args, Bare)

HandleTakeProfit(args) == DoesOne("TakeProfit", args, Bare)

HandleRange(args) ==
  DoesOne("Range", args, Bare @@ [collar_min |-> args.min, collar_max |-> args.max])

HandleTrailing(args)   == DoesOne("Trailing", args, Bare)

-----------------------------------------------------------------------------
(* Multisig accounts.                                                      *)

HandleCreateMultisig(args) ==
  IF args.threshold = 0 \/ args.threshold > Len(args.signers) THEN Refused
  ELSE DoesOne("CreateMultisig", args, NothingFixed)

\* An option that is not given is "none", or -1 for the threshold and <<>> for the signers.
HandleUpdateMultisigPolicy(args) ==
  LET given == {f \in {"time_lock_secs", "proposal_lifetime_secs"} : args[f] # "none"}
  IN  IF \/ args.threshold = 0
         \/ args.signers # <<>> /\ args.threshold > Len(args.signers)
         \/ args.signers = <<>> /\ args.threshold = -1 /\ given = {}
      THEN Refused
      ELSE DoesOne("UpdateMultisigPolicy", args, NothingFixed)

HandleMultisigBallot(name, args) ==
  LET kind == CASE name = "multisig-approve" -> "MultisigApprove"
                [] name = "multisig-reject"  -> "MultisigReject"
                [] name = "multisig-cancel"  -> "MultisigCancel"
                [] OTHER                     -> "MultisigExecute"
  IN  DoesOne(kind, args, NothingFixed)

-----------------------------------------------------------------------------
(* Administration.  args.json stands for what is read from the argument or *)
(* from the file it names: "bad" when it cannot be read or parsed.         *)

Parsed1(kind, args) ==
  IF args.json = "bad" THEN Refused
  ELSE Does(<<Built(kind, [f \in DOMAIN Schema[kind] |-> args.json], NothingFixed)>>)

HandleRiskConfig(args)    == Parsed1("UpdateRiskConfig", args)

HandleFundingConfig(args) == Parsed1("ConfigFunding", args)

HandleAccountPolicy(args) == Parsed1("UpdateAccountPolicy", args)

\* clap takes exactly one of --maxorders and --use-global.
HandleUserAdmin(args) ==
  IF (args.maxorders # "none") = args.use_global THEN Refused
  ELSE DoesOne("UserAdmin", args,
               [maxorders |-> IF args.use_global THEN "none" ELSE args.maxorders])

\* parse_liquidator_config: instruments given as an object, by symbol, become a list; the
\* key wins over a symbol inside the entry, and an entry has to be an object.
NamedPolicies(instruments) ==
  [i \in DOMAIN instruments |-> [symbol |-> instruments[i].key, policy |-> instruments[i].policy]]

HandleLiquidatorConfig(args) ==
  IF args.json = "bad" \/ \E i \in DOMAIN args.instruments : args.instruments[i].policy = "scalar"
  THEN Refused
  ELSE Does(<<Built("UpdateLiquidatorConfig",
                    [f \in DOMAIN Schema["UpdateLiquidatorConfig"] |-> args.json],
                    [instruments |-> NamedPolicies(args.instruments)])>>)

HandleCorrs(args) == Parsed1("Corrs", args)

Suspended(symbol) ==
  Built("MarketAdmin", [symbol |-> symbol, action |-> "Suspend", price |-> "none"], NothingFixed)

HandleAddMarket(args) == Does(<<Built("AddMarket", args, NothingFixed), Suspended(args.symbol)>>)

\* The payload is the magic, the version and the update in binary form.
HandleConfigFees(args) ==
  IF args.json = "bad" THEN Refused
  ELSE DoesOne("ConfigFeePolicy", args, [payload |-> <<"FEE2", 1, args.json>>])

HandleConfigMaker(args) == Parsed1("ConfigMakerRebateTier", args)

HandleMarketAdmin(args) ==
  IF \/ "" \in Range(args.symbols)
     \/ args.price # "none" /\ (args.action # "Close" \/ args.price \in {"zero", "neg", "nan"})
  THEN Refused
  ELSE Does([i \in DOMAIN args.symbols |->
               Built("MarketAdmin", args, [symbol |-> args.symbols[i]])])

\* The publishers each --source stands for.
OracleSource(source) ==
  CASE source = "bip"         -> {"bip"}
    [] source = "all"         -> {"bulk", "pyth", "bip"}
    [] source = "bulk-or-bip" -> {"bulk", "bip"}
    [] source = "pyth-or-bip" -> {"pyth", "bip"}
    [] source = "both"        -> {"bulk", "pyth"}
    [] source = "pyth"        -> {"pyth"}
    [] OTHER                  -> {"bulk"}

HandlePricingAdmin(args) ==
  DoesOne("PricingAdmin", args, [oracle_source |-> OracleSource(args.source)])

HandleHarvestProviderFees(args) ==
  IF args.percentage \in {"neg", "nan", "over"} THEN Refused
  ELSE DoesOne("HarvestProviderFees", args, NothingFixed)

-----------------------------------------------------------------------------
\* The commands that end in a signed transaction, as main dispatches them.
AccountCommand(c, account) ==
  CASE c.name = "faucet"            -> HandleFaucet(c.args, account)
    [] c.name = "update-leverage"   -> HandleUpdateLeverage(c.args)
    [] c.name = "agent-wallet"      -> HandleAgentWallet(c.args)
    [] c.name = "create-subaccount" -> HandleCreateSubaccount(c.args)
    [] c.name = "remove-subaccount" -> HandleRemoveSubaccount(c.args)
    [] OTHER                        -> HandleTransfer(c.args)

OrderCommand(c) ==
  CASE c.name = "place"      -> HandlePlace(c.args)
    [] c.name = "modify"     -> HandleModify(c.args)
    [] c.name = "cancel"     -> HandleCancel(c.args)
    [] c.name = "cancel-all" -> HandleCancelAll(c.args)
    [] c.name = "stop"       -> HandleStop(c.args)
    [] c.name = "tp"         -> HandleTakeProfit(c.args)
    [] c.name = "range"      -> HandleRange(c.args)
    [] OTHER                 -> HandleTrailing(c.args)

AdminCommand(c) ==
  CASE c.name = "risk-config"    -> HandleRiskConfig(c.args)
    [] c.name = "update-funding" -> HandleFundingConfig(c.args)
    [] c.name = "account-policy" -> HandleAccountPolicy(c.args)
    [] c.name = "user-admin"     -> HandleUserAdmin(c.args)
    [] c.name = "config-fees"    -> HandleConfigFees(c.args)
    [] c.name = "config-maker"   -> HandleConfigMaker(c.args)
    [] c.name = "liq-config"     -> HandleLiquidatorConfig(c.args)
    [] c.name = "corrs"          -> HandleCorrs(c.args)
    [] c.name = "add-market"     -> HandleAddMarket(c.args)
    [] c.name = "market-admin"   -> HandleMarketAdmin(c.args)
    [] c.name = "pricing-admin"  -> HandlePricingAdmin(c.args)
    [] OTHER                     -> HandleHarvestProviderFees(c.args)

Dispatch(c, account) ==
  CASE c.name \in AccountCommands  -> AccountCommand(c, account)
    [] c.name \in OrderCommands    -> OrderCommand(c)
    [] c.name \in BallotCommands   -> HandleMultisigBallot(c.name, c.args)
    [] c.name = "create-multisig"  -> HandleCreateMultisig(c.args)
    [] c.name = "update-multisig"  -> HandleUpdateMultisigPolicy(c.args)
    [] OTHER                       -> AdminCommand(c)

=============================================================================
