------------------------------ MODULE CliArgs ------------------------------
(***************************************************************************)
(* What clap makes of the command lines of bulk-cli and bulk-sdk: the      *)
(* arguments of every command.  Texts, keys, numbers and flags are tokens, *)
(* "none" an option that was not given, except where the code counts.      *)
(***************************************************************************)
EXTENDS Integers, Sequences

Token  == STRING
Option == STRING
Count  == Int

Tokens(fields) == [fields -> Token]

-----------------------------------------------------------------------------
(* bulk-cli.                                                               *)

FaucetArgs         == Tokens({"amount"})

\* SYMBOL=LEVERAGE pairs, in order.
UpdateLeverageArgs == [settings : Seq(Token \X Token)]

AgentWalletArgs    == Tokens({"agent", "delete"})

CreateSubAccountArgs == Tokens({"name", "margin_symbol", "margin_amount"})

RemoveSubAccountArgs == Tokens({"to_remove"})

\* What is neither internal nor external is refused by HandleTransfer.
TransferArgs       == Tokens({"from", "to", "symbol", "margin_amount", "kind"})

\* A quantity with or without a price.
PlaceArgs          == Tokens({"symbol", "is_buy", "size", "price", "tif", "reduce_only", "iso",
                              "slippage", "tag"})

ModifyArgs         == Tokens({"symbol", "order_id", "size"})

CancelArgs         == Tokens({"symbol", "oid"})

CancelAllArgs      == Tokens({"instrument"})

StopArgs           == Tokens({"symbol", "size", "threshold", "is_above", "limit", "slippage"})

RangeArgs          == Tokens({"symbol", "size", "min", "max", "is_buy", "limit_min", "limit_max",
                              "sl_slippage", "tp_slippage"})

TrailingArgs       == Tokens({"symbol", "size", "is_buy", "trail_bps", "step_bps", "limit",
                              "slippage"})

CreateMultisigArgs ==
  [signers : Seq(Token), threshold : Count, time_lock_secs : Token, proposal_lifetime_secs : Token]

\* Signers that are not given are <<>>, a threshold -1.
UpdateMultisigPolicyArgs ==
  [multisig : Token, signers : Seq(Token), threshold : Count, time_lock_secs : Option,
   proposal_lifetime_secs : Option]

MultisigProposalArgs == Tokens({"multisig", "proposal_id"})

\* The text of the argument, or of the file it names, as its parser takes it.
JsonArgs           == Tokens({"json"})

UserAdminArgs      == [pubkey : Token, maxorders : Option, use_global : BOOLEAN,
                       global_maxorders : Option]

LiquidatorConfigArgs == [json : Token, instruments : Seq([key : Token, policy : Token])]

AddMarketArgs      == Tokens({"symbol"})

MarketActionArg    == {"Open", "Suspend", "Close"}

MarketAdminArgs    == [symbols : Seq(Token), action : MarketActionArg, price : Option]

OracleSourceArg    == {"bip", "all", "bulk-or-bip", "pyth-or-bip", "both", "pyth", "bulk"}

PricingAdminArgs   == [instrument : Token, source : OracleSourceArg]

HarvestProviderFeesArgs == Tokens({"provider", "percentage"})

DepositArgs        == [mint : Token, amount : Token, user_token_account : Option,
                       program_id : Token, dry_run : BOOLEAN]

WithdrawIntentArgs == DepositArgs

ConfigArgs         == {<<>>} \cup [url : Token]

-----------------------------------------------------------------------------
(* bulk-sdk.                                                               *)

\* An entry of Currencies.json or Perpetuals.json; a name is the tuple of its parts.
Definition(names) == [name : names, type : Token, pccy : Token, qccy : Token]

\* The configuration tree and the executor file.
FilesOk(files) ==
  /\ files.currencies \in Seq(Definition(Token)) /\ files.perpetuals \in Seq(Definition(Seq(Token)))
  /\ files.liquidator \in Seq([symbol : Seq(Token), policy : Token])
  /\ files.valid \in BOOLEAN

CreateMarketArgs(args) ==
  /\ args.symbol \in Token /\ args.tier \in Option
  /\ args.skip_currency \in BOOLEAN /\ args.dry_run \in BOOLEAN
  /\ FilesOk(args.files)

ConfigRiskMatrixArgs == Tokens({"coin", "csv"})

ConfigSecurityArgs   == [definitions : Seq(Token)]

-----------------------------------------------------------------------------
(* The commands, by how they are served.                                   *)

OrderCommands   == {"place", "modify", "cancel", "cancel-all", "stop", "tp", "range", "trail"}
AccountCommands == {"faucet", "update-leverage", "agent-wallet", "create-subaccount",
                    "remove-subaccount", "transfer"}
BallotCommands  == {"multisig-approve", "multisig-reject", "multisig-cancel", "multisig-execute"}
OnChain         == {"deposit", "withdraw-intent"}
ConfigCommands  == {"show", "set-api-url", "reset-api-url"}
Markets         == {"create-bip1", "create-market"}

OrderArgs(name) ==
  CASE name = "place"      -> PlaceArgs
    [] name = "modify"     -> ModifyArgs
    [] name = "cancel"     -> CancelArgs
    [] name = "cancel-all" -> CancelAllArgs
    [] name \in {"stop", "tp"} -> StopArgs
    [] name = "range"      -> RangeArgs
    [] OTHER               -> TrailingArgs

AccountArgs(name) ==
  CASE name = "faucet"            -> FaucetArgs
    [] name = "update-leverage"   -> UpdateLeverageArgs
    [] name = "agent-wallet"      -> AgentWalletArgs
    [] name = "create-subaccount" -> CreateSubAccountArgs
    [] name = "remove-subaccount" -> RemoveSubAccountArgs
    [] OTHER                      -> TransferArgs

AdminArgs(name) ==
  CASE name = "create-multisig" -> CreateMultisigArgs
    [] name = "update-multisig" -> UpdateMultisigPolicyArgs
    [] name = "user-admin"      -> UserAdminArgs
    [] name = "liq-config"      -> LiquidatorConfigArgs
    [] name = "add-market"      -> AddMarketArgs
    [] name = "market-admin"    -> MarketAdminArgs
    [] name = "pricing-admin"   -> PricingAdminArgs
    [] name = "harvest-provider-fees" -> HarvestProviderFeesArgs
    [] OTHER                    -> JsonArgs

\* enum Command of bulk-cli.
Command(name) ==
  CASE name \in OrderCommands   -> OrderArgs(name)
    [] name \in AccountCommands -> AccountArgs(name)
    [] name \in BallotCommands  -> MultisigProposalArgs
    [] name = "deposit"         -> DepositArgs
    [] name = "withdraw-intent" -> WithdrawIntentArgs
    [] name \in ConfigCommands \cup {"ledger-info"} -> ConfigArgs
    [] OTHER                    -> AdminArgs(name)

\* enum Command of bulk-sdk.
SdkCommandOk(name, args) ==
  CASE name \in Markets              -> CreateMarketArgs(args)
    [] name = "config-risk-matrix"   -> args \in ConfigRiskMatrixArgs
    [] OTHER                         -> args \in ConfigSecurityArgs

\* struct Cli of both: the signer asked for, and whether a domain, a preview and no question.
Cli(c) ==
  /\ c.key \in {"soft", "ledger", "none"}
  /\ c.domain \in BOOLEAN /\ c.preview \in BOOLEAN /\ c.yes \in BOOLEAN
  /\ c.program = "cli" => c.args \in Command(c.name)
  /\ c.program = "sdk" => SdkCommandOk(c.name, c.args)

=============================================================================
