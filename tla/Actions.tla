------------------------------ MODULE Actions ------------------------------
(***************************************************************************)
(* The actions of a transaction: kinds, the fields of each kind, and what  *)
(* an action becomes as signable bytes and as JSON.  Field values are      *)
(* tokens: the encodings are kept as far as they change a value.           *)
(***************************************************************************)
EXTENDS Sequences, FiniteSets, TLC

\* How a field is encoded: "plain" exactly; "fixed" and "optFixed" as a number in JSON
\* and as a whole number of 1e-8 in binary form; "strFixed" as a string in JSON;
\* "num" and "optNum" as a number in JSON and exactly in binary form; "map" as the
\* entries of a HashMap, in the order of the instance.
Of(class, fields) == [f \in fields |-> class]

\* The fields by kind, one definition per source file that declares them.
StopFields ==
  Of("plain", {"symbol", "is_above", "iso", "builder_code"})
    @@ Of("fixed", {"size", "threshold"}) @@ Of("optFixed", {"limit", "slippage"})

OrderFields ==
  [MarketOrder |-> Of("plain", {"symbol", "is_buy", "reduce_only", "iso", "builder_code"})
                     @@ Of("fixed", {"size"}) @@ Of("optFixed", {"slippage"}),
   LimitOrder  |-> Of("plain", {"symbol", "is_buy", "tif", "reduce_only", "iso", "builder_code"})
                     @@ Of("fixed", {"price", "size"})]

CancelFields ==
  [ModifyOrder |-> Of("plain", {"order_id", "symbol"}) @@ Of("num", {"amount"}),
   Cancel      |-> Of("plain", {"symbol", "oid"}),
   CancelAll   |-> Of("plain", {"symbols"})]

ConditionalFields ==
  [Stop       |-> StopFields,
   TakeProfit |-> StopFields,
   Range      |-> Of("plain", {"symbol", "is_buy", "iso", "builder_code"})
                    @@ Of("fixed", {"size", "collar_min", "collar_max"})
                    @@ Of("optFixed", {"limit_min", "limit_max", "sl_slippage", "tp_slippage"}),
   Trigger    |-> Of("plain", {"symbol", "is_above"}) @@ Of("fixed", {"threshold"})]

TrailingFields ==
  [Trailing   |-> Of("plain", {"symbol", "is_buy", "trail_bps", "step_bps", "iso", "builder_code"})
                    @@ Of("fixed", {"size"}) @@ Of("optFixed", {"limit", "slippage"}),
   OnFill     |-> Of("plain", {})]

OracleFields ==
  [Price      |-> Of("plain", {"timestamp", "asset"}) @@ Of("num", {"price"}),
   PythOracle |-> Of("plain", {"oracles"}),
   Corrs      |-> Of("plain", {"index"}) @@ Of("num", {"matrix"})]

AccountFields ==
  [FrostWithdrawStart   |-> Of("plain", {"hash", "recipient_token_account", "vault",
                                         "vault_token_account", "mint", "amount"}),
   Faucet               |-> Of("plain", {"user"}) @@ Of("optNum", {"amount"}),
   WhitelistFaucet      |-> Of("plain", {"target", "whitelist"}),
   AgentWalletCreation  |-> Of("plain", {"agent", "delete"}),
   ApproveCommissionFee |-> Of("plain", {"to", "max_fee"}),
   RevokeCommissionFee  |-> Of("plain", {"to"}),
   UpdateUserSettings   |-> Of("map", {"max_leverage"})]

SubaccountFields ==
  [CreateSubAccount |-> Of("plain", {"name"}) @@ Of("optNum", {"margin_amount"}),
   RemoveSubAccount |-> Of("plain", {"to_remove"}),
   RenameSubAccount |-> Of("plain", {"account", "name"}),
   Transfer         |-> Of("plain", {"kind", "from", "to", "symbol"}) @@ Of("num", {"margin_amount"})]

Ballot == Of("plain", {"multisig", "proposal_id"})

MultisigFields ==
  [CreateMultisig       |-> Of("plain", {"signers", "threshold", "time_lock_secs",
                                         "proposal_lifetime_secs"}),
   MultisigPropose      |-> Of("plain", {"multisig", "proposal_lifetime_secs"}),
   MultisigApprove      |-> Ballot,
   MultisigReject       |-> Ballot,
   MultisigCancel       |-> Ballot,
   MultisigExecute      |-> Ballot,
   UpdateMultisigPolicy |-> Of("plain", {"multisig", "signers", "threshold", "time_lock_secs",
                                         "proposal_lifetime_secs"})]

MetaFields ==
  [Beacon           |-> Of("plain", {"epoch", "wall_clock_ns", "since_commit_us",
                          "per_peer_origination", "row_unattributed", "per_peer_participation",
                          "participation_total_rounds", "stake_announce"}),
   Join             |-> Of("plain", {"committed_round"}),
   AddMarket        |-> Of("plain", {"symbol"}),
   MarketAdmin      |-> Of("plain", {"symbol", "action"}) @@ Of("strFixed", {"price"})]

ConfigFields ==
  [PricingAdmin     |-> Of("plain", {"instrument", "oracle_source"}),
   ConfigFairPrice  |-> Of("plain", {"payload"}),
   ConfigVolatility |-> Of("plain", {"payload"}),
   ConfigSecurity   |-> Of("plain", {"payload"}),
   ConfigRegime     |-> Of("plain", {"payload"}),
   ConfigRisk       |-> Of("plain", {"payload"}),
   ConfigFeePolicy  |-> Of("plain", {"payload"}),
   UpdateValidatorSet |-> Of("plain", {"added", "removed", "version", "admin_sigs", "tier_changes"})]

RiskFields ==
  [UpdateRiskConfig |-> Of("plain", {"settle_ccy"})
     @@ Of("num", {"max_loss", "eloss_floor", "max_pliq", "margin_buffer", "corr_discount",
                   "cascade_factor", "eloss_timescale"})]

LiquidatorFields ==
  [UpdateLiquidatorConfig |-> Of("plain", {"price_to_sweep", "instruments"})
     @@ Of("num", {"cross_exposure", "scoring_skew", "toxicity", "urgency_size_fraction", "sweep_sds"})]

BridgeFields ==
  [Deposit              |-> Of("plain", {"user", "vault", "amount", "solana_signature",
                                         "instruction_index"}),
   Withdraw             |-> Of("plain", {"user", "vault", "recipient_token_account", "amount",
                                         "solana_signature", "instruction_index"}),
   WithdrawConfirmation |-> Of("plain", {"user_token_account", "hash", "signature",
                                         "instruction_index"}),
   WithdrawSubmitted    |-> Of("plain", {"hash", "signature", "recipient_token_account", "vault",
                                         "vault_token_account", "mint", "amount", "blockhash"}),
   WithdrawFailed       |-> Of("plain", {"hash", "reason"}),
   NonceCommitment      |-> Of("plain", {"signer", "hiding", "binding", "session_id"}),
   PartialSignature     |-> Of("plain", {"signer", "session_id", "share"}),
   DkgRound1            |-> Of("plain", {"signer", "epoch", "package"}),
   DkgFinished          |-> Of("plain", {"signer", "epoch"}),
   InitializeVault      |-> Of("plain", {"vault", "mint", "token_account", "solana_signature",
                                         "instruction_index"}),
   UpdateFrostGroup     |-> Of("plain", {"state", "frost_group_key", "solana_signature",
                                         "instruction_index"}),
   SolanaBlockAnchor    |-> Of("plain", {"slot", "blockhash"})]

SystemFields ==
  [RewardSettlement     |-> Of("plain", {"epoch", "weights"}),
   PreDepositCredit     |-> Of("plain", {"user", "vault", "amount", "migration_slot",
                                         "pre_deposit_pda", "entry_index"}),
   StartPreDepositDatasetMigration |-> Of("plain", {"dataset_id", "total_entries", "chunk_size",
                                         "start_slot", "format_version"}),
   ConfigMakerRebateTier |-> Of("plain", {"instrument", "maker", "minimum_tier", "expires_slot"}),
   UpdateAccountPolicy  |-> Of("optNum", {"withdraw_fee_usd", "min_withdraw_usd",
                                          "min_external_transfer_usd"}),
   UserAdmin            |-> Of("plain", {"pubkey", "maxorders", "global_maxorders"}),
   ConfigFunding        |-> Of("plain", {"symbol", "sample_period", "mean_window"})
                              @@ Of("num", {"rate", "deviation_cap", "funding_cap",
                                            "premium_horizon", "notional"}),
   ActivateProtocolVersion |-> Of("plain", {"version"}),
   RevokePendingActivation |-> Of("plain", {"version"}),
   HarvestProviderFees  |-> Of("plain", {"provider"}) @@ Of("optNum", {"percentage"})]

\* enum Action: the reserved ordinal 67 has no value and no kind here.
Tables ==
  {OrderFields, CancelFields, ConditionalFields, TrailingFields, OracleFields, AccountFields,
   SubaccountFields, MultisigFields, MetaFields, ConfigFields, RiskFields, LiquidatorFields,
   BridgeFields, SystemFields}

Kinds == UNION {DOMAIN table : table \in Tables}

Schema == [kind \in Kinds |-> (CHOOSE table \in Tables : kind \in DOMAIN table)[kind]]

IsAdmin(kind) ==
  kind \in {"AddMarket", "Corrs", "PricingAdmin", "MarketAdmin", "ConfigRegime", "ConfigSecurity",
            "ConfigFairPrice", "ConfigVolatility", "ConfigRisk", "UpdateRiskConfig",
            "UpdateLiquidatorConfig", "UpdateAccountPolicy", "ConfigFunding", "UserAdmin",
            "ActivateProtocolVersion", "RevokePendingActivation",
            "StartPreDepositDatasetMigration"}

IsFeeAdmin(kind) == kind \in {"ConfigFeePolicy", "ConfigMakerRebateTier", "HarvestProviderFees"}

\* An action as its callers construct it: what they fix, the arguments for the rest, and
\* nothing nested in it yet.
Built(kind, args, fixed) ==
  [kind |-> kind,
   vals |-> [f \in DOMAIN Schema[kind] |-> IF f \in DOMAIN fixed THEN fixed[f] ELSE args[f]],
   kids |-> <<>>, order |-> "xy"]

-----------------------------------------------------------------------------
(* Values.  "a+" differs from "a" by less than the fixed-point unit, "nan" *)
(* is not a number, "none" an absent option, "m1" and "m2" are maps of one *)
(* and of two entries.                                                     *)

ValuesOf(class) ==
  CASE class = "plain"    -> {"a", "b"}
    [] class = "fixed"    -> {"a", "a+", "b", "nan"}
    [] class = "num"      -> {"a", "b", "nan"}
    [] class = "optNum"   -> {"a", "b", "nan", "none"}
    [] class = "map"      -> {"m1", "m2"}
    [] OTHER              -> {"a", "a+", "b", "nan", "none"}

Default(class) == IF class = "map" THEN "m1" ELSE "a"

\* What a value is in the signable bytes: `as u64` of a rounded product, 0 for NaN, and
\* the entries of a map in the order of the HashMap it is read from.
Binary(class, v, order) ==
  IF class \in {"fixed", "optFixed", "strFixed"}
  THEN IF v = "a+" THEN "a" ELSE IF v = "nan" THEN "zero" ELSE v
  ELSE IF class = "map" THEN <<v, IF v = "m2" THEN order ELSE "xy">> ELSE v

\* Mutant: an absent option comes out as its default.
ReparsedDefault(class, v) == IF v = "none" THEN "a" ELSE v

\* What comes out of the JSON: serde_json writes NaN as null, which a plain number
\* refuses ("error") and an option reads as none.
Reparsed(class, v) ==
  IF v = "nan" /\ class \in {"fixed", "num"} THEN "error"
  ELSE IF v = "nan" /\ class \in {"optFixed", "optNum"} THEN "none" ELSE v

=============================================================================
