----------------------------- MODULE ClearSign -----------------------------
(***************************************************************************)
(* The text a Ledger shows and signs for a transaction: a header that      *)
(* names the network, the account, the nonce and the hash of the signable  *)
(* bytes, then a line per action.  What a line leaves out is kept here,    *)
(* its wording is not.                                                     *)
(***************************************************************************)
EXTENDS Actions, SequencesExt

\* The fields that the line of a kind leaves out.
OrderLines ==
  [k \in {"MarketOrder", "LimitOrder", "ModifyOrder", "Cancel", "CancelAll"} |->
     IF k \in {"MarketOrder", "LimitOrder"} THEN {"builder_code"} ELSE {}]

ConditionalLines ==
  [k \in {"Stop", "TakeProfit", "Range", "Trailing", "Trigger", "OnFill"} |->
     IF k \in {"Trigger", "OnFill"} THEN {} ELSE {"iso", "builder_code"}]

AccountLines ==
  [k \in {"Faucet", "AgentWalletCreation", "UpdateUserSettings", "CreateSubAccount",
          "RemoveSubAccount", "RenameSubAccount", "Transfer"} |-> {}]

MultisigLines ==
  [k \in {"CreateMultisig", "MultisigPropose", "MultisigApprove", "MultisigReject",
          "MultisigCancel", "MultisigExecute", "UpdateMultisigPolicy"} |-> {}]

AdminLines ==
  [k \in {"WhitelistFaucet", "AddMarket", "MarketAdmin", "HarvestProviderFees", "PricingAdmin",
          "ConfigFairPrice", "ConfigVolatility", "ConfigSecurity", "ConfigRegime", "ConfigRisk",
          "ConfigFeePolicy", "ConfigFunding", "Price", "PythOracle", "Corrs"} |->
     IF k = "PythOracle" THEN {"oracles"} ELSE IF k = "Corrs" THEN {"matrix"} ELSE {}]

PolicyLines ==
  [k \in {"Join", "UpdateRiskConfig", "UpdateAccountPolicy", "UserAdmin", "ApproveCommissionFee",
          "RevokeCommissionFee", "RewardSettlement", "Beacon", "UpdateValidatorSet",
          "UpdateLiquidatorConfig"} |->
     IF k = "Beacon" THEN {"per_peer_origination", "row_unattributed", "per_peer_participation",
                           "participation_total_rounds", "stake_announce"}
     ELSE IF k = "UpdateValidatorSet" THEN {"added", "removed", "admin_sigs", "tier_changes"}
     ELSE IF k = "UpdateLiquidatorConfig" THEN {"instruments"} ELSE {}]

BridgeLines ==
  [k \in {"Deposit", "WithdrawConfirmation", "NonceCommitment", "PartialSignature",
          "InitializeVault", "UpdateFrostGroup", "WithdrawFailed", "ActivateProtocolVersion",
          "RevokePendingActivation", "DkgFinished", "SolanaBlockAnchor", "PreDepositCredit",
          "StartPreDepositDatasetMigration", "ConfigMakerRebateTier", "WithdrawSubmitted",
          "FrostWithdrawStart", "Withdraw", "DkgRound1"} |->
     IF k \in {"WithdrawSubmitted", "FrostWithdrawStart"} THEN {"vault_token_account", "mint"}
     ELSE IF k = "Withdraw" THEN {"solana_signature", "instruction_index"}
     ELSE IF k = "DkgRound1" THEN {"epoch", "package"} ELSE {}]

LineTables ==
  {OrderLines, ConditionalLines, AccountLines, MultisigLines, AdminLines, PolicyLines, BridgeLines}

\* Every kind has a line, as the match of action_line is exhaustive.
ASSUME LinesAreTotal == UNION {DOMAIN table : table \in LineTables} = Kinds

LeftOut(kind) == (CHOOSE table \in LineTables : kind \in DOMAIN table)[kind]

-----------------------------------------------------------------------------
(* The actions of a transaction and all that is nested in them, by         *)
(* position: <<2>> is the second action, <<2, 1>> the first one in it (for *)
(* OnFill, the trigger).  Each is [kind, vals, order]: its fields, and the *)
(* iteration order of its HashMap.                                         *)

Children(actions, p) == {q \in DOMAIN actions : Front(q) = p}

\* a number is shown with eight decimals
ShownValue(v) == IF v = "a+" THEN "a" ELSE v

\* Debug output of the on-fill trigger shows all of it; other children only as a count.
Line(actions, p) ==
  LET a        == actions[p]
      triggers == IF a.kind = "OnFill" THEN {Append(p, 1)} ELSE {}
  IN  [kind    |-> a.kind,
       fields  |-> [f \in DOMAIN a.vals \ LeftOut(a.kind) |-> ShownValue(a.vals[f])],
       trigger |-> {<<actions[q].kind, actions[q].vals>> : q \in triggers},
       nested  |-> Cardinality(Children(actions, p) \ triggers)]

\* Mutant: the lines of a proposal stop at the proposal.
RenderedFlat(actions) == {p \in DOMAIN actions : Len(p) = 1}

\* render_action: the actions of a proposal get lines of their own, at every depth.
Rendered(actions) ==
  {p \in DOMAIN actions :
     \A n \in 1..(Len(p) - 1) : actions[SubSeq(p, 1, n)].kind = "MultisigPropose"}

Message(domain, account, nonce, actions, signable) ==
  [network |-> domain, account |-> account, nonce |-> nonce,
   count   |-> Cardinality({p \in DOMAIN actions : Len(p) = 1}),
   hash    |-> signable,
   lines   |-> [p \in Rendered(actions) |-> Line(actions, p)]]
=============================================================================
