----------------------------- MODULE MCBulkCli -----------------------------
(***************************************************************************)
(* The command lines, the configuration trees and the answers for TLC:     *)
(* for every command the arguments its code tells apart.                   *)
(***************************************************************************)
EXTENDS BulkCli

Lines(program, names, args) ==
  [program : {program}, name : names, args : args, key : {"soft"}, domain : {TRUE},
   preview : {TRUE}, yes : {FALSE}]

A  == {"a"}
AN == {"a", "none"}

Account ==
  Lines("cli", {"faucet"}, [amount : AN])
    \cup Lines("cli", {"update-leverage"},
               [settings : {<<>>, <<<<"a", "x2">>, <<"a", "x3">>>>, <<<<"a", "x2">>, <<"b", "x2">>>>}])
    \cup Lines("cli", {"agent-wallet"}, [agent : A, delete : A])
    \cup Lines("cli", {"create-subaccount"}, [name : A, margin_symbol : A, margin_amount : AN])
    \cup Lines("cli", {"remove-subaccount"}, [to_remove : A])
    \cup Lines("cli", {"transfer"}, [kind : {"internal", "other"}, from : A, to : {"b"}, symbol : AN,
                                     margin_amount : A])

Orders ==
  Lines("cli", {"place"}, [symbol : A, is_buy : A, size : {"a", "zero", "nan"},
                           price : {"a", "neg", "none"}, tif : A, reduce_only : A, iso : A,
                           slippage : AN, tag : A])
    \cup Lines("cli", {"modify"}, [order_id : A, symbol : A, size : A])
    \cup Lines("cli", {"cancel"}, [symbol : A, oid : A])
    \cup Lines("cli", {"cancel-all"}, [instrument : AN])
    \cup Lines("cli", {"stop", "tp"}, [symbol : A, is_above : A, size : A, threshold : A, limit : AN,
                                       slippage : A])
    \cup Lines("cli", {"range"}, [symbol : A, is_buy : A, size : A, min : A, max : A, limit_min : A,
                                  limit_max : A, sl_slippage : A, tp_slippage : A])
    \cup Lines("cli", {"trail"}, [symbol : A, is_buy : A, trail_bps : A, step_bps : A, size : A,
                                  limit : A, slippage : A])

Multisigs ==
  Lines("cli", {"create-multisig"}, [signers : {<<"a">>, <<"a", "a">>}, threshold : {0, 2},
                                     time_lock_secs : A, proposal_lifetime_secs : A])
    \cup Lines("cli", {"update-multisig"}, [multisig : {"m"}, signers : {<<>>, <<"a">>},
                                            threshold : {-1, 0, 2}, time_lock_secs : AN,
                                            proposal_lifetime_secs : {"none"}])
    \cup Lines("cli", BallotCommands, [multisig : A, proposal_id : A])

Admin ==
  Lines("cli", {"risk-config", "update-funding", "account-policy", "config-fees", "config-maker",
                "corrs"}, [json : {"a", "bad"}])
    \cup Lines("cli", {"user-admin"}, [pubkey : A, maxorders : AN, use_global : BOOLEAN,
                                       global_maxorders : A])
    \cup Lines("cli", {"liq-config"}, [json : {"a", "bad"},
                                       instruments : {<<[key |-> "a", policy |-> "p"]>>,
                                                      <<[key |-> "a", policy |-> "scalar"]>>}])
    \cup Lines("cli", {"add-market"}, [symbol : A])
    \cup Lines("cli", {"market-admin"}, [symbols : {<<"a", "b">>, <<"">>}, action : {"Close", "Open"},
                                         price : {"a", "zero", "none"}])
    \cup Lines("cli", {"pricing-admin"}, [instrument : A, source : OracleSourceArg])
    \cup Lines("cli", {"harvest-provider-fees"}, [provider : A, percentage : {"a", "over"}])

\* The global options, on a command of each way to end.
Globals ==
  [program : {"cli"}, name : {"cancel"}, args : [symbol : A, oid : A],
   key : {"soft", "ledger", "none"}, domain : BOOLEAN, preview : BOOLEAN, yes : BOOLEAN]

Local ==
  Lines("cli", {"ledger-info", "show", "reset-api-url"}, {<<>>})
    \cup Lines("cli", {"set-api-url"}, [url : {"u"}])

Chain ==
  [program : {"cli"}, name : OnChain,
   args : [mint : A, program_id : A, user_token_account : AN, amount : A, dry_run : {FALSE}],
   key : {"soft", "ledger"}, domain : {FALSE}, preview : BOOLEAN, yes : {FALSE}]
    \cup Lines("cli", OnChain, [mint : A, program_id : A, user_token_account : AN, amount : A,
                                dry_run : {TRUE}])

-----------------------------------------------------------------------------
Security(name, type) == [name |-> name, type |-> type, pccy |-> "BTC", qccy |-> "USD"]
Coin == Security("BTC", "Currency")
Perp == Security(Pair("BTC"), "Perpetual")

Tree ==
  [currencies |-> <<Coin>>, perpetuals |-> <<Perp>>, risk |-> {"BTC", "high"}, valid |-> TRUE,
   models |-> [kind \in ModelKinds |-> {"named", "BIP1"}],
   funding |-> (Wildcard :> "f"),
   liquidator |-> <<[symbol |-> Wildcard, policy |-> "w"]>>]

Trees ==
  {Tree,
   [Tree EXCEPT !.funding = @ @@ (Pair("BTC") :> "own"),
                !.liquidator = Append(@, [symbol |-> Pair("BTC"), policy |-> "own"])],
   [Tree EXCEPT !.funding = @ @@ (Pair("BTC") :> "partial")],
   [Tree EXCEPT !.liquidator = <<>>],
   [Tree EXCEPT !.currencies = <<Coin, Coin>>],
   [Tree EXCEPT !.perpetuals = <<Security(Pair("BTC"), "Currency")>>],
   [Tree EXCEPT !.models["regime"] = {"tier", "BIP1"}],
   [Tree EXCEPT !.risk = {}],
   [Tree EXCEPT !.valid = FALSE]}

Sdk ==
  Lines("sdk", {"create-bip1", "create-market"},
        [symbol : {"BTC"}, tier : {"none", "high"}, skip_currency : BOOLEAN, dry_run : BOOLEAN,
         files : Trees])
    \cup Lines("sdk", {"config-risk-matrix"}, [coin : {"BTC", "unknown"}, csv : {"c", "bad"}])
    \cup Lines("sdk", {"config-security"}, [definitions : {<<>>, <<"d", "bad">>, <<"d", "d2">>}])
    \cup [program : {"sdk"}, name : {"config-security"}, args : [definitions : {<<"d">>}],
          key : {"soft", "none"}, domain : BOOLEAN, preview : BOOLEAN, yes : BOOLEAN]

-----------------------------------------------------------------------------
\* A method of the library; with overrides too for the run that checks them.
Single(name, args, accounts, nonces) ==
  {[program |-> "lib", name |-> name, key |-> "soft", domain |-> TRUE, preview |-> FALSE,
    yes |-> FALSE, args |-> args @@ [account |-> a, nonce |-> n]] : a \in accounts, n \in nonces}

Order == [symbol |-> "a", is_buy |-> "a", size |-> "a", price |-> "a", tif |-> "a",
          reduce_only |-> "a", slippage |-> "none"]

Library(accounts, nonces) ==
  LET With(name, args) == Single(name, args, accounts, nonces) IN
  With("place_tx", [actions |-> <<PlaceLimitOrder(Order), CancelAllOrders([symbols |-> <<>>])>>])
    \cup With("place_limit_order", Order) \cup With("place_market_order", Order)
    \cup With("cancel_order", [symbol |-> "a", oid |-> "a"])
    \cup With("cancel_all", [symbols |-> <<"a">>])
    \cup With("update_leverage", [max_leverage |-> "m1"])
    \cup With("manage_agent_wallet", [agent |-> "a", delete |-> "a"])
    \cup With("approve_builder_code", [to |-> "a", max_fee |-> "a"])
    \cup With("revoke_builder_code", [to |-> "a"])
    \cup With("whitelist_faucet", [target |-> "a", whitelist |-> "a"])
    \cup With("request_faucet", [user |-> "none", amount |-> "none"])

NoKey    == {[c EXCEPT !.key = "none"] : c \in Library({"none"}, {-1})}
NoDomain == {[c EXCEPT !.domain = FALSE] : c \in Library({"none"}, {-1})}

MCCommandLines ==
  Account \cup Orders \cup Multisigs \cup Admin \cup Globals \cup Local \cup Chain \cup Sdk
    \cup Library({"none"}, {-1}) \cup NoKey \cup NoDomain

OverrideLines == Library({"none", "sub"}, {-1, 7})

MCStatusLists ==
  {NoList, <<>>, <<"resting", "scalar">>, <<"resting", "proposalCreated">>,
   <<"proposalApproved", "proposalReadyForExecution", "proposalFailed">>}

Infos ==
  [next : {"absent", "null", "", "cursor"}, has_more : BOOLEAN, start : 0..1, end : 0..1,
   as_of : 0..1, coverage : {"complete", "partial"}, oldest : -1..1]

MCPages ==
  [status : {200}, info : Infos, trade : {"id", "absent", "bad"}, chunks : {<<>>}, body : {"none"}]
    \cup [status : {500}, info : {[next |-> "absent"]}, trade : {"absent"},
          chunks : {<<>>, <<2, 1>>, <<2, 1, 1>>, <<3, 1>>}, body : {"envelope", "other"}]

=============================================================================
