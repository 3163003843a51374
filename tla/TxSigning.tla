----------------------------- MODULE TxSigning -----------------------------
(***************************************************************************)
(* One transaction from the caller's hands to the exchange: the order id   *)
(* the caller may compute beforehand, the signature by a software key or a *)
(* Ledger, whose search sees the bus change under it, the JSON that is     *)
(* posted, and the exchange that verifies what it parses.                  *)
(***************************************************************************)
EXTENDS ClearSign, LedgerWallet, Functions

CONSTANTS
  Cases,          \* what is tried: [tx, mode, target, busses]
  Exchange,       \* the network of the exchange
  Domains,        \* networks a client may be configured for
  MaxDrafts,      \* bound on the caller's operations before it signs
  MaxBusChanges,  \* bound on the changes of the bus
  MaxText         \* lines that fit the 65535 bytes of an offchain payload

\* Every field of its kind has one of its values.
IsAction(a) ==
  /\ a.kind \in Kinds
  /\ a = [kind |-> a.kind, vals |-> a.vals, order |-> "xy"]
  /\ a.vals = [f \in DOMAIN Schema[a.kind] |-> a.vals[f]]
  /\ \A f \in DOMAIN a.vals : a.vals[f] \in ValuesOf(Schema[a.kind][f])

\* Nested actions stand under their parents, and an OnFill has its trigger.
IsTransaction(as) ==
  /\ DOMAIN as \subseteq Seq(Nat) \ {<<>>} /\ <<1>> \in DOMAIN as /\ IsFiniteSet(DOMAIN as)
  /\ \A p \in DOMAIN as : \A n \in 1..Len(p) : SubSeq(p, 1, n) \in DOMAIN as
  /\ \A p \in DOMAIN as : as[p].kind = "OnFill" => Append(p, 1) \in DOMAIN as
  /\ \A p \in DOMAIN as : IsAction(as[p])

Interfaces(c) == UNION {Range(bus) : bus \in c.busses}

\* A locator that names a key names one seed, and a seed derives one key for a path.
TargetsAreKeys(c) ==
  c.target # "any" =>
    \A d, e \in Interfaces(c) :
      c.target \in {d.key, d.base} /\ c.target \in {e.key, e.base} => d.key = e.key

ASSUME SigningAssumption ==
  /\ Exchange \in Domains
  /\ MaxDrafts \in Nat /\ MaxBusChanges \in Nat /\ MaxText \in Nat
  /\ \A c \in Cases :
       /\ IsTransaction(c.tx.actions)
       /\ c.mode \in {"Raw", "Offchain"} /\ c.target # "none" /\ TargetsAreKeys(c)
       /\ \A bus \in c.busses : bus \in Seq(Range(bus))
       /\ \A d \in Interfaces(c) : d.key # "none"

VARIABLES
  case,      \* what this run tries
  domain,    \* SignatureDomain of the client
  pc,        \* where the caller is
  actions,   \* Transaction.actions
  meta,      \* ActionMeta of the first action: [account, nonce, seqno, hash]
  drafts,    \* operations so far
  orderId,   \* the last id hash() returned and whether the action changed since
  bus,       \* the HID interfaces
  changes,   \* of the bus so far
  attempt,   \* of the search for a wallet
  pubkey,    \* TransactionSigner::public_key
  wallet,    \* key of the device a search found
  signature, \* [by, over]
  advice,    \* what a failed search told the user
  verdict    \* of the exchange

vars == <<case, domain, pc, actions, meta, drafts, orderId, bus, changes, attempt, pubkey,
          wallet, signature, advice, verdict>>

Attempts == 4       \* LEDGER_DISCOVERY_ATTEMPTS
Orders   == {"xy", "yx"}
NoId     == <<>>
Unsigned == [by |-> "none", over |-> <<>>]
Tx       == case.tx
Pending  == [accepted |-> FALSE, actions |-> <<>>]

-----------------------------------------------------------------------------
(* Nesting, encoding, verification.                                        *)

ValidNesting(as) ==
  \A p \in DOMAIN as :
    as[p].kind = "OnFill" => as[Append(p, 1)].kind \in {"MarketOrder", "LimitOrder"}

Encoded(as) ==
  [p \in DOMAIN as |->
     [kind |-> as[p].kind,
      vals |-> [f \in DOMAIN as[p].vals |->
                  Binary(Schema[as[p].kind][f], as[p].vals[f], as[p].order)]]]

\* Mutant: the domain is not part of the bytes.
RawSignableBytesNoDomain(d, account, nonce, as) ==
  [version |-> 12, actions |-> Encoded(as), nonce |-> nonce,
   account |-> account, domain |-> "any"]

\* Transaction::raw_signable_bytes; the version is V12 throughout.
RawSignableBytes(d, account, nonce, as) ==
  [version |-> 12, actions |-> Encoded(as), nonce |-> nonce,
   account |-> account, domain |-> d]

\* Action::hash of the first action: seqno, the order without its builder code (and without a
\* slippage that is not given), account and nonce; other kinds in full.
OrderId(as, m) ==
  LET a       == as[<<1>>]
      skipped == IF a.kind = "MarketOrder"
                 THEN {"builder_code"} \cup (IF a.vals["slippage"] = "none" THEN {"slippage"} ELSE {})
                 ELSE IF a.kind = "LimitOrder" THEN {"builder_code"} ELSE {}
      below   == {p \in DOMAIN as : Len(p) > 1 /\ p[1] = 1}
  IN  <<m.seqno, a.kind, [f \in DOMAIN a.vals \ skipped |-> Encoded(as)[<<1>>].vals[f]],
        [p \in below |-> Encoded(as)[p]], m.account, m.nonce>>

\* serde_json there and back: NaN is lost, a HashMap gets the order of a new instance.
Parses(as) ==
  /\ \A p \in DOMAIN as : \A f \in DOMAIN as[p].vals :
       Reparsed(Schema[as[p].kind][f], as[p].vals[f]) # "error"
  /\ ValidNesting(as)

Parsed(as, order) ==
  [p \in DOMAIN as |->
     [kind |-> as[p].kind,
      vals |-> [f \in DOMAIN as[p].vals |-> Reparsed(Schema[as[p].kind][f], as[p].vals[f])],
      order |-> order]]

\* offchain_message_envelope_bytes: the domain and the signer travel outside the text.
Envelope(signer, d, text) == [domain |-> d, signer |-> signer, payload |-> text]

ClearText(d, as) ==
  Message(d, Tx.account, Tx.nonce, as, RawSignableBytes(d, Tx.account, Tx.nonce, as))

\* Transaction::verify, for the signatures of a software key.
Verify(d, as) ==
  signature = [by |-> pubkey, over |-> RawSignableBytes(d, Tx.account, Tx.nonce, as)]

\* What the exchange does with "X-Bulk-Sig-Mode: offchain".
VerifyOffchain(d, as) ==
  signature = [by |-> pubkey, over |-> Envelope(pubkey, d, ClearText(d, as))]

-----------------------------------------------------------------------------
Init ==
  /\ case \in Cases
  /\ domain \in Domains
  /\ actions = case.tx.actions
  /\ bus \in case.busses
  /\ pc = IF case.mode = "Raw" THEN "draft" ELSE "finding"
  /\ pubkey = IF case.mode = "Raw" THEN "soft" ELSE "none"
  /\ meta = [account |-> "zero", nonce |-> 0, seqno |-> 0, hash |-> NoId]
  /\ drafts = 0 /\ orderId = [id |-> NoId, fresh |-> FALSE]
  /\ changes = 0 /\ attempt = 1
  /\ wallet = "none" /\ signature = Unsigned /\ advice = "none" /\ verdict = Pending

Client == <<case, domain, actions, meta, drafts, orderId>>

\* The user plugs in, pulls out, locks or unlocks devices.
ChangeBus ==
  /\ changes < MaxBusChanges /\ pc \notin {"done", "failed", "posted"}
  /\ bus' \in case.busses \ {bus}
  /\ changes' = changes + 1
  /\ UNCHANGED <<Client, pc, attempt, pubkey, wallet, signature, advice, verdict>>

\* Mutant: the attempts are not counted from one again for the next search.
ResolveUncounted ==
  /\ pc \in {"finding", "signing"}
  /\ LET found == ResolveOnce(bus, case.target) IN
     \/ /\ found.key # "none"
        /\ pubkey' = IF pc = "finding" THEN found.key ELSE pubkey
        /\ wallet' = IF pc = "signing" THEN found.key ELSE wallet
        /\ pc' = IF pc = "finding" THEN "draft" ELSE "found"
        /\ UNCHANGED <<attempt, advice>>
     \/ /\ found.key = "none"
        /\ attempt' = attempt + 1
        /\ UNCHANGED <<pc, pubkey, wallet, advice>>
  /\ attempt <= Attempts
  /\ UNCHANGED <<Client, bus, changes, signature, verdict>>

\* resolve_wallet, one attempt: LedgerSigner::new looks for a wallet, and so does every
\* signature again.
Resolve ==
  /\ pc \in {"finding", "signing"}
  /\ LET found == ResolveOnce(bus, case.target) IN
     \/ /\ found.key # "none" /\ pc = "finding"
        /\ pubkey' = found.key /\ pc' = "draft" /\ attempt' = 1
        /\ UNCHANGED <<wallet, advice>>
     \/ /\ found.key # "none" /\ pc = "signing"
        /\ wallet' = found.key /\ pc' = "found" /\ attempt' = 1
        /\ UNCHANGED <<pubkey, advice>>
     \/ /\ found.key = "none" /\ attempt < Attempts
        /\ attempt' = attempt + 1
        /\ UNCHANGED <<pc, pubkey, wallet, advice>>
     \/ /\ found.key = "none" /\ attempt = Attempts
        /\ pc' = "failed" /\ advice' = Advice(bus, found.reason)
        /\ UNCHANGED <<attempt, pubkey, wallet>>
  /\ UNCHANGED <<Client, bus, changes, signature, verdict>>

Drafting == pc = "draft" /\ drafts < MaxDrafts /\ drafts' = drafts + 1

\* Mutant: the cached hash survives.
LinkKeepsHash ==
  /\ Drafting
  /\ meta' = [meta EXCEPT !.account = Tx.account, !.nonce = Tx.nonce]
  /\ orderId' = [orderId EXCEPT !.fresh = FALSE]
  /\ UNCHANGED <<case, domain, pc, actions, bus, changes, attempt, pubkey, wallet, signature,
                 advice, verdict>>

\* Action::link with the account, nonce and position the transaction will have.
Link ==
  /\ Drafting
  /\ meta' = [account |-> Tx.account, nonce |-> Tx.nonce, seqno |-> 0, hash |-> NoId]
  /\ orderId' = [orderId EXCEPT !.fresh = FALSE]
  /\ UNCHANGED <<case, domain, pc, actions, bus, changes, attempt, pubkey, wallet, signature,
                 advice, verdict>>

\* Action::hash: the cached one, or a new one that is then cached.
HashFirst ==
  /\ Drafting
  /\ LET id == IF meta.hash # NoId THEN meta.hash ELSE OrderId(actions, meta)
     IN  /\ meta' = [meta EXCEPT !.hash = id]
         /\ orderId' = [id |-> id, fresh |-> meta.account = Tx.account /\ meta.nonce = Tx.nonce]
  /\ UNCHANGED <<case, domain, pc, actions, bus, changes, attempt, pubkey, wallet, signature,
                 advice, verdict>>

\* Transaction::sign with a software key.
SignRaw ==
  /\ pc = "draft" /\ case.mode = "Raw"
  /\ IF ValidNesting(actions)
     THEN /\ signature' = [by   |-> pubkey,
                           over |-> RawSignableBytes(domain, Tx.account, Tx.nonce, actions)]
          /\ pc' = "signed"
     ELSE pc' = "failed" /\ UNCHANGED signature
  /\ UNCHANGED <<Client, bus, changes, attempt, pubkey, wallet, advice, verdict>>

\* Transaction::sign with a Ledger: the text first, then the search for the wallet.
SignOffchain ==
  /\ pc = "draft" /\ case.mode = "Offchain"
  /\ pc' = IF ValidNesting(actions) THEN "signing" ELSE "failed"
  /\ UNCHANGED <<Client, bus, changes, attempt, pubkey, wallet, signature, advice, verdict>>

\* The envelope, and the device's answer: the user may refuse, the device may be gone.
DeviceSigns ==
  /\ pc = "found"
  /\ LET text == ClearText(domain, actions) IN
     \/ /\ Cardinality(DOMAIN text.lines) <= MaxText
        /\ \E i \in DOMAIN bus : bus[i].key = wallet /\ bus[i].answer = "ready"
        /\ signature' = [by |-> wallet, over |-> Envelope(pubkey, domain, text)]
        /\ pc' = "signed"
     \/ pc' = "failed" /\ UNCHANGED signature
  /\ UNCHANGED <<Client, bus, changes, attempt, pubkey, wallet, advice, verdict>>

\* serde_json::to_string(&tx) and the POST, with the mode in a header for a Ledger.
Post ==
  /\ pc = "signed"
  /\ pc' = "posted"
  /\ UNCHANGED <<Client, bus, changes, attempt, pubkey, wallet, signature, advice, verdict>>

Judge ==
  /\ pc = "posted"
  /\ \E order \in Orders :
       LET got == Parsed(actions, order)
       IN  verdict' = IF /\ Parses(actions)
                         /\ IF case.mode = "Raw" THEN Verify(Exchange, got)
                            ELSE VerifyOffchain(Exchange, got)
                      THEN [accepted |-> TRUE, actions |-> got]
                      ELSE Pending
  /\ pc' = "done"
  /\ UNCHANGED <<Client, bus, changes, attempt, pubkey, wallet, signature, advice>>

Next == ChangeBus \/ Resolve \/ Link \/ HashFirst \/ SignRaw \/ SignOffchain \/ DeviceSigns
          \/ Post \/ Judge

Spec == Init /\ [][Next]_vars

-----------------------------------------------------------------------------
(* Properties.                                                             *)

\* The variables keep their shape: a search makes at most four attempts, a verdict holds
\* actions, and only a Ledger gives advice.
TypeOK ==
  /\ case \in Cases /\ domain \in Domains /\ bus \in case.busses
  /\ pc \in {"finding", "draft", "signing", "found", "signed", "posted", "done", "failed"}
  /\ actions = case.tx.actions
  /\ meta.account \in {"zero", Tx.account} /\ meta.nonce \in {0, Tx.nonce}
  /\ attempt \in 1..Attempts /\ changes \in 0..MaxBusChanges /\ drafts \in 0..MaxDrafts
  /\ orderId.fresh \in BOOLEAN
  /\ advice # "none" => pc = "failed" /\ case.mode = "Offchain"
  /\ verdict.accepted => verdict.actions # <<>>

\* What actions ask for: their numbers in units, whatever the order of a map.
Meaning(as) ==
  [p \in DOMAIN as |->
     [kind |-> as[p].kind,
      vals |-> [f \in DOMAIN as[p].vals |-> Binary(Schema[as[p].kind][f], as[p].vals[f], "xy")]]]

\* An accepted transaction was signed for this network by the key the client uses, and asks
\* for what the caller built: nothing is lost or rounded differently between the signable
\* bytes (or the text of a Ledger) and the JSON.  (Transaction::sign, raw_signable_bytes,
\* the serde implementations of the actions.)
ExecutedIsSigned ==
  verdict.accepted =>
    /\ domain = Exchange /\ signature.by = pubkey
    /\ Meaning(verdict.actions) = Meaning(actions)

\* A signed transaction is accepted by its network, unless it holds a number that is not
\* one, a map of several entries (whose order the signature covers and the JSON does not
\* keep), or was signed by another device than the one whose key the client announced,
\* which only happens when the locator names no key.
SignedIsAccepted ==
  pc = "done" /\ ~verdict.accepted =>
    \/ domain # Exchange
    \/ \E p \in DOMAIN actions : Range(actions[p].vals) \cap {"nan", "m2"} # {}
    \/ case.target = "any" /\ signature.by # pubkey

\* With a key in the locator, every signature is by the key that the signer announced,
\* however the bus changes between construction and signing.
TargetSigns ==
  case.mode = "Offchain" /\ case.target # "any" /\ signature # Unsigned => signature.by = pubkey

\* A search that gives up leaves no device behind that it should have found: none with a
\* known product id answers and is the one asked for.
FoundIfPresent ==
  advice # "none" =>
    \A i \in DOMAIN bus :
      bus[i].strict /\ bus[i].answer = "ready" => case.target \notin {"any", bus[i].key, bus[i].base}

\* What the user reads tells every action of the list and of its proposals with its fields,
\* to eight decimals, save for the builder code, the margin mode and the bulk contents of
\* oracle and validator updates; the actions under a trigger or a fill are only counted.
Untold ==
  {"builder_code", "iso", "oracles", "matrix", "per_peer_origination", "row_unattributed",
   "per_peer_participation", "participation_total_rounds", "stake_announce", "added", "removed",
   "admin_sigs", "tier_changes", "instruments", "vault_token_account", "mint", "solana_signature",
   "instruction_index", "epoch", "package"}

DeviceTellsAll ==
  case.mode = "Offchain" /\ signature # Unsigned =>
    LET text == signature.over.payload IN
    /\ signature.over.domain = domain /\ text.network = domain /\ text.account = Tx.account
    /\ \A p \in DOMAIN actions :
         Len(p) = 1 \/ (Front(p) \in DOMAIN text.lines /\ actions[Front(p)].kind = "MultisigPropose") =>
           /\ p \in DOMAIN text.lines /\ text.lines[p].kind = actions[p].kind
           /\ text.lines[p].nested + Cardinality(text.lines[p].trigger) = Cardinality(Children(actions, p))
           /\ \A f \in DOMAIN actions[p].vals \ Untold :
                /\ f \in DOMAIN text.lines[p].fields
                /\ text.lines[p].fields[f] = ShownValue(actions[p].vals[f])

\* The order id that hash() returned once the action carried the account and the nonce of
\* its transaction is the one the exchange computes from the order it received: the cached
\* hash never outlives a link, and the JSON keeps all the id covers.
OrderIdIsTheExchanges ==
  verdict.accepted /\ orderId.fresh /\ actions[<<1>>].kind \in {"MarketOrder", "LimitOrder"} =>
    orderId.id = OrderId(verdict.actions,
                         [account |-> Tx.account, nonce |-> Tx.nonce, seqno |-> 0])
=============================================================================
