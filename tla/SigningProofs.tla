---------------------------- MODULE SigningProofs ----------------------------
(***************************************************************************)
(* For every set of transactions, however deep their actions nest, and all *)
(* buses that change while a device is searched: what is executed was      *)
(* signed, what is signed is accepted, a locator with a key signs by that  *)
(* key, the user is told all that a line tells, and order ids are the      *)
(* exchange's.                                                             *)
(***************************************************************************)
EXTENDS TxSigning, SequenceTheorems, FiniteSetTheorems, WellFoundedInduction, TLAPS

-----------------------------------------------------------------------------
(* The search for a device.                                                *)

LEMMA FirstIsLeast ==
  ASSUME NEW S \in SUBSET Nat, S # {}
  PROVE  First(S) \in S
  <1> DEFINE R == OpToRel(<, Nat)
  <1>1. IsWellFoundedOn(R, Nat)
    BY NatLessThanWellFounded
  <1>2. \A x, y \in Nat : x < y => <<x, y>> \in R
    BY DEF OpToRel
  <1> HIDE DEF R
  <1>3. PICK m \in S : \A y \in S : ~(<<y, m>> \in R)
    BY <1>1, WFMin
  <1>4. ASSUME NEW k \in S PROVE m <= k
    <2>1. ~(k < m)
      BY <1>2, <1>3
    <2> QED
      BY <2>1
  <1>5. \E i \in S : \A j \in S : i <= j
    BY <1>4
  <1> QED
    BY <1>5 DEF First

Names(target, d) == target \in {"any", d.key, d.base}

(* resolve_wallet_once finds a device that the locator names, and leaves   *)
(* none of a known product id behind that it names and that answers.       *)
LEMMA ResolveFinds ==
  ASSUME NEW b, NEW target, b \in Seq(Range(b)), \A i \in DOMAIN b : b[i].key # "none"
  PROVE  LET key == ResolveOnce(b, target).key IN
         /\ key # "none" => \E i \in DOMAIN b : key = b[i].key /\ Names(target, b[i])
         /\ key = "none" => \A i \in DOMAIN b :
                              b[i].strict /\ b[i].answer = "ready" => ~Names(target, b[i])
  <1> DEFINE M == {i \in Usable(b) : target \in {"any", b[i].key, b[i].base}}
  <1>1. M \in SUBSET Nat /\ M \subseteq DOMAIN b
    BY DEF Usable, Candidates
  <1>2. \A i \in M : Names(target, b[i])
    BY DEF Names
  <1>3. \A i \in DOMAIN b : b[i].strict /\ b[i].answer = "ready" /\ Names(target, b[i]) => i \in M
    BY DEF Usable, Candidates, Supported, Names
  <1>4. /\ M # {} => ResolveOnce(b, target).key = b[First(M)].key
        /\ M = {} => ResolveOnce(b, target).key = "none"
    BY DEF ResolveOnce, Nobody
  <1> HIDE DEF M
  <1>5. M # {} => First(M) \in M
    BY <1>1, FirstIsLeast
  <1> QED
    BY <1>1, <1>2, <1>3, <1>4, <1>5

-----------------------------------------------------------------------------
(* What the JSON does to the signable bytes.                               *)

Kept(as, order) == Encoded(Parsed(as, order)) = Encoded(as)

LEMMA EncodedNode ==
  ASSUME NEW as, NEW p \in DOMAIN as
  PROVE  /\ DOMAIN Encoded(as) = DOMAIN as
         /\ Encoded(as)[p].kind = as[p].kind
         /\ DOMAIN Encoded(as)[p].vals = DOMAIN as[p].vals
         /\ \A f \in DOMAIN as[p].vals :
              Encoded(as)[p].vals[f] = Binary(Schema[as[p].kind][f], as[p].vals[f], as[p].order)
  BY DEF Encoded

(* A value whose bytes are kept is kept, up to rounding.                   *)
LEMMA FieldKept ==
  ASSUME NEW as, NEW order, Kept(as, order), NEW p \in DOMAIN as, NEW f \in DOMAIN as[p].vals
  PROVE  LET class == Schema[as[p].kind][f]
             new   == Reparsed(class, as[p].vals[f])
         IN  /\ Binary(class, new, "xy") = Binary(class, as[p].vals[f], "xy")
             /\ new = "none" <=> as[p].vals[f] = "none"
  <1> DEFINE class == Schema[as[p].kind][f]
             v == as[p].vals[f]
             bs == Parsed(as, order)
  <1>1. /\ DOMAIN bs = DOMAIN as /\ bs[p].kind = as[p].kind /\ DOMAIN bs[p].vals = DOMAIN as[p].vals
        /\ bs[p].order = order /\ bs[p].vals[f] = Reparsed(class, v)
    BY DEF Parsed
  <1> HIDE DEF bs
  <1>2. Encoded(bs)[p].vals[f] = Binary(Schema[bs[p].kind][f], bs[p].vals[f], bs[p].order)
    BY <1>1, EncodedNode
  <1>3. Encoded(as)[p].vals[f] = Binary(class, v, as[p].order)
    BY EncodedNode
  <1>4. Encoded(bs) = Encoded(as)
    BY DEF Kept, bs
  <1>5. Binary(class, Reparsed(class, v), order) = Binary(class, v, as[p].order)
    BY <1>1, <1>2, <1>3, <1>4
  <1> HIDE DEF class, v
  <1>6. /\ Binary(class, Reparsed(class, v), "xy") = Binary(class, v, "xy")
        /\ Reparsed(class, v) = "none" <=> v = "none"
    BY <1>5 DEF Binary, Reparsed
  <1> QED
    BY <1>6 DEF class, v

LEMMA MeaningKept ==
  ASSUME NEW as, NEW order, Kept(as, order)
  PROVE  Meaning(Parsed(as, order)) = Meaning(as)
  <1> DEFINE bs == Parsed(as, order)
             Told(cs, p) == [kind |-> cs[p].kind,
                             vals |-> [f \in DOMAIN cs[p].vals |->
                                         Binary(Schema[cs[p].kind][f], cs[p].vals[f], "xy")]]
  <1>1. DOMAIN bs = DOMAIN as
    BY DEF Parsed
  <1>2. ASSUME NEW p \in DOMAIN as PROVE Told(bs, p) = Told(as, p)
    <2>1. /\ bs[p].kind = as[p].kind /\ DOMAIN bs[p].vals = DOMAIN as[p].vals
          /\ \A f \in DOMAIN as[p].vals : bs[p].vals[f] = Reparsed(Schema[as[p].kind][f], as[p].vals[f])
      BY DEF Parsed
    <2>2. \A f \in DOMAIN as[p].vals :
            Binary(Schema[as[p].kind][f], Reparsed(Schema[as[p].kind][f], as[p].vals[f]), "xy")
              = Binary(Schema[as[p].kind][f], as[p].vals[f], "xy")
      BY FieldKept
    <2> HIDE DEF bs
    <2>3. \A f \in DOMAIN as[p].vals :
            Binary(Schema[bs[p].kind][f], bs[p].vals[f], "xy")
              = Binary(Schema[as[p].kind][f], as[p].vals[f], "xy")
      BY <2>1, <2>2
    <2> QED
      BY <2>1, <2>3
  <1>3. \A cs : Meaning(cs) = [p \in DOMAIN cs |-> Told(cs, p)]
    BY DEF Meaning
  <1> HIDE DEF bs, Told
  <1>4. Meaning(bs) = Meaning(as)
    BY <1>1, <1>2, <1>3
  <1> QED
    BY <1>4 DEF bs

LEMMA OrderIdKept ==
  ASSUME NEW as, NEW order, NEW m, Kept(as, order), IsTransaction(as)
  PROVE  OrderId(Parsed(as, order), m) = OrderId(as, m)
  <1> DEFINE bs == Parsed(as, order)
             a == as[<<1>>]
             b == bs[<<1>>]
             absent(x) == IF x.vals["slippage"] = "none" THEN {"slippage"} ELSE {}
             skipped(x) == IF x.kind = "MarketOrder" THEN {"builder_code"} \cup absent(x)
                           ELSE IF x.kind = "LimitOrder" THEN {"builder_code"} ELSE {}
             below == {p \in DOMAIN as : Len(p) > 1 /\ p[1] = 1}
  <1>0. <<1>> \in DOMAIN as
    BY DEF IsTransaction
  <1>1. DOMAIN bs = DOMAIN as /\ b.kind = a.kind /\ DOMAIN b.vals = DOMAIN a.vals
        /\ \A f \in DOMAIN a.vals : b.vals[f] = Reparsed(Schema[a.kind][f], a.vals[f])
    BY <1>0 DEF Parsed
  <1>2. Encoded(bs) = Encoded(as)
    BY DEF Kept
  <1>3. "slippage" \in DOMAIN a.vals => (b.vals["slippage"] = "none" <=> a.vals["slippage"] = "none")
    BY <1>0, <1>1, FieldKept
  <1> HIDE DEF bs, a, b
  <1>4. DOMAIN a.vals \ skipped(b) = DOMAIN a.vals \ skipped(a)
    BY <1>1, <1>3
  <1>5. /\ OrderId(as, m) = <<m.seqno, a.kind, [f \in DOMAIN a.vals \ skipped(a) |-> Encoded(as)[<<1>>].vals[f]],
                              [p \in below |-> Encoded(as)[p]], m.account, m.nonce>>
        /\ OrderId(bs, m) = <<m.seqno, b.kind, [f \in DOMAIN b.vals \ skipped(b) |-> Encoded(bs)[<<1>>].vals[f]],
                              [p \in {q \in DOMAIN bs : Len(q) > 1 /\ q[1] = 1} |-> Encoded(bs)[p]],
                              m.account, m.nonce>>
    BY DEF OrderId, a, b
  <1> HIDE DEF skipped
  <1>6. OrderId(bs, m) = OrderId(as, m)
    BY <1>1, <1>2, <1>4, <1>5
  <1> QED
    BY <1>6 DEF bs

-----------------------------------------------------------------------------
(* The invariant.                                                          *)

(* A key of a device that the locator names.                               *)
Named(key) == \E d \in Interfaces(case) : d.key = key /\ Names(case.target, d)

(* The client uses the key that was found, and so does every signature     *)
(* when the locator names a key.                                           *)
Devices ==
  case.mode = "Offchain" =>
    /\ pc \notin {"finding", "failed"} => Named(pubkey)
    /\ pc = "found" \/ signature # Unsigned => Named(wallet)

(* What was signed.                                                        *)
Signed ==
  /\ pc \in {"signing", "found", "signed", "posted", "done"} => ValidNesting(actions)
  /\ pc \in {"finding", "signing", "found"} => case.mode = "Offchain"
  /\ signature # Unsigned <=> pc \in {"signed", "posted", "done"}
  /\ signature # Unsigned =>
       signature =
         IF case.mode = "Raw"
         THEN [by |-> pubkey, over |-> RawSignableBytes(domain, Tx.account, Tx.nonce, actions)]
         ELSE [by |-> wallet, over |-> Envelope(pubkey, domain, ClearText(domain, actions))]

(* The cached hash is of the meta data that goes with it.                  *)
Hashed ==
  /\ meta = [account |-> meta.account, nonce |-> meta.nonce, seqno |-> 0, hash |-> meta.hash]
  /\ orderId = [id |-> orderId.id, fresh |-> orderId.fresh]
  /\ meta.hash # NoId => meta.hash = OrderId(actions, meta)
  /\ orderId.fresh =>
       orderId.id = OrderId(actions, [account |-> Tx.account, nonce |-> Tx.nonce, seqno |-> 0])

(* What was accepted came out of the JSON with the bytes it was signed by. *)
Judged ==
  /\ verdict.accepted =>
       /\ pc = "done" /\ domain = Exchange /\ signature.by = pubkey
       /\ \E order \in Orders : verdict.actions = Parsed(actions, order) /\ Kept(actions, order)
  /\ SignedIsAccepted

SigningInv == TypeOK /\ Devices /\ Signed /\ Hashed /\ FoundIfPresent /\ Judged

LEMMA CaseFacts ==
  ASSUME case \in Cases
  PROVE  /\ IsTransaction(case.tx.actions)
         /\ case.mode \in {"Raw", "Offchain"} /\ case.target # "none" /\ TargetsAreKeys(case)
         /\ \A b \in case.busses : b \in Seq(Range(b)) /\ \A i \in DOMAIN b : b[i].key # "none"
         /\ \A b \in case.busses : \A i \in DOMAIN b : b[i] \in Interfaces(case)
  <1>1. \A b \in case.busses : \A i \in DOMAIN b : b[i] \in Interfaces(case)
    BY DEF Interfaces, Range
  <1> QED
    BY <1>1, SigningAssumption

LEMMA SigningInit == Init => SigningInv
  <1> SUFFICES ASSUME Init PROVE SigningInv
    OBVIOUS
  <1>1. /\ case \in Cases /\ domain \in Domains /\ actions = case.tx.actions /\ bus \in case.busses
        /\ pc = IF case.mode = "Raw" THEN "draft" ELSE "finding"
        /\ meta = [account |-> "zero", nonce |-> 0, seqno |-> 0, hash |-> NoId]
        /\ drafts = 0 /\ orderId = [id |-> NoId, fresh |-> FALSE] /\ changes = 0 /\ attempt = 1
        /\ signature = Unsigned /\ advice = "none" /\ verdict = Pending
    BY DEF Init
  <1>2. case.mode \in {"Raw", "Offchain"} /\ MaxDrafts \in Nat /\ MaxBusChanges \in Nat
    BY <1>1, CaseFacts, SigningAssumption
  <1>3. TypeOK
    BY <1>1, <1>2 DEF TypeOK, Attempts, Pending, Tx
  <1>4. Devices
    BY <1>1, <1>2 DEF Devices
  <1>5. Signed
    BY <1>1, <1>2 DEF Signed
  <1>6. Hashed
    BY <1>1 DEF Hashed
  <1>7. FoundIfPresent /\ Judged
    BY <1>1 DEF FoundIfPresent, Judged, SignedIsAccepted, Pending
  <1> QED
    BY <1>3, <1>4, <1>5, <1>6, <1>7 DEF SigningInv

(* The steps that leave case, domain and actions alone, as all do.         *)
LEMMA Frame ==
  ASSUME SigningInv, [Next]_vars
  PROVE  case' = case /\ domain' = domain /\ actions' = actions
  BY DEF Next, ChangeBus, Resolve, Link, HashFirst, SignRaw, SignOffchain, DeviceSigns, Post, Judge,
         Drafting, Client, vars

LEMMA TypeStep == SigningInv /\ [Next]_vars => TypeOK'
  <1> SUFFICES ASSUME SigningInv, [Next]_vars PROVE TypeOK'
    OBVIOUS
  <1>1. TypeOK /\ case' = case /\ domain' = domain /\ actions' = actions
    BY Frame DEF SigningInv
  <1>2. MaxDrafts \in Nat /\ MaxBusChanges \in Nat
    BY SigningAssumption
  <1>3. CASE ChangeBus
    BY <1>1, <1>2, <1>3 DEF TypeOK, ChangeBus, Client, Tx
  <1>4. CASE Resolve
    <2>1. case.mode = "Offchain"
      BY <1>4 DEF SigningInv, Signed, Resolve
    <2> QED
      BY <1>1, <1>4, <2>1 DEF TypeOK, Resolve, Client, Tx, Attempts
  <1>5. CASE Link \/ HashFirst
    <2>1. meta = [account |-> meta.account, nonce |-> meta.nonce, seqno |-> 0, hash |-> meta.hash]
          /\ orderId = [id |-> orderId.id, fresh |-> orderId.fresh]
      BY DEF SigningInv, Hashed
    <2>3. ASSUME Link
          PROVE  /\ meta'.account = Tx.account /\ meta'.nonce = Tx.nonce /\ orderId'.fresh \in BOOLEAN
      BY <2>1, <2>3 DEF Link
    <2>4. ASSUME HashFirst
          PROVE  /\ meta'.account = meta.account /\ meta'.nonce = meta.nonce
                 /\ orderId'.fresh \in BOOLEAN
      <3> DEFINE id == IF meta.hash # NoId THEN meta.hash ELSE OrderId(actions, meta)
      <3>1. /\ meta' = [meta EXCEPT !.hash = id]
            /\ orderId' = [id |-> id, fresh |-> meta.account = Tx.account /\ meta.nonce = Tx.nonce]
        BY <2>4 DEF HashFirst
      <3> HIDE DEF id
      <3> QED
        BY <2>1, <3>1
    <2>2. /\ drafts' \in 0..MaxDrafts
          /\ UNCHANGED <<case, domain, pc, actions, bus, changes, attempt, advice, verdict>>
      BY <1>1, <1>2, <1>5 DEF TypeOK, Link, HashFirst, Drafting
    <2> QED
      BY <1>1, <1>5, <2>2, <2>3, <2>4 DEF TypeOK, Tx
  <1>6. CASE SignRaw \/ SignOffchain \/ DeviceSigns \/ Post
    BY <1>1, <1>6 DEF TypeOK, SignRaw, SignOffchain, DeviceSigns, Post, Client, Tx
  <1>7. CASE Judge
    <2>1. <<1>> \in DOMAIN actions
      BY <1>1, CaseFacts DEF TypeOK, IsTransaction
    <2>2. \A order : Parsed(actions, order) # <<>>
      BY <2>1 DEF Parsed
    <2>3. verdict'.accepted => verdict'.actions # <<>>
      BY <1>7, <2>2 DEF Judge, Pending
    <2> QED
      BY <1>1, <1>7, <2>3 DEF TypeOK, Judge, Client, Tx
  <1>8. CASE UNCHANGED vars
    BY <1>1, <1>8 DEF TypeOK, vars, Tx
  <1> QED
    BY <1>3, <1>4, <1>5, <1>6, <1>7, <1>8 DEF Next

LEMMA DevicesStep == SigningInv /\ [Next]_vars => Devices'
  <1> SUFFICES ASSUME SigningInv, [Next]_vars PROVE Devices'
    OBVIOUS
  <1>1. /\ case' = case /\ case \in Cases /\ bus \in case.busses
        /\ Devices /\ Signed
    BY Frame DEF SigningInv, TypeOK
  <1>2. \A key : Named(key) <=> Named(key)'
    BY <1>1 DEF Named
  <1>3. CASE Resolve
    <2> DEFINE key == ResolveOnce(bus, case.target).key
    <2>1. /\ bus \in Seq(Range(bus)) /\ \A i \in DOMAIN bus : bus[i].key # "none"
          /\ \A i \in DOMAIN bus : bus[i] \in Interfaces(case)
      BY <1>1, CaseFacts
    <2>2. key # "none" => \E i \in DOMAIN bus : key = bus[i].key /\ Names(case.target, bus[i])
      BY <2>1, ResolveFinds
    <2>3. key # "none" => Named(key)
      BY <2>1, <2>2 DEF Named
    <2>4. /\ signature' = signature
          /\ \/ key # "none" /\ pc = "finding" /\ pubkey' = key /\ pc' = "draft" /\ wallet' = wallet
             \/ key # "none" /\ pc = "signing" /\ wallet' = key /\ pc' = "found" /\ pubkey' = pubkey
             \/ UNCHANGED <<pc, pubkey, wallet>>
             \/ pc' = "failed" /\ UNCHANGED <<pubkey, wallet>>
      BY <1>3 DEF Resolve
    <2>5. pc \in {"finding", "signing"} => signature = Unsigned
      BY <1>1 DEF Signed
    <2> HIDE DEF key
    <2>6. case.mode = "Offchain" /\ pc' \notin {"finding", "failed"} => Named(pubkey')
      BY <1>1, <2>3, <2>4 DEF Devices
    <2>7. case.mode = "Offchain" /\ (pc' = "found" \/ signature' # Unsigned) => Named(wallet')
      BY <1>1, <1>3, <2>3, <2>4, <2>5 DEF Devices, Resolve
    <2> QED
      BY <1>1, <2>6, <2>7 DEF Devices, Named
  <1>4. CASE DeviceSigns
    BY <1>1, <1>4 DEF Devices, Named, DeviceSigns
  <1>5. CASE SignRaw
    BY <1>1, <1>5 DEF Devices, SignRaw
  <1>6. CASE ChangeBus \/ Link \/ HashFirst \/ SignOffchain \/ Post \/ Judge \/ UNCHANGED vars
    <2>1. /\ UNCHANGED <<pubkey, wallet, signature>> /\ (pc' # "found" \/ pc = "found")
          /\ pc' \notin {"finding", "failed"} => pc \notin {"finding", "failed"}
      BY <1>6 DEF ChangeBus, Link, HashFirst, Drafting, SignOffchain, Post, Judge, vars
    <2> QED
      BY <1>1, <1>6, <2>1 DEF Devices, Named, ChangeBus, Link, HashFirst, Drafting, SignOffchain, Post,
         Judge, vars
  <1> QED
    BY <1>3, <1>4, <1>5, <1>6 DEF Next

LEMMA SignedStep == SigningInv /\ [Next]_vars => Signed'
  <1> SUFFICES ASSUME SigningInv, [Next]_vars PROVE Signed'
    OBVIOUS
  <1>1. /\ case' = case /\ case \in Cases /\ domain' = domain /\ actions' = actions /\ Signed
    BY Frame DEF SigningInv, TypeOK
  <1>2. \A d, as : ClearText(d, as)' = ClearText(d, as)
    BY <1>1 DEF ClearText, Tx
  <1>3. \A by, text : [by |-> by, over |-> Envelope(pubkey, domain, text)] # Unsigned
    BY DEF Unsigned, Envelope
  <1>4. [by |-> pubkey, over |-> RawSignableBytes(domain, Tx.account, Tx.nonce, actions)] # Unsigned
    BY DEF Unsigned, RawSignableBytes
  <1>5. case.mode \in {"Raw", "Offchain"}
    BY <1>1, CaseFacts
  <1>6. CASE SignRaw
    BY <1>1, <1>4, <1>6 DEF Signed, SignRaw, Tx
  <1>7. CASE DeviceSigns
    <2>1. /\ case.mode = "Offchain" /\ ValidNesting(actions) /\ signature = Unsigned
          /\ UNCHANGED <<pubkey, wallet>>
      BY <1>1, <1>7 DEF Signed, DeviceSigns
    <2>2. \/ /\ pc' = "signed"
             /\ signature' = [by |-> wallet, over |-> Envelope(pubkey, domain, ClearText(domain, actions))]
          \/ pc' = "failed" /\ signature' = signature
      BY <1>7 DEF DeviceSigns
    <2> QED
      BY <1>1, <1>2, <1>3, <2>1, <2>2 DEF Signed
  <1>8. CASE Resolve
    <2>1. pc \in {"finding", "signing"} /\ signature' = signature /\ signature = Unsigned
          /\ (pc' = pc \/ (pc = "finding" /\ pc' = "draft") \/ (pc = "signing" /\ pc' = "found")
              \/ pc' = "failed")
      BY <1>1, <1>8 DEF Signed, Resolve
    <2> QED
      BY <1>1, <2>1 DEF Signed
  <1>9. CASE SignOffchain
    BY <1>1, <1>9 DEF Signed, SignOffchain
  <1>10. CASE ChangeBus \/ Link \/ HashFirst \/ Post \/ Judge \/ UNCHANGED vars
    <2>1. /\ UNCHANGED <<pubkey, wallet, signature>>
          /\ pc' = pc \/ (pc = "signed" /\ pc' = "posted") \/ (pc = "posted" /\ pc' = "done")
      BY <1>10 DEF ChangeBus, Link, HashFirst, Drafting, Post, Judge, vars
    <2> QED
      BY <1>1, <1>2, <2>1 DEF Signed, Tx
  <1> QED
    BY <1>6, <1>7, <1>8, <1>9, <1>10 DEF Next

LEMMA HashedStep == SigningInv /\ [Next]_vars => Hashed'
  <1> SUFFICES ASSUME SigningInv, [Next]_vars PROVE Hashed'
    OBVIOUS
  <1>1. /\ case' = case /\ domain' = domain /\ actions' = actions /\ Hashed
    BY Frame DEF SigningInv
  <1>2. CASE Link
    BY <1>1, <1>2 DEF Hashed, Link, Tx
  <1>3. CASE HashFirst
    <2> DEFINE id == IF meta.hash # NoId THEN meta.hash ELSE OrderId(actions, meta)
    <2>1. /\ meta' = [meta EXCEPT !.hash = id]
          /\ orderId' = [id |-> id, fresh |-> meta.account = Tx.account /\ meta.nonce = Tx.nonce]
      BY <1>3 DEF HashFirst
    <2>2. id = OrderId(actions, meta)
      BY <1>1 DEF Hashed
    <2> HIDE DEF id
    <2>3. meta' = [account |-> meta.account, nonce |-> meta.nonce, seqno |-> 0, hash |-> id]
          /\ meta.seqno = 0
      BY <1>1, <2>1 DEF Hashed
    <2>4. OrderId(actions, meta') = OrderId(actions, meta)
      BY <2>3 DEF OrderId
    <2>5. meta.account = Tx.account /\ meta.nonce = Tx.nonce =>
            OrderId(actions, [account |-> Tx.account, nonce |-> Tx.nonce, seqno |-> 0])
              = OrderId(actions, meta)
      BY <2>3 DEF OrderId
    <2> QED
      BY <1>1, <2>1, <2>2, <2>3, <2>4, <2>5 DEF Hashed, Tx
  <1>4. CASE UNCHANGED <<meta, orderId>>
    BY <1>1, <1>4 DEF Hashed, Tx
  <1> QED
    BY <1>2, <1>3, <1>4
    DEF Next, ChangeBus, Resolve, SignRaw, SignOffchain, DeviceSigns, Post, Judge, Client, vars

LEMMA FoundStep == SigningInv /\ [Next]_vars => FoundIfPresent'
  <1> SUFFICES ASSUME SigningInv, [Next]_vars PROVE FoundIfPresent'
    OBVIOUS
  <1>1. /\ case' = case /\ case \in Cases /\ bus \in case.busses /\ FoundIfPresent
        /\ advice # "none" => pc = "failed"
    BY Frame DEF SigningInv, TypeOK
  <1>2. CASE Resolve
    <2> DEFINE key == ResolveOnce(bus, case.target).key
    <2>1. bus \in Seq(Range(bus)) /\ \A i \in DOMAIN bus : bus[i].key # "none"
      BY <1>1, CaseFacts
    <2>2. key = "none" => \A i \in DOMAIN bus :
                            bus[i].strict /\ bus[i].answer = "ready" => ~Names(case.target, bus[i])
      BY <2>1, ResolveFinds
    <2>3. bus' = bus /\ (advice' = advice \/ key = "none")
      BY <1>2 DEF Resolve
    <2> HIDE DEF key
    <2> QED
      BY <1>1, <2>2, <2>3 DEF FoundIfPresent, Names
  <1>3. CASE ChangeBus
    BY <1>1, <1>3 DEF FoundIfPresent, ChangeBus
  <1>4. CASE UNCHANGED <<advice, bus>>
    BY <1>1, <1>4 DEF FoundIfPresent
  <1> QED
    BY <1>2, <1>3, <1>4
    DEF Next, Link, HashFirst, SignRaw, SignOffchain, DeviceSigns, Post, Judge, vars

-----------------------------------------------------------------------------
(* The verdict.                                                            *)

(* No number that is not one, and no map of several entries.               *)
Ordinary(as) == \A p \in DOMAIN as : Range(as[p].vals) \cap {"nan", "m2"} = {}

LEMMA OrdinaryKept ==
  ASSUME NEW as, IsTransaction(as), ValidNesting(as), Ordinary(as), NEW order
  PROVE  /\ Parses(as) /\ Kept(as, order)
         /\ Parsed(as, order) = [p \in DOMAIN as |->
                                   [kind |-> as[p].kind, vals |-> as[p].vals, order |-> order]]
  <1> DEFINE class(p, f) == Schema[as[p].kind][f]
             v(p, f) == as[p].vals[f]
             bs == Parsed(as, order)
  <1>1. ASSUME NEW p \in DOMAIN as, NEW f \in DOMAIN as[p].vals
        PROVE  /\ Reparsed(class(p, f), v(p, f)) = v(p, f) /\ v(p, f) # "error"
               /\ Binary(class(p, f), v(p, f), order) = Binary(class(p, f), v(p, f), as[p].order)
    <2>1. v(p, f) \notin {"nan", "m2"}
      BY DEF Ordinary, Range
    <2>2. v(p, f) \in ValuesOf(class(p, f))
      <3>1. IsAction(as[p])
        BY DEF IsTransaction
      <3>2. \A g \in DOMAIN as[p].vals : as[p].vals[g] \in ValuesOf(Schema[as[p].kind][g])
        BY <3>1, Zenon DEF IsAction
      <3> QED
        BY <3>2
    <2> HIDE DEF class, v
    <2>3. v(p, f) # "error"
      BY <2>2 DEF ValuesOf
    <2> QED
      BY <2>1, <2>3 DEF Reparsed, Binary
  <1>2. Parses(as)
    BY <1>1 DEF Parses
  <1>3. ASSUME NEW p \in DOMAIN as
        PROVE  [f \in DOMAIN as[p].vals |-> Reparsed(class(p, f), v(p, f))] = as[p].vals
    <2>1. as[p].vals = [f \in DOMAIN as[p].vals |-> as[p].vals[f]]
      <3>1. IsAction(as[p])
        BY DEF IsTransaction
      <3>2. as[p].vals = [f \in DOMAIN Schema[as[p].kind] |-> as[p].vals[f]]
        BY <3>1, Zenon DEF IsAction
      <3> QED
        BY <3>2
    <2> QED
      BY <1>1, <2>1
  <1>4. bs = [p \in DOMAIN as |-> [kind |-> as[p].kind, vals |-> as[p].vals, order |-> order]]
    BY <1>3 DEF Parsed
  <1>5. Encoded(bs) = [p \in DOMAIN as |->
                         [kind |-> as[p].kind,
                          vals |-> [f \in DOMAIN as[p].vals |-> Binary(class(p, f), v(p, f), order)]]]
    <2> HIDE DEF bs
    <2> QED
      BY <1>4 DEF Encoded
  <1>6. Encoded(as) = [p \in DOMAIN as |->
                         [kind |-> as[p].kind,
                          vals |-> [f \in DOMAIN as[p].vals |->
                                      Binary(class(p, f), v(p, f), as[p].order)]]]
    BY DEF Encoded
  <1>7. Encoded(bs) = Encoded(as)
    BY <1>1, <1>5, <1>6
  <1> QED
    BY <1>2, <1>4, <1>7 DEF Kept

(* A text says nothing about the order of a map.                           *)
LEMMA SameText ==
  ASSUME NEW as, IsTransaction(as), NEW order, Kept(as, order), NEW d,
         Parsed(as, order) = [p \in DOMAIN as |->
                                [kind |-> as[p].kind, vals |-> as[p].vals, order |-> order]]
  PROVE  ClearText(d, Parsed(as, order)) = ClearText(d, as)
  <1> DEFINE bs == Parsed(as, order)
  <1>1. bs = [p \in DOMAIN as |-> [kind |-> as[p].kind, vals |-> as[p].vals, order |-> order]]
    OBVIOUS
  <1>2. Encoded(bs) = Encoded(as)
    BY DEF Kept
  <1> HIDE DEF bs
  <1>3. DOMAIN bs = DOMAIN as /\ \A p \in DOMAIN as : bs[p].kind = as[p].kind /\ bs[p].vals = as[p].vals
    BY <1>1
  <1>4. RawSignableBytes(d, Tx.account, Tx.nonce, bs) = RawSignableBytes(d, Tx.account, Tx.nonce, as)
    BY <1>2 DEF RawSignableBytes
  <1>5. Rendered(bs) = Rendered(as)
    <2>1. ASSUME NEW p \in DOMAIN as, NEW n \in 1..(Len(p) - 1) PROVE SubSeq(p, 1, n) \in DOMAIN as
      <3>1. p \in Seq(Nat)
        BY DEF IsTransaction
      <3>2. n \in 1..Len(p)
        BY <3>1, LenProperties
      <3> QED
        BY <3>2, Zenon DEF IsTransaction
    <2>2. \A p \in DOMAIN as : \A n \in 1..(Len(p) - 1) :
            bs[SubSeq(p, 1, n)].kind = as[SubSeq(p, 1, n)].kind
      BY <1>3, <2>1
    <2> QED
      BY <1>3, <2>2 DEF Rendered
  <1>6. ASSUME NEW p \in Rendered(as) PROVE Line(bs, p) = Line(as, p)
    <2>1. p \in DOMAIN as
      BY DEF Rendered
    <2>2. as[p].kind = "OnFill" => Append(p, 1) \in DOMAIN as
      BY <2>1 DEF IsTransaction
    <2>3. Children(bs, p) = Children(as, p)
      BY <1>3 DEF Children
    <2>4. bs[p].kind = as[p].kind /\ bs[p].vals = as[p].vals
      BY <1>3, <2>1
    <2>5. as[p].kind = "OnFill" =>
            bs[Append(p, 1)].kind = as[Append(p, 1)].kind /\ bs[Append(p, 1)].vals = as[Append(p, 1)].vals
      BY <1>3, <2>2
    <2> DEFINE triggers == IF as[p].kind = "OnFill" THEN {Append(p, 1)} ELSE {}
    <2>6. ASSUME NEW cs, cs[p].kind = as[p].kind
          PROVE  Line(cs, p) =
                   [kind    |-> cs[p].kind,
                    fields  |-> [f \in DOMAIN cs[p].vals \ LeftOut(cs[p].kind) |-> ShownValue(cs[p].vals[f])],
                    trigger |-> {<<cs[q].kind, cs[q].vals>> : q \in triggers},
                    nested  |-> Cardinality(Children(cs, p) \ triggers)]
      BY <2>6 DEF Line
    <2>7. {<<bs[q].kind, bs[q].vals>> : q \in triggers} = {<<as[q].kind, as[q].vals>> : q \in triggers}
      BY <2>5
    <2> HIDE DEF triggers
    <2> QED
      BY <2>3, <2>4, <2>6, <2>7
  <1>7. {p \in DOMAIN bs : Len(p) = 1} = {p \in DOMAIN as : Len(p) = 1}
    BY <1>3
  <1>8. [p \in Rendered(bs) |-> Line(bs, p)] = [p \in Rendered(as) |-> Line(as, p)]
    BY <1>5, <1>6
  <1>9. ClearText(d, bs) = ClearText(d, as)
    BY <1>4, <1>7, <1>8 DEF ClearText, Message
  <1> QED
    BY <1>9 DEF bs

(* Where the key is, the signature is by it.                               *)
LEMMA OneKey ==
  ASSUME case \in Cases, Named(pubkey), Named(wallet), case.target # "any"
  PROVE  wallet = pubkey
  <1>1. PICK d \in Interfaces(case) : d.key = pubkey /\ Names(case.target, d)
    BY DEF Named
  <1>2. PICK e \in Interfaces(case) : e.key = wallet /\ Names(case.target, e)
    BY DEF Named
  <1>3. case.target \in {d.key, d.base} /\ case.target \in {e.key, e.base}
    BY <1>1, <1>2 DEF Names
  <1> QED
    BY <1>1, <1>2, <1>3, CaseFacts DEF TargetsAreKeys

(* The bytes of a software key and the hash in a text fix the domain and   *)
(* all that the actions ask for.                                           *)
LEMMA SignedBytes ==
  ASSUME NEW d, NEW e, NEW as, NEW bs,
         RawSignableBytes(d, Tx.account, Tx.nonce, as) = RawSignableBytes(e, Tx.account, Tx.nonce, bs)
  PROVE  d = e /\ Encoded(as) = Encoded(bs)
  <1> DEFINE x == RawSignableBytes(d, Tx.account, Tx.nonce, as)
             y == RawSignableBytes(e, Tx.account, Tx.nonce, bs)
  <1>1. x.domain = d /\ x.actions = Encoded(as) /\ y.domain = e /\ y.actions = Encoded(bs)
    BY DEF RawSignableBytes
  <1>2. x = y
    OBVIOUS
  <1> HIDE DEF x, y
  <1> QED
    BY <1>1, <1>2

LEMMA SignedText ==
  ASSUME NEW d, NEW e, NEW as, NEW bs, ClearText(d, as) = ClearText(e, bs)
  PROVE  d = e /\ Encoded(as) = Encoded(bs)
  <1> DEFINE x == ClearText(d, as)
             y == ClearText(e, bs)
  <1>1. /\ x.hash = RawSignableBytes(d, Tx.account, Tx.nonce, as)
        /\ y.hash = RawSignableBytes(e, Tx.account, Tx.nonce, bs)
    BY DEF ClearText, Message
  <1>2. x = y
    OBVIOUS
  <1> HIDE DEF x, y
  <1>3. /\ x.hash.domain = d /\ x.hash.actions = Encoded(as)
        /\ y.hash.domain = e /\ y.hash.actions = Encoded(bs)
    BY <1>1 DEF RawSignableBytes
  <1> QED
    BY <1>2, <1>3

LEMMA Verified ==
  ASSUME SigningInv, pc = "posted", NEW order,
         IF case.mode = "Raw" THEN Verify(Exchange, Parsed(actions, order))
                              ELSE VerifyOffchain(Exchange, Parsed(actions, order))
  PROVE  domain = Exchange /\ signature.by = pubkey /\ Kept(actions, order)
  <1> DEFINE got == Parsed(actions, order)
  <1>1. signature # Unsigned
    BY DEF SigningInv, Signed
  <1>2. CASE case.mode = "Raw"
    <2>1. signature = [by |-> pubkey, over |-> RawSignableBytes(domain, Tx.account, Tx.nonce, actions)]
      BY <1>1, <1>2 DEF SigningInv, Signed
    <2>2. signature = [by |-> pubkey, over |-> RawSignableBytes(Exchange, Tx.account, Tx.nonce, got)]
      BY <1>2 DEF Verify
    <2> HIDE DEF got
    <2>3. /\ signature.by = pubkey
          /\ RawSignableBytes(domain, Tx.account, Tx.nonce, actions)
               = RawSignableBytes(Exchange, Tx.account, Tx.nonce, got)
      BY <2>1, <2>2
    <2>4. domain = Exchange /\ Encoded(actions) = Encoded(got)
      BY <2>3, SignedBytes
    <2> QED
      BY <2>3, <2>4 DEF Kept, got
  <1>3. CASE case.mode # "Raw"
    <2>1. signature = [by |-> wallet, over |-> Envelope(pubkey, domain, ClearText(domain, actions))]
      BY <1>1, <1>3 DEF SigningInv, Signed
    <2>2. signature = [by |-> pubkey, over |-> Envelope(pubkey, Exchange, ClearText(Exchange, got))]
      BY <1>3 DEF VerifyOffchain
    <2> HIDE DEF got
    <2>3. /\ signature.by = pubkey
          /\ signature.over.payload = ClearText(domain, actions)
          /\ signature.over.payload = ClearText(Exchange, got)
      <3>1. signature.by = pubkey /\ signature.over.payload = ClearText(Exchange, got)
        BY <2>2 DEF Envelope
      <3>2. signature.over.payload = ClearText(domain, actions)
        BY <2>1 DEF Envelope
      <3> QED
        BY <3>1, <3>2
    <2>4. ClearText(domain, actions) = ClearText(Exchange, got)
      BY <2>3
    <2>5. domain = Exchange /\ Encoded(actions) = Encoded(got)
      BY <2>4, SignedText
    <2> QED
      BY <2>3, <2>5 DEF Kept, got
  <1> QED
    BY <1>2, <1>3

LEMMA Verifies ==
  ASSUME SigningInv, pc = "posted", domain = Exchange, Ordinary(actions), NEW order,
         signature.by = pubkey
  PROVE  /\ Parses(actions)
         /\ IF case.mode = "Raw" THEN Verify(Exchange, Parsed(actions, order))
                                 ELSE VerifyOffchain(Exchange, Parsed(actions, order))
  <1> DEFINE got == Parsed(actions, order)
  <1>1. signature # Unsigned /\ ValidNesting(actions)
    BY DEF SigningInv, Signed
  <1>2. IsTransaction(actions)
    BY CaseFacts DEF SigningInv, TypeOK
  <1>3. /\ Parses(actions) /\ Kept(actions, order)
        /\ got = [p \in DOMAIN actions |->
                    [kind |-> actions[p].kind, vals |-> actions[p].vals, order |-> order]]
    BY <1>1, <1>2, OrdinaryKept
  <1>4. ClearText(Exchange, got) = ClearText(Exchange, actions)
    BY <1>2, <1>3, SameText
  <1>5. CASE case.mode = "Raw"
    <2>1. signature = [by |-> pubkey, over |-> RawSignableBytes(domain, Tx.account, Tx.nonce, actions)]
      BY <1>1, <1>5 DEF SigningInv, Signed
    <2>2. Encoded(got) = Encoded(actions)
      BY <1>3 DEF Kept
    <2> HIDE DEF got
    <2>3. Verify(Exchange, got)
      BY <2>1, <2>2 DEF Verify, RawSignableBytes
    <2> QED
      BY <1>3, <1>5, <2>3 DEF got
  <1>6. CASE case.mode # "Raw"
    <2>1. signature = [by |-> wallet, over |-> Envelope(pubkey, domain, ClearText(domain, actions))]
      BY <1>1, <1>6 DEF SigningInv, Signed
    <2> HIDE DEF got
    <2>2. wallet = pubkey
      BY <2>1
    <2>3. VerifyOffchain(Exchange, got)
      BY <1>4, <2>1, <2>2 DEF VerifyOffchain
    <2> QED
      BY <1>3, <1>6, <2>3 DEF got
  <1> QED
    BY <1>5, <1>6

LEMMA JudgedStep == SigningInv /\ [Next]_vars => Judged'
  <1> SUFFICES ASSUME SigningInv, [Next]_vars PROVE Judged'
    OBVIOUS
  <1>1. /\ case' = case /\ domain' = domain /\ actions' = actions /\ Judged /\ Signed /\ Devices
        /\ case \in Cases
    BY Frame DEF SigningInv, TypeOK
  <1>2. CASE Judge
    <2>1. pc = "posted" /\ pc' = "done" /\ UNCHANGED <<signature, pubkey, wallet>>
      BY <1>2 DEF Judge
    <2>2. PICK order \in Orders :
            verdict' = IF /\ Parses(actions)
                          /\ IF case.mode = "Raw" THEN Verify(Exchange, Parsed(actions, order))
                             ELSE VerifyOffchain(Exchange, Parsed(actions, order))
                       THEN [accepted |-> TRUE, actions |-> Parsed(actions, order)]
                       ELSE Pending
      BY <1>2 DEF Judge
    <2> DEFINE Good == /\ Parses(actions)
                       /\ IF case.mode = "Raw" THEN Verify(Exchange, Parsed(actions, order))
                          ELSE VerifyOffchain(Exchange, Parsed(actions, order))
    <2>3. Good => domain = Exchange /\ signature.by = pubkey /\ Kept(actions, order)
      BY <2>1, Verified
    <2>4. domain = Exchange /\ Ordinary(actions) /\ signature.by = pubkey => Good
      BY <2>1, Verifies
    <2>5. case.target # "any" => case.mode = "Raw" \/ signature.by = pubkey
      <3>1. CASE case.mode = "Offchain" /\ case.target # "any"
        <4>1. signature # Unsigned
          BY <1>1, <2>1 DEF Signed
        <4>2. Named(pubkey) /\ Named(wallet)
          BY <1>1, <2>1, <3>1, <4>1 DEF Devices
        <4>3. wallet = pubkey
          BY <1>1, <3>1, <4>2, OneKey
        <4> QED
          BY <1>1, <3>1, <4>1, <4>3 DEF Signed
      <3> QED
        BY <1>1, <3>1, CaseFacts
    <2>6. case.mode = "Raw" => signature.by = pubkey
      BY <1>1, <2>1 DEF Signed
    <2>7. verdict' = IF Good THEN [accepted |-> TRUE, actions |-> Parsed(actions, order)] ELSE Pending
      BY <2>2
    <2> HIDE DEF Good
    <2>8. Ordinary(actions)' <=> Ordinary(actions)
      BY <1>1 DEF Ordinary
    <2>9. SignedIsAccepted'
      BY <1>1, <2>1, <2>4, <2>5, <2>6, <2>7, <2>8 DEF SignedIsAccepted, Ordinary
    <2>10. verdict'.accepted =>
             /\ Good
             /\ verdict'.actions = Parsed(actions, order)
      BY <2>7 DEF Pending
    <2> QED
      BY <1>1, <2>1, <2>3, <2>9, <2>10 DEF Judged, Kept
  <1>3. CASE ~Judge
    <2>1. verdict' = verdict /\ (pc' = "done" => pc = "done" /\ UNCHANGED <<signature, pubkey>>)
          /\ (pc = "done" => pc' = "done" /\ UNCHANGED <<signature, pubkey>>)
      BY <1>3 DEF Next, ChangeBus, Resolve, Link, HashFirst, Drafting, SignRaw, SignOffchain,
         DeviceSigns, Post, Judge, vars
    <2> QED
      BY <1>1, <2>1 DEF Judged, SignedIsAccepted, Kept
  <1> QED
    BY <1>2, <1>3

-----------------------------------------------------------------------------
(* The text.                                                               *)

LEMMA TextTells ==
  ASSUME NEW as, IsTransaction(as), NEW d, NEW p \in DOMAIN as,
         \/ Len(p) = 1
         \/ Front(p) \in Rendered(as) /\ as[Front(p)].kind = "MultisigPropose"
  PROVE  p \in Rendered(as)
  <1>1. p \in Seq(Nat) /\ p # <<>>
    BY DEF IsTransaction
  <1>2. Len(p) \in Nat /\ Len(p) >= 1
    BY <1>1, EmptySeq, LenProperties
  <1>3. ASSUME NEW n \in 1..(Len(p) - 1) PROVE as[SubSeq(p, 1, n)].kind = "MultisigPropose"
    <2>1. Front(p) \in Rendered(as) /\ as[Front(p)].kind = "MultisigPropose"
      <3>1. \A k \in Nat : n \in 1..(k - 1) => k # 1
        OBVIOUS
      <3>2. Len(p) # 1
        BY <1>2, <3>1
      <3> QED
        BY <3>2
    <2>2. Front(p) = SubSeq(p, 1, Len(p) - 1)
      BY DEF Front
    <2>3. CASE n = Len(p) - 1
      BY <2>1, <2>2, <2>3
    <2>4. CASE n # Len(p) - 1
      <3>1. Front(p) \in Seq(Nat) /\ Len(Front(p)) = Len(p) - 1
            /\ \A k \in 1..(Len(p) - 1) : Front(p)[k] = p[k]
        BY <1>1, <1>2, <2>2, SubSeqProperties
      <3>2. n \in 1..(Len(Front(p)) - 1)
        BY <1>2, <2>4, <3>1
      <3>3. SubSeq(Front(p), 1, n) = SubSeq(p, 1, n)
        <4>1. /\ SubSeq(Front(p), 1, n) \in Seq(Nat) /\ Len(SubSeq(Front(p), 1, n)) = n
              /\ \A k \in 1..n : SubSeq(Front(p), 1, n)[k] = Front(p)[k]
          BY <1>2, <3>1, <3>2, SubSeqProperties
        <4>2. /\ SubSeq(p, 1, n) \in Seq(Nat) /\ Len(SubSeq(p, 1, n)) = n
              /\ \A k \in 1..n : SubSeq(p, 1, n)[k] = p[k]
          BY <1>1, <1>2, SubSeqProperties
        <4>3. \A k \in 1..n : Front(p)[k] = p[k]
          BY <1>2, <3>1
        <4> QED
          BY <4>1, <4>2, <4>3, SeqEqual
      <3>4. as[SubSeq(Front(p), 1, n)].kind = "MultisigPropose"
        BY <2>1, <3>2 DEF Rendered
      <3> QED
        BY <3>3, <3>4
    <2> QED
      BY <2>3, <2>4
  <1> QED
    BY <1>3 DEF Rendered

(* A line counts what is nested, save the trigger, which it shows.         *)
LEMMA LineCounts ==
  ASSUME NEW as, IsTransaction(as), NEW p \in DOMAIN as
  PROVE  Line(as, p).nested + Cardinality(Line(as, p).trigger) = Cardinality(Children(as, p))
  <1> DEFINE S == Children(as, p)
  <1>1. IsFiniteSet(DOMAIN as) /\ p \in Seq(Nat)
    BY DEF IsTransaction
  <1>2. IsFiniteSet(S) /\ Cardinality(S) \in Nat
    <2>1. S \in SUBSET DOMAIN as
      BY DEF Children
    <2> QED
      BY <1>1, <2>1, FS_Subset, FS_CardinalityType
  <1>3. CASE as[p].kind # "OnFill"
    <2>1. Line(as, p).trigger = {} /\ Line(as, p).nested = Cardinality(S \ {})
      BY <1>3 DEF Line
    <2>2. S \ {} = S
      OBVIOUS
    <2> HIDE DEF S
    <2>3. Line(as, p).nested + Cardinality(Line(as, p).trigger) = Cardinality(S) + 0
      BY <2>1, <2>2, FS_EmptySet
    <2>4. \A k \in Nat : k + 0 = k
      OBVIOUS
    <2>5. Line(as, p).nested + Cardinality(Line(as, p).trigger) = Cardinality(S)
      BY <1>2, <2>3, <2>4, Zenon
    <2> QED
      BY <2>5 DEF S
  <1>4. CASE as[p].kind = "OnFill"
    <2> DEFINE t == Append(p, 1)
               shown == <<as[t].kind, as[t].vals>>
    <2>1. t \in DOMAIN as
      BY <1>4 DEF IsTransaction
    <2>2. Front(t) = p
      <3>1. Front(t) = SubSeq(t, 1, Len(t) - 1)
        BY DEF Front
      <3>2. Len(t) = Len(p) + 1 /\ Len(p) \in Nat /\ \A k \in 1..Len(p) : t[k] = p[k] /\ p[k] \in Nat
        BY <1>1, AppendProperties, LenProperties
      <3> HIDE DEF t
      <3>3. Front(t) = SubSeq(t, 1, Len(p))
        BY <3>1, <3>2
      <3>4. /\ SubSeq(t, 1, Len(p)) \in Seq(Nat) /\ Len(SubSeq(t, 1, Len(p))) = Len(p)
            /\ \A k \in 1..Len(p) : SubSeq(t, 1, Len(p))[k] = p[k]
        BY <3>2, SubSeqProperties
      <3> QED
        BY <1>1, <3>3, <3>4, SeqEqual
    <2>3. Line(as, p).nested = Cardinality(S \ {t}) /\ Line(as, p).trigger = {shown}
      <3>1. {<<as[q].kind, as[q].vals>> : q \in {t}} = {shown}
        OBVIOUS
      <3> QED
        BY <1>4, <3>1 DEF Line
    <2>4. t \in S
      BY <2>1, <2>2 DEF Children
    <2> HIDE DEF S, t, shown
    <2>5. Cardinality(S \ {t}) = Cardinality(S) - 1 /\ Cardinality({shown}) = 1
      BY <1>2, <2>4, FS_RemoveElement, FS_Singleton
    <2>6. Line(as, p).nested + Cardinality(Line(as, p).trigger) = Cardinality(S)
      BY <1>2, <2>3, <2>5
    <2> QED
      BY <2>6 DEF S
  <1> QED
    BY <1>3, <1>4

(* What a line leaves out is known.                                        *)
LEMMA LeavesOut ==
  ASSUME NEW kind \in Kinds
  PROVE  LeftOut(kind) \subseteq Untold
  <1>1. ASSUME NEW table \in LineTables, kind \in DOMAIN table PROVE table[kind] \subseteq Untold
    BY <1>1 DEF LineTables, OrderLines, ConditionalLines, AccountLines, MultisigLines, AdminLines,
       PolicyLines, BridgeLines, Untold
  <1>2. \E table \in LineTables : kind \in DOMAIN table
    BY LinesAreTotal
  <1> QED
    BY <1>1, <1>2 DEF LeftOut

-----------------------------------------------------------------------------
(* The theorems.                                                           *)

LEMMA SigningStep == SigningInv /\ [Next]_vars => SigningInv'
  BY TypeStep, DevicesStep, SignedStep, HashedStep, FoundStep, JudgedStep DEF SigningInv

LEMMA SigningAlways == Spec => []SigningInv
  BY SigningInit, SigningStep, PTL DEF Spec

(* The variables keep their shape, for any number of attempts on the draft *)
(* and of changes of the bus.                                              *)
THEOREM SigningTypes == Spec => []TypeOK
  <1>1. SigningInv => TypeOK
    BY DEF SigningInv
  <1> QED
    BY <1>1, SigningAlways, PTL

(* What the exchange accepts was signed for its network by the key of the  *)
(* client, and asks for what the caller built: the bytes it verifies are   *)
(* those of what it parsed, and bytes that agree mean the same.            *)
THEOREM ExecutedWasSigned == Spec => []ExecutedIsSigned
  <1>1. SigningInv => ExecutedIsSigned
    BY MeaningKept DEF SigningInv, Judged, ExecutedIsSigned
  <1> QED
    BY <1>1, SigningAlways, PTL

(* A signed transaction whose numbers are numbers and whose maps have one  *)
(* entry survives the JSON and is accepted by its network.                 *)
THEOREM SignedAccepted == Spec => []SignedIsAccepted
  <1>1. SigningInv => SignedIsAccepted
    BY DEF SigningInv, Judged
  <1> QED
    BY <1>1, SigningAlways, PTL

(* A locator with a key makes the search before each signature find the    *)
(* device of the search at construction, whatever is plugged in between.   *)
THEOREM TargetKeySigns == Spec => []TargetSigns
  <1>1. SigningInv => TargetSigns
    <2> SUFFICES ASSUME SigningInv, case.mode = "Offchain", case.target # "any", signature # Unsigned
                 PROVE  signature.by = pubkey
      BY DEF TargetSigns
    <2>1. /\ signature = [by |-> wallet, over |-> Envelope(pubkey, domain, ClearText(domain, actions))]
          /\ pc \in {"signed", "posted", "done"} /\ case \in Cases
      BY DEF SigningInv, TypeOK, Signed
    <2>2. Named(pubkey) /\ Named(wallet)
      BY <2>1 DEF SigningInv, Devices
    <2> QED
      BY <2>1, <2>2, OneKey
  <1> QED
    BY <1>1, SigningAlways, PTL

(* A search gives up only when the bus holds no device of a known product  *)
(* that answers and is the one asked for, for buses of any length.         *)
THEOREM SearchFinds == Spec => []FoundIfPresent
  <1>1. SigningInv => FoundIfPresent
    BY DEF SigningInv
  <1> QED
    BY <1>1, SigningAlways, PTL

(* The text that is signed has a line for every action of the list and, at *)
(* every depth, of the proposals in it, with all fields but those that     *)
(* the match leaves out.                                                   *)
THEOREM DeviceTold == Spec => []DeviceTellsAll
  <1>1. SigningInv => DeviceTellsAll
    <2> SUFFICES ASSUME SigningInv, case.mode = "Offchain", signature # Unsigned PROVE DeviceTellsAll
      BY DEF DeviceTellsAll
    <2> DEFINE text == ClearText(domain, actions)
    <2>1. signature.over = Envelope(pubkey, domain, text) /\ case \in Cases /\ actions = case.tx.actions
      BY DEF SigningInv, TypeOK, Signed
    <2>2. signature.over.domain = domain /\ signature.over.payload = text
      BY <2>1 DEF Envelope
    <2>3. /\ text.network = domain /\ text.account = Tx.account
          /\ text.lines = [p \in Rendered(actions) |-> Line(actions, p)]
      BY DEF ClearText, Message
    <2>4. IsTransaction(actions)
      BY <2>1, CaseFacts
    <2> HIDE DEF text
    <2>5. ASSUME NEW p \in DOMAIN actions,
                 \/ Len(p) = 1
                 \/ Front(p) \in DOMAIN text.lines /\ actions[Front(p)].kind = "MultisigPropose"
          PROVE  /\ p \in DOMAIN text.lines /\ text.lines[p].kind = actions[p].kind
                 /\ text.lines[p].nested + Cardinality(text.lines[p].trigger)
                      = Cardinality(Children(actions, p))
                 /\ \A f \in DOMAIN actions[p].vals \ Untold :
                      /\ f \in DOMAIN text.lines[p].fields
                      /\ text.lines[p].fields[f] = ShownValue(actions[p].vals[f])
      <3>1. p \in Rendered(actions)
        BY <2>3, <2>4, <2>5, TextTells
      <3>2. p \in DOMAIN text.lines /\ text.lines[p] = Line(actions, p)
        BY <2>3, <3>1
      <3>3. IsAction(actions[p])
        BY <2>4 DEF IsTransaction
      <3>4. LeftOut(actions[p].kind) \subseteq Untold
        BY <3>3, LeavesOut DEF IsAction
      <3>5. /\ Line(actions, p).kind = actions[p].kind
            /\ Line(actions, p).nested + Cardinality(Line(actions, p).trigger)
                 = Cardinality(Children(actions, p))
            /\ Line(actions, p).fields = [f \in DOMAIN actions[p].vals \ LeftOut(actions[p].kind) |->
                                            ShownValue(actions[p].vals[f])]
        BY <2>4, LineCounts DEF Line
      <3> QED
        BY <3>2, <3>4, <3>5
    <2> QED
      BY <2>2, <2>3, <2>5 DEF DeviceTellsAll
  <1> QED
    BY <1>1, SigningAlways, PTL

(* The id of an order that was hashed after it was linked is that of the   *)
(* order the exchange parses.                                              *)
THEOREM OrderIdsAgree == Spec => []OrderIdIsTheExchanges
  <1>1. SigningInv => OrderIdIsTheExchanges
    <2> SUFFICES ASSUME SigningInv, verdict.accepted, orderId.fresh
                 PROVE  orderId.id = OrderId(verdict.actions,
                                       [account |-> Tx.account, nonce |-> Tx.nonce, seqno |-> 0])
      BY DEF OrderIdIsTheExchanges
    <2> DEFINE m == [account |-> Tx.account, nonce |-> Tx.nonce, seqno |-> 0]
    <2>1. PICK order \in Orders : verdict.actions = Parsed(actions, order) /\ Kept(actions, order)
      BY DEF SigningInv, Judged
    <2>2. orderId.id = OrderId(actions, m)
      BY DEF SigningInv, Hashed
    <2>3. IsTransaction(actions)
      BY CaseFacts DEF SigningInv, TypeOK
    <2> HIDE DEF m
    <2>4. OrderId(Parsed(actions, order), m) = OrderId(actions, m)
      BY <2>1, <2>3, OrderIdKept
    <2> QED
      BY <2>1, <2>2, <2>4 DEF m
  <1> QED
    BY <1>1, SigningAlways, PTL
=============================================================================
