-------------------------- MODULE PyAccountProofs --------------------------
(***************************************************************************)
(* Proofs that the Python client's positions and open orders are the       *)
(* exchange's once every message is handled, and that the profit or loss   *)
(* of the inventory is that of the fills it has counted: for any symbols,  *)
(* orders, prices and losses of the connection.                            *)
(***************************************************************************)
EXTENDS PyAccount, SequenceTheorems, FiniteSetTheorems, TLAPS

View == [inventory |-> inventory, orders |-> orders, unsure |-> unsure]

(* The open orders after a fill or an update.                              *)
Reduced(os, m) ==
  IF m.order \notin DOMAIN os THEN os
  ELSE IF os[m.order] <= m.size THEN Restrict(os, DOMAIN os \ {m.order})
  ELSE [os EXCEPT ![m.order] = @ - m.size]

Updated(os, m) ==
  IF IsTerminal(m.status) THEN Restrict(os, DOMAIN os \ {m.order}) ELSE With(os, m.order, m.size)

(* The view after one message, on a connection.                            *)
Effect(v, m) ==
  CASE m.type = "accountSnapshot" ->
         IF m.bad THEN v
         ELSE [inventory |-> Overlay(m.positions,
                                     Restrict(v.inventory, DOMAIN v.inventory \cap {Stable})),
               orders |-> m.orders, unsure |-> {}]
    [] m.type = "positionUpdate" ->
         [inventory |-> With(v.inventory, m.symbol, m.position),
          orders |-> v.orders, unsure |-> v.unsure \ {m.symbol}]
    [] m.type = "orderUpdate" ->
         IF m.status \in Known
         THEN [inventory |-> v.inventory, orders |-> Updated(v.orders, m), unsure |-> v.unsure]
         ELSE [inventory |-> v.inventory, orders |-> v.orders, unsure |-> v.unsure \cup {"orders"}]
    [] m.type = "fill" ->
         [inventory |-> Traded(v.inventory, SymbolOf[m.order], m.side, m.size, m.price),
          orders |-> Reduced(v.orders, m), unsure |-> v.unsure]
    [] m.type = "trades" ->
         [inventory |-> Traded(v.inventory, m.symbol, m.side, m.size, m.price),
          orders |-> v.orders, unsure |-> v.unsure \cup {m.symbol}]

INSTANCE SharedLemmas

SamePosition(position, actual) ==
  /\ position.quantity = actual.quantity
  /\ actual.quantity # 0 => position.vwap = actual.vwap

(* A view agrees with an account but for the symbols X.                    *)
AgreesBut(X, v, account) ==
  /\ \A s \in Symbols \ (v.unsure \cup X) :
       SamePosition(PositionFor(v.inventory, s), account.positions[s])
  /\ "orders" \notin v.unsure => v.orders = account.orders

Agrees(v, account) == AgreesBut({}, v, account)

ExchInv ==
  /\ exch = [p \in {"positions", "orders"} |-> exch[p]]
  /\ exch.positions = [s \in Symbols |-> exch.positions[s]]
  /\ exch.orders = [o \in DOMAIN exch.orders |-> exch.orders[o]]
  /\ \A o \in DOMAIN exch.orders : exch.orders[o] \in Int

(* On a connection the messages in flight lead to the account of the       *)
(* exchange; without one everything may differ.                            *)
FollowInv ==
  /\ ExchInv
  /\ IsSeq(inbox)
  /\ online => \E w : Leads(View, inbox, w) /\ Agrees(w, exch)
  /\ ~online => Symbols \cup {"orders"} \subseteq unsure

-----------------------------------------------------------------------------
(* What a message does to the agreement.                                   *)

LEMMA WithFacts ==
  ASSUME NEW f, f = [x \in DOMAIN f |-> f[x]], NEW o, NEW a
  PROVE  /\ DOMAIN With(f, o, a) = DOMAIN f \cup {o}
         /\ With(f, o, a)[o] = a
         /\ \A x \in DOMAIN f \ {o} : With(f, o, a)[x] = f[x]
         /\ With(f, o, a) = [x \in DOMAIN f \cup {o} |-> With(f, o, a)[x]]
  BY DEF With, Overlay

LEMMA PositionWith ==
  ASSUME NEW inv, NEW i, NEW p
  PROVE  /\ PositionFor(With(inv, i, p), i) = p
         /\ \A x : x # i => PositionFor(With(inv, i, p), x) = PositionFor(inv, x)
  BY DEF PositionFor, With, Overlay

(* A trade touches the position traded and the cash.                       *)
LEMMA TradedTouches ==
  ASSUME NEW inv, NEW i, NEW side, NEW amount, NEW price, NEW x, x # i, x # Stable
  PROVE  PositionFor(Traded(inv, i, side, amount, price), x) = PositionFor(inv, x)
  <1>1. \A j, q, w : x # j => \A n : PositionFor(SetPosition(n, j, q, w), x) = PositionFor(n, x)
    BY PositionWith DEF SetPosition
  <1>2. \A a : PositionFor(AddCash(inv, a), x) = PositionFor(inv, x)
    BY <1>1 DEF AddCash
  <1>3. \A q, w, a : PositionFor(SetPosition(AddCash(inv, a), i, q, w), x) = PositionFor(inv, x)
    BY <1>1, <1>2
  <1>4. \A q, w : PositionFor(SetPosition(inv, i, q, w), x) = PositionFor(inv, x)
    BY <1>1
  <1>5. \/ \E q, w : Traded(inv, i, side, amount, price) = SetPosition(inv, i, q, w)
        \/ \E q, w, a : Traded(inv, i, side, amount, price) = SetPosition(AddCash(inv, a), i, q, w)
    <2> DEFINE position   == PositionFor(inv, i)
               held       == position.quantity
               liquidated == Min({Magnitude(held), amount})
               vwap       == (Magnitude(held) * position.vwap + amount * price)
                               \div (Magnitude(held) + amount)
               gain       == Sign(held) * liquidated * (price - position.vwap)
    <2>1. \/ Traded(inv, i, side, amount, price) = SetPosition(inv, i, side * amount, price)
          \/ Traded(inv, i, side, amount, price) = SetPosition(inv, i, held + side * amount, vwap)
          \/ Traded(inv, i, side, amount, price)
               = SetPosition(AddCash(inv, gain), i, side * (amount - liquidated), price)
          \/ Traded(inv, i, side, amount, price)
               = SetPosition(AddCash(inv, gain), i, held + side * amount, position.vwap)
      BY DEF Traded
    <2> HIDE DEF held, liquidated, vwap, gain, position
    <2> QED
      BY <2>1
  <1> QED
    BY <1>3, <1>4, <1>5

LEMMA SymbolIsNoDollar == \A s \in Symbols : s # Stable /\ s # "orders" /\ s \notin Dollars
  BY PyAccountAssumption, StableAssumption

LEMMA TradeAgrees ==
  ASSUME NEW X, NEW v, NEW account, AgreesBut(X, v, account), NEW s \in Symbols,
         NEW m, m.type = "trades", m.symbol = s
  PROVE  AgreesBut(X, Effect(v, m), account)
  <1>1. Effect(v, m) = [inventory |-> Traded(v.inventory, s, m.side, m.size, m.price),
                        orders |-> v.orders, unsure |-> v.unsure \cup {s}]
    BY DEF Effect
  <1> DEFINE inv == Traded(v.inventory, s, m.side, m.size, m.price)
  <1>2. \A t \in Symbols : t # s => PositionFor(inv, t) = PositionFor(v.inventory, t)
    BY TradedTouches, SymbolIsNoDollar
  <1> HIDE DEF inv
  <1> QED
    BY <1>1, <1>2, SymbolIsNoDollar DEF AgreesBut, inv

(* A fill may put the position wrong until its update comes; the order is  *)
(* reduced as at the exchange.                                             *)
LEMMA FillAgrees ==
  ASSUME NEW X, NEW v, NEW account, AgreesBut(X, v, account),
         account.orders = [x \in DOMAIN account.orders |-> account.orders[x]],
         NEW m, m.type = "fill", m.order \in DOMAIN account.orders, SymbolOf[m.order] \in X,
         account.orders[m.order] \in Int, m.size \in Nat, m.size <= account.orders[m.order],
         NEW e, e.positions = account.positions,
         e.orders = IF account.orders[m.order] - m.size = 0
                    THEN Restrict(account.orders, DOMAIN account.orders \ {m.order})
                    ELSE [account.orders EXCEPT ![m.order] = account.orders[m.order] - m.size]
  PROVE  AgreesBut(X, Effect(v, m), e)
  <1> DEFINE inv == Traded(v.inventory, SymbolOf[m.order], m.side, m.size, m.price)
  <1>1. Effect(v, m) = [inventory |-> inv, orders |-> Reduced(v.orders, m), unsure |-> v.unsure]
    BY DEF Effect
  <1>2. \A t \in Symbols \ X : PositionFor(inv, t) = PositionFor(v.inventory, t)
    BY TradedTouches, SymbolIsNoDollar
  <1>3. Reduced(account.orders, m) = e.orders
    BY DEF Reduced, Restrict
  <1> HIDE DEF inv
  <1> QED
    BY <1>1, <1>2, <1>3 DEF AgreesBut

LEMMA OrderAgrees ==
  ASSUME NEW X, NEW v, NEW account, AgreesBut(X, v, account),
         NEW m, m.type = "orderUpdate", NEW e, e.positions = account.positions,
         m.status \in Known => e.orders = Updated(account.orders, m)
  PROVE  AgreesBut(X, Effect(v, m), e)
  <1>1. CASE m.status \in Known
    <2>1. Effect(v, m) = [inventory |-> v.inventory, orders |-> Updated(v.orders, m),
                          unsure |-> v.unsure]
      BY <1>1 DEF Effect
    <2> QED
      BY <1>1, <2>1 DEF AgreesBut
  <1>2. CASE m.status \notin Known
    <2>1. Effect(v, m) = [inventory |-> v.inventory, orders |-> v.orders,
                          unsure |-> v.unsure \cup {"orders"}]
      BY <1>2 DEF Effect
    <2> QED
      BY <2>1 DEF AgreesBut
  <1> QED
    BY <1>1, <1>2

LEMMA PositionAgrees ==
  ASSUME NEW v, NEW account, NEW s \in Symbols, AgreesBut({s}, v, account),
         NEW m, m.type = "positionUpdate", m.symbol = s,
         NEW e, e.orders = account.orders, e.positions[s] = m.position,
         \A t \in Symbols \ {s} : e.positions[t] = account.positions[t]
  PROVE  Agrees(Effect(v, m), e)
  <1> DEFINE inv == With(v.inventory, s, m.position)
  <1>1. Effect(v, m) = [inventory |-> inv, orders |-> v.orders, unsure |-> v.unsure \ {s}]
    BY DEF Effect
  <1>2. PositionFor(inv, s) = e.positions[s]
        /\ \A t \in Symbols \ {s} : PositionFor(inv, t) = PositionFor(v.inventory, t)
    BY PositionWith
  <1> HIDE DEF inv
  <1> QED
    BY <1>1, <1>2, SymbolIsNoDollar DEF Agrees, AgreesBut, SamePosition

LEMMA SnapshotAgrees ==
  ASSUME NEW v, NEW account, NEW bad,
         NEW m, m = SnapshotOf(account, bad), bad => Agrees(v, account)
  PROVE  Agrees(Effect(v, m), account)
  <1>0. /\ m.type = "accountSnapshot" /\ m.bad = bad /\ m.orders = account.orders
        /\ m.positions = [s \in Held(account) |-> account.positions[s]]
    BY DEF SnapshotOf
  <1>1. CASE bad
    BY <1>0, <1>1 DEF Effect
  <1>2. CASE ~ bad
    <2> DEFINE cash == Restrict(v.inventory, DOMAIN v.inventory \cap {Stable})
               inv == Overlay(m.positions, cash)
    <2>1. Effect(v, m) = [inventory |-> inv, orders |-> account.orders, unsure |-> {}]
      BY <1>0, <1>2 DEF Effect
    <2>2. ASSUME NEW s \in Symbols PROVE SamePosition(PositionFor(inv, s), account.positions[s])
      <3>1. s \notin DOMAIN cash
        BY SymbolIsNoDollar DEF Restrict
      <3>2. CASE s \in Held(account)
        <4>1. s \in DOMAIN inv /\ inv[s] = account.positions[s]
          BY <1>0, <3>2 DEF Overlay
        <4> QED
          BY <4>1 DEF PositionFor, SamePosition
      <3>3. CASE s \notin Held(account)
        <4>1. account.positions[s].quantity = 0
          BY <3>3 DEF Held
        <4>2. s \notin DOMAIN inv
          BY <1>0, <3>1, <3>3 DEF Overlay
        <4>3. PositionFor(inv, s).quantity = 0
          BY <4>2 DEF PositionFor
        <4> QED
          BY <4>1, <4>3 DEF SamePosition
      <3> QED
        BY <3>2, <3>3
    <2> HIDE DEF inv
    <2> QED
      BY <2>1, <2>2 DEF Agrees, AgreesBut
  <1> QED
    BY <1>1, <1>2

-----------------------------------------------------------------------------
(* The exchange and the network.                                           *)

LEMMA TellKeeps ==
  ASSUME FollowInv, ExchInv', NEW account, NEW msgs, IsSeq(msgs), Tell(account, msgs),
         \A w : Agrees(w, exch) => \E x : Leads(w, msgs, x) /\ Agrees(x, account)
  PROVE  FollowInv'
  <1>1. exch' = account /\ online' = online /\ View' = View /\ unsure' = unsure
        /\ inbox' = IF online THEN inbox \o msgs ELSE inbox
    BY DEF Tell, View, clientVars, history
  <1>2. CASE online
    <2>1. PICK w : Leads(View, inbox, w) /\ Agrees(w, exch)
      BY <1>2 DEF FollowInv
    <2>2. PICK x : Leads(w, msgs, x) /\ Agrees(x, account)
      BY <2>1
    <2>3. IsSeq(inbox)
      BY DEF FollowInv
    <2>4. Leads(View, inbox', x) /\ IsSeq(inbox')
      BY <1>1, <1>2, <2>1, <2>2, <2>3, LeadsConcat, SeqConcat
    <2> QED
      BY <1>1, <1>2, <2>2, <2>4 DEF FollowInv
  <1>3. CASE ~ online
    BY <1>1, <1>3 DEF FollowInv
  <1> QED
    BY <1>2, <1>3

LEMMA TellOne ==
  ASSUME FollowInv, ExchInv', NEW account, NEW m, Tell(account, <<m>>),
         \A w : Agrees(w, exch) => Agrees(Effect(w, m), account)
  PROVE  FollowInv'
  <1>1. IsSeq(<<m>>) /\ \A w : Leads(w, <<m>>, Effect(w, m))
    BY LeadsFew
  <1> QED
    BY <1>1, TellKeeps

LEMMA OrderSteps ==
  ASSUME FollowInv, NEW o \in Orders,
         (\E n \in Sizes : Place(o, n)) \/ (\E status \in EndStatuses : EndOrder(o, status))
  PROVE  FollowInv'
  <1>0. ExchInv
    BY DEF FollowInv
  <1>1. ASSUME NEW n \in Sizes, Place(o, n) PROVE FollowInv'
    <2> DEFINE m == OrderMsg(o, "resting", n)
               e == [exch EXCEPT !.orders = With(@, o, n)]
    <2>1. Tell(e, <<m>>) /\ n \in Int
      BY <1>1, PyAccountAssumption DEF Place, Sizes
    <2>2. e.orders = With(exch.orders, o, n) /\ e.positions = exch.positions
      BY <1>0 DEF ExchInv
    <2>3. exch' = e
      BY <2>1 DEF Tell
    <2>4. ExchInv'
      <3>1. e = [p \in {"positions", "orders"} |-> e[p]]
        BY <1>0 DEF ExchInv
      <3>2. /\ e.orders = [x \in DOMAIN e.orders |-> e.orders[x]]
            /\ \A x \in DOMAIN e.orders : e.orders[x] \in Int
        BY <1>0, <2>1, <2>2 DEF ExchInv, With, Overlay
      <3> HIDE DEF e
      <3> QED
        BY <1>0, <2>2, <2>3, <3>1, <3>2 DEF ExchInv
    <2>5. m.type = "orderUpdate" /\ e.orders = Updated(exch.orders, m)
      BY <2>2 DEF OrderMsg, Updated, IsTerminal, LiveStatuses
    <2>6. \A w : Agrees(w, exch) => Agrees(Effect(w, m), e)
      BY <2>2, <2>5, OrderAgrees DEF Agrees
    <2> HIDE DEF m, e
    <2> QED
      BY <2>1, <2>4, <2>6, TellOne
  <1>2. ASSUME NEW status \in EndStatuses, EndOrder(o, status) PROVE FollowInv'
    <2> DEFINE m == OrderMsg(o, status, exch.orders[o])
               e == [exch EXCEPT !.orders = Restrict(@, DOMAIN @ \ {o})]
    <2>1. Tell(e, <<m>>)
      BY <1>2 DEF EndOrder
    <2>2. /\ e.orders = Restrict(exch.orders, DOMAIN exch.orders \ {o})
          /\ e.positions = exch.positions
      BY <1>0 DEF ExchInv
    <2>3. exch' = e
      BY <2>1 DEF Tell
    <2>4. ExchInv'
      BY <1>0, <2>2, <2>3 DEF ExchInv, Restrict
    <2>5. m.type = "orderUpdate" /\ e.orders = Updated(exch.orders, m)
      BY <2>2, PyAccountAssumption DEF OrderMsg, Updated, IsTerminal
    <2>6. \A w : Agrees(w, exch) => Agrees(Effect(w, m), e)
      BY <2>2, <2>5, OrderAgrees DEF Agrees
    <2> HIDE DEF m, e
    <2> QED
      BY <2>1, <2>4, <2>6, TellOne
  <1> QED
    BY <1>1, <1>2

(* The fill, the end of the order when it is done, and the position, with  *)
(* or without the public trade before or after them.                       *)
LEMMA FillStep ==
  ASSUME FollowInv, NEW o \in Orders, NEW n \in Sizes, NEW price, FillOrder(o, n, price)
  PROVE  FollowInv'
  <1> DEFINE s        == SymbolOf[o]
             left     == exch.orders[o] - n
             position == After(exch.positions[s], Dir(o) * n, price)
             account  == [exch EXCEPT !.positions[s] = position,
                                      !.orders = IF left = 0 THEN Restrict(@, DOMAIN @ \ {o})
                                                             ELSE [@ EXCEPT ![o] = left]]
             f        == [type |-> "fill", order |-> o, side |-> Dir(o), size |-> n, price |-> price]
             done     == OrderMsg(o, "filled", 0)
             pm       == PositionMsg(s, position)
             end      == IF left = 0 THEN <<done>> ELSE <<>>
             own      == <<f>> \o end \o <<pm>>
             trade(d) == [type |-> "trades", symbol |-> s, side |-> d, size |-> n, price |-> price]
             e1       == [positions |-> exch.positions, orders |-> account.orders]
  <1>0. ExchInv
    BY DEF FollowInv
  <1>1. o \in DOMAIN exch.orders /\ n <= exch.orders[o]
    BY DEF FillOrder
  <1>2. n \in Nat /\ exch.orders[o] \in Int /\ left \in Int /\ s \in Symbols
    BY <1>0, <1>1, PyAccountAssumption DEF Sizes, ExchInv, Symbols
  <1>3. \/ Tell(account, own)
        \/ \E d \in {1, -1} : Tell(account, <<trade(d)>> \o own) \/ Tell(account, own \o <<trade(d)>>)
    BY Zenon DEF FillOrder
  <1>4. exch' = account
    BY <1>3, Zenon DEF Tell
  <1>5. /\ account = [p \in {"positions", "orders"} |-> account[p]]
        /\ account.orders = IF left = 0 THEN Restrict(exch.orders, DOMAIN exch.orders \ {o})
                                        ELSE [exch.orders EXCEPT ![o] = left]
        /\ account.positions = [exch.positions EXCEPT ![s] = position]
    <2> HIDE DEF s, position, left
    <2>1. exch = [p \in {"positions", "orders"} |-> exch[p]]
      BY <1>0 DEF ExchInv
    <2> QED
      BY <2>1
  <1>6. /\ account.positions[s] = position
        /\ \A t \in Symbols \ {s} : account.positions[t] = exch.positions[t]
        /\ account.positions = [t \in Symbols |-> account.positions[t]]
    BY <1>0, <1>2, <1>5 DEF ExchInv
  <1>7. /\ e1.positions = exch.positions /\ e1.orders = account.orders
    OBVIOUS
  <1> HIDE DEF account, e1, position
  <1>8. ExchInv'
    <2>1. /\ account.orders = [x \in DOMAIN account.orders |-> account.orders[x]]
          /\ \A x \in DOMAIN account.orders : account.orders[x] \in Int
      BY <1>0, <1>2, <1>5 DEF ExchInv, Restrict
    <2> QED
      BY <1>4, <1>5, <1>6, <2>1 DEF ExchInv
  <1>9. f.type = "fill" /\ f.order = o /\ f.size = n
    OBVIOUS
  <1>10. done.type = "orderUpdate" /\ account.orders = account.orders
         /\ (left = 0 => Updated(account.orders, done) = account.orders)
    BY <1>5 DEF OrderMsg, Updated, IsTerminal, LiveStatuses, Restrict
  <1>11. pm.type = "positionUpdate" /\ pm.symbol = s /\ pm.position = position
    BY DEF PositionMsg
  <1>12. \A d : trade(d).type = "trades" /\ trade(d).symbol = s
    OBVIOUS
  <1>13. exch.orders = [x \in DOMAIN exch.orders |-> exch.orders[x]]
    BY <1>0 DEF ExchInv
  <1>14. end = <<>> \/ (end = <<done>> /\ left = 0)
    OBVIOUS
  <1> HIDE DEF f, done, pm, end, trade, s, left
  <1>15. ASSUME NEW w, AgreesBut({s}, w, exch) PROVE \E x : Leads(w, own, x) /\ Agrees(x, account)
    <2> DEFINE w1 == Effect(w, f)
    <2>1. AgreesBut({s}, w1, e1)
      <3>1. e1.orders = IF exch.orders[o] - n = 0
                        THEN Restrict(exch.orders, DOMAIN exch.orders \ {o})
                        ELSE [exch.orders EXCEPT ![o] = exch.orders[o] - n]
        BY <1>5, <1>7 DEF left
      <3>2. SymbolOf[o] \in {s}
        BY DEF s
      <3> QED
        BY <1>1, <1>2, <1>7, <1>9, <1>13, <1>15, <3>1, <3>2, FillAgrees
    <2>2. Leads(w, <<f>>, w1) /\ IsSeq(<<f>>)
      BY LeadsFew
    <2> HIDE DEF w1
    <2>3. PICK w2 : Leads(w1, end, w2) /\ AgreesBut({s}, w2, e1)
      <3>1. CASE end = <<>>
        BY <2>1, <3>1, LeadsFew
      <3>2. CASE end = <<done>> /\ left = 0
        <4>1. AgreesBut({s}, Effect(w1, done), e1)
          BY <1>7, <1>10, <2>1, <3>2, OrderAgrees
        <4> QED
          BY <3>2, <4>1, LeadsFew
      <3> QED
        BY <1>14, <3>1, <3>2
    <2>4. IsSeq(end)
      BY <1>14, LeadsFew
    <2> DEFINE w3 == Effect(w2, pm)
    <2>5. Agrees(w3, account)
      BY <1>2, <1>6, <1>7, <1>11, <2>3, PositionAgrees
    <2>6. Leads(w2, <<pm>>, w3) /\ IsSeq(<<pm>>)
      BY LeadsFew
    <2> HIDE DEF w3
    <2>7. Leads(w, <<f>> \o end, w2) /\ IsSeq(<<f>> \o end)
      BY <2>2, <2>3, <2>4, LeadsConcat, SeqConcat
    <2>8. Leads(w, own, w3)
      BY <2>6, <2>7, LeadsConcat
    <2> QED
      BY <2>5, <2>8
  <1>16. IsSeq(own)
    <2>1. IsSeq(<<f>>) /\ IsSeq(end) /\ IsSeq(<<pm>>)
      BY <1>14, LeadsFew
    <2> QED
      BY <2>1, SeqConcat
  <1> HIDE DEF own
  <1>17. \A w : Agrees(w, exch) => AgreesBut({s}, w, exch)
    BY DEF Agrees, AgreesBut
  <1>18. CASE Tell(account, own)
    BY <1>8, <1>15, <1>16, <1>17, <1>18, TellKeeps
  <1>19. ASSUME NEW d \in {1, -1}, Tell(account, <<trade(d)>> \o own) PROVE FollowInv'
    <2> DEFINE t == trade(d)
    <2>1. ASSUME NEW w, Agrees(w, exch) PROVE \E x : Leads(w, <<t>> \o own, x) /\ Agrees(x, account)
      <3>1. AgreesBut({s}, Effect(w, t), exch)
        BY <1>2, <1>12, <1>17, <2>1, TradeAgrees
      <3>2. PICK x : Leads(Effect(w, t), own, x) /\ Agrees(x, account)
        BY <1>15, <3>1
      <3>3. Leads(w, <<t>>, Effect(w, t)) /\ IsSeq(<<t>>)
        BY LeadsFew
      <3> QED
        BY <1>16, <3>2, <3>3, LeadsConcat
    <2>2. IsSeq(<<t>> \o own)
      BY <1>16, LeadsFew, SeqConcat
    <2> QED
      BY <1>8, <1>19, <2>1, <2>2, TellKeeps
  <1>20. ASSUME NEW d \in {1, -1}, Tell(account, own \o <<trade(d)>>) PROVE FollowInv'
    <2> DEFINE t == trade(d)
    <2>1. ASSUME NEW w, Agrees(w, exch) PROVE \E x : Leads(w, own \o <<t>>, x) /\ Agrees(x, account)
      <3>1. PICK x : Leads(w, own, x) /\ Agrees(x, account)
        BY <1>15, <1>17, <2>1
      <3>2. Agrees(Effect(x, t), account)
        BY <1>2, <1>12, <3>1, TradeAgrees DEF Agrees
      <3>3. Leads(x, <<t>>, Effect(x, t)) /\ IsSeq(<<t>>)
        BY LeadsFew
      <3> QED
        BY <1>16, <3>1, <3>2, <3>3, LeadsConcat
    <2>2. IsSeq(own \o <<t>>)
      BY <1>16, LeadsFew, SeqConcat
    <2> QED
      BY <1>8, <1>20, <2>1, <2>2, TellKeeps
  <1> QED
    BY <1>3, <1>18, <1>19, <1>20

LEMMA ConnectionSteps ==
  ASSUME FollowInv, Lose \/ Reconnected
  PROVE  FollowInv'
  <1>0. IsSeq(<<>>)
    BY LeadsFew
  <1>1. CASE Lose
    BY <1>0, <1>1 DEF Lose, FollowInv, ExchInv, exchVars
  <1>2. CASE Reconnected
    <2>1. PICK bad : inbox' = <<SnapshotOf(exch, bad)>>
      BY <1>2 DEF Reconnected, Snapshots
    <2>2. exch' = exch /\ View' = View /\ online' = TRUE /\ Symbols \cup {"orders"} \subseteq unsure
      BY <1>2 DEF Reconnected, exchVars, clientVars, history, View, FollowInv
    <2> DEFINE m == SnapshotOf(exch, bad)
    <2>3. Agrees(View, exch)
      BY <2>2 DEF Agrees, AgreesBut, View
    <2>4. Agrees(Effect(View, m), exch)
      BY <2>3, SnapshotAgrees
    <2>5. Leads(View, <<m>>, Effect(View, m)) /\ IsSeq(<<m>>)
      BY LeadsFew
    <2> HIDE DEF m
    <2>6. inbox' = <<m>>
      BY <2>1 DEF m
    <2> QED
      BY <2>2, <2>4, <2>5, <2>6 DEF FollowInv, ExchInv
  <1> QED
    BY <1>1, <1>2

-----------------------------------------------------------------------------
(* The client.                                                             *)

Handle == HandleSnapshot \/ HandlePosition \/ HandleOrder \/ HandleFill \/ HandleTrades

LEMMA HandleIsEffect ==
  ASSUME Handle
  PROVE  /\ inbox # <<>> /\ inbox' = Tail(inbox) /\ UNCHANGED <<exchVars, online>>
         /\ online => View' = Effect(View, Head(inbox))
         /\ ~online => unsure \subseteq unsure'
  <1> DEFINE m == Head(inbox)
  <1>1. inbox # <<>> /\ inbox' = Tail(inbox) /\ UNCHANGED <<exchVars, online>>
    BY DEF Handle, HandleSnapshot, HandlePosition, HandleOrder, HandleFill, HandleTrades, Takes
  <1>2. ~online => unsure \subseteq unsure'
    BY DEF Handle, HandleSnapshot, HandlePosition, HandleOrder, HandleFill, HandleTrades, history,
           Settled
  <1>3. online => View' = Effect(View, m)
    <2>1. CASE HandleSnapshot
      BY <2>1 DEF HandleSnapshot, Takes, Settled, View, Effect, clientVars, history
    <2>2. CASE HandlePosition
      BY <2>2 DEF HandlePosition, Takes, View, Effect
    <2>3. CASE HandleOrder
      BY <2>3 DEF HandleOrder, Takes, View, Effect, Updated
    <2>4. CASE HandleFill
      BY <2>4 DEF HandleFill, Takes, View, Effect, Reduced
    <2>5. CASE HandleTrades
      BY <2>5 DEF HandleTrades, Takes, View, Effect
    <2> QED
      BY <2>1, <2>2, <2>3, <2>4, <2>5 DEF Handle
  <1> QED
    BY <1>1, <1>2, <1>3

LEMMA HandleKeeps ==
  ASSUME FollowInv, Handle
  PROVE  FollowInv'
  <1>1. IsSeq(inbox')
    <2>1. PICK S : inbox \in Seq(S)
      BY DEF FollowInv, IsSeq
    <2>2. Tail(inbox) \in Seq(S)
      BY <2>1, HandleIsEffect, HeadTailProperties
    <2> QED
      BY <2>2, HandleIsEffect DEF IsSeq
  <1>2. exch' = exch /\ online' = online
    BY HandleIsEffect DEF exchVars
  <1>3. CASE online
    <2>1. PICK w : Leads(View, inbox, w) /\ Agrees(w, exch)
      BY <1>3 DEF FollowInv
    <2>2. Leads(View', inbox', w)
      BY <1>3, <2>1, HandleIsEffect, LeadsTail DEF FollowInv
    <2> QED
      BY <1>1, <1>2, <1>3, <2>1, <2>2 DEF FollowInv, ExchInv
  <1>4. CASE ~ online
    BY <1>1, <1>2, <1>4, HandleIsEffect DEF FollowInv, ExchInv
  <1> QED
    BY <1>3, <1>4

LEMMA FollowInit == Init => FollowInv
  <1> SUFFICES ASSUME Init PROVE FollowInv
    OBVIOUS
  <1>1. PICK position, S : exch = [positions |-> [s \in Symbols |-> position],
                                   orders |-> [o \in S |-> MaxSize]]
    BY DEF Init
  <1>2. PICK bad : inbox = <<SnapshotOf(exch, bad)>>
    BY DEF Init, Snapshots
  <1> DEFINE m == SnapshotOf(exch, bad)
  <1>3. ExchInv
    BY <1>1, PyAccountAssumption DEF ExchInv
  <1>4. online /\ Agrees(View, exch)
    BY DEF Init, Agrees, AgreesBut, View
  <1>5. Agrees(Effect(View, m), exch)
    BY <1>4, SnapshotAgrees
  <1>6. Leads(View, <<m>>, Effect(View, m)) /\ IsSeq(<<m>>)
    BY LeadsFew
  <1> HIDE DEF m
  <1>7. inbox = <<m>>
    BY <1>2 DEF m
  <1> QED
    BY <1>3, <1>4, <1>5, <1>6, <1>7 DEF FollowInv

LEMMA FollowStep ==
  ASSUME FollowInv, [Next]_vars
  PROVE  FollowInv'
  <1>1. CASE UNCHANGED vars
    <2>1. UNCHANGED <<exch, online, inbox, View, unsure>>
      BY <1>1 DEF vars, exchVars, clientVars, history, View
    <2> QED
      BY <2>1 DEF FollowInv, ExchInv
  <1> QED
    BY <1>1, OrderSteps, FillStep, ConnectionSteps, HandleKeeps DEF Next, Handle

(* When a connection's messages are all handled, the client has the        *)
(* positions and the open orders of the exchange: after fills booked once  *)
(* or twice, reversals, orders that end, and the snapshot that follows a   *)
(* lost connection.                                                        *)
THEOREM AccountFollows == Spec => []AccountFollowsExchange
  <1>1. FollowInv => AccountFollowsExchange
    <2> SUFFICES ASSUME FollowInv, online, inbox = <<>>
                 PROVE  /\ \A s \in Symbols \ unsure :
                             /\ PositionFor(inventory, s).quantity = exch.positions[s].quantity
                             /\ exch.positions[s].quantity # 0 =>
                                  inventory[s].vwap = exch.positions[s].vwap
                        /\ "orders" \notin unsure => orders = exch.orders
      BY DEF AccountFollowsExchange
    <2>1. Agrees(View, exch)
      BY LeadsNowhere DEF FollowInv
    <2>2. ASSUME NEW s \in Symbols \ unsure
          PROVE  SamePosition(PositionFor(inventory, s), exch.positions[s])
      BY <2>1, <2>2 DEF Agrees, AgreesBut, View
    <2>3. ASSUME NEW s \in Symbols \ unsure, exch.positions[s].quantity # 0
          PROVE  PositionFor(inventory, s) = inventory[s]
      BY <2>2, <2>3 DEF SamePosition, PositionFor
    <2> QED
      BY <2>1, <2>2, <2>3 DEF SamePosition, Agrees, AgreesBut, View
  <1> QED
    BY <1>1, FollowInit, FollowStep, PTL DEF Spec

-----------------------------------------------------------------------------
(* The profit or loss.  While the inventory counts every fill once, it has *)
(* the exchange's positions as they were before the messages in flight;    *)
(* how it got there is a second path of views.                             *)

Position == [quantity : Int, vwap : Int]

(* The average of an empty position is nobody's.                           *)
Net0(position) == IF position.quantity = 0 THEN Flat ELSE position

Positions(inv) == [s \in Symbols |-> Net0(PositionFor(inv, s))]

Knows(positions) == [is |-> "known", positions |-> positions]
Lost             == [is |-> "lost", positions |-> <<>>]
Wrong            == [is |-> "wrong", positions |-> <<>>]

(* What a message makes of known positions: wrong is what the exchange     *)
(* never sends.                                                            *)
Booking(positions, m) ==
  CASE m.type = "fill" ->
         LET s == SymbolOf[m.order]
         IN  IF Whole(positions[s], m.side * m.size, m.price)
             THEN Knows([positions EXCEPT ![s] = After(@, m.side * m.size, m.price)])
             ELSE Wrong
    [] m.type = "positionUpdate" ->
         IF m.position = positions[m.symbol] THEN Knows(positions) ELSE Wrong
    [] m.type = "trades" -> Lost
    [] m.type \notin {"fill", "positionUpdate", "trades"} -> Knows(positions)

Booked(v, m) ==
  IF v.is = "wrong" THEN v
  ELSE IF m.type = "accountSnapshot" /\ ~m.bad
  THEN Knows([s \in Symbols |-> IF s \in DOMAIN m.positions THEN Net0(m.positions[s]) ELSE Flat])
  ELSE IF v.is = "known" THEN Booking(v.positions, m) ELSE v

Counted == IF exact THEN Knows(Positions(inventory)) ELSE Lost

Ledger == INSTANCE SharedLemmas WITH Effect <- Booked

(* What a message may carry.                                               *)
IsTrade(m) == m.side \in {1, -1} /\ m.size \in Nat \ {0} /\ m.price \in Int

Possible(m) ==
  /\ m.type = "fill" => m.order \in Orders /\ IsTrade(m)
  /\ m.type = "trades" => m.symbol \in Symbols /\ IsTrade(m)
  /\ m.type = "positionUpdate" => m.symbol \in Symbols /\ m.position \in Position
  /\ m.type = "accountSnapshot" =>
       /\ m.positions = [s \in DOMAIN m.positions |-> m.positions[s]]
       /\ DOMAIN m.positions \subseteq Symbols
       /\ \A s \in DOMAIN m.positions : m.positions[s] \in Position

Holdings(inv) ==
  /\ inv = [i \in DOMAIN inv |-> inv[i]]
  /\ DOMAIN inv \subseteq Symbols \cup {Stable}
  /\ \A i \in DOMAIN inv : inv[i] \in Position

LEMMA PositionIs == \A p \in Position : p = [quantity |-> p.quantity, vwap |-> p.vwap]
                                        /\ p.quantity \in Int /\ p.vwap \in Int
  BY DEF Position

LEMMA HeldIs ==
  ASSUME NEW inv, Holdings(inv), NEW i PROVE PositionFor(inv, i) \in Position
  BY DEF Holdings, PositionFor, Position

LEMMA HoldingsWith ==
  ASSUME NEW inv, Holdings(inv), NEW i \in Symbols \cup {Stable}, NEW p \in Position
  PROVE  Holdings(With(inv, i, p))
  <1>1. inv = [x \in DOMAIN inv |-> inv[x]]
    BY DEF Holdings
  <1> DEFINE new == With(inv, i, p)
  <1>2. /\ DOMAIN new = DOMAIN inv \cup {i} /\ new[i] = p
        /\ \A x \in DOMAIN inv \ {i} : new[x] = inv[x]
        /\ new = [x \in DOMAIN inv \cup {i} |-> new[x]]
    BY DEF With, Overlay
  <1> HIDE DEF new
  <1> QED
    BY <1>2 DEF Holdings, new

LEMMA HoldingsSet ==
  ASSUME NEW inv, Holdings(inv), NEW i \in Symbols \cup {Stable}, NEW q \in Int, NEW v \in Int
  PROVE  /\ Holdings(SetPosition(inv, i, q, v))
         /\ PositionFor(SetPosition(inv, i, q, v), i) = [quantity |-> q, vwap |-> v]
         /\ \A x : x # i => PositionFor(SetPosition(inv, i, q, v), x) = PositionFor(inv, x)
  <1>1. [quantity |-> q, vwap |-> v] \in Position
    BY DEF Position
  <1> QED
    BY <1>1, HoldingsWith, PositionWith DEF SetPosition

LEMMA CashAdded ==
  ASSUME NEW inv, Holdings(inv), NEW amount \in Int
  PROVE  /\ Holdings(AddCash(inv, amount))
         /\ PositionFor(AddCash(inv, amount), Stable).quantity
              = PositionFor(inv, Stable).quantity + amount
         /\ \A x : x # Stable => PositionFor(AddCash(inv, amount), x) = PositionFor(inv, x)
  <1> DEFINE cash == PositionFor(inv, Stable)
             q == cash.quantity + amount
             v == cash.vwap
  <1>1. q \in Int /\ v \in Int
    BY HeldIs, PositionIs
  <1>2. AddCash(inv, amount) = SetPosition(inv, Stable, q, v)
    BY DEF AddCash
  <1> HIDE DEF q, v
  <1>3. /\ Holdings(AddCash(inv, amount))
        /\ PositionFor(AddCash(inv, amount), Stable) = [quantity |-> q, vwap |-> v]
        /\ \A x : x # Stable => PositionFor(AddCash(inv, amount), x) = PositionFor(inv, x)
    BY <1>1, <1>2, HoldingsSet
  <1>4. PositionFor(AddCash(inv, amount), Stable).quantity = q
    BY <1>3
  <1> QED
    BY <1>3, <1>4 DEF q

LEMMA MagnitudeIs ==
  ASSUME NEW a \in Int
  PROVE  /\ Magnitude(a) \in Nat /\ (a > 0 => Magnitude(a) = a) /\ (a < 0 => Magnitude(a) = -a)
         /\ a # 0 => Magnitude(a) # 0
         /\ a > 0 => Sign(a) = 1
         /\ a < 0 => Sign(a) = -1
  BY DEF Magnitude, Sign

LEMMA SmallerIs ==
  ASSUME NEW a \in Int, NEW b \in Int PROVE Min({a, b}) = IF a <= b THEN a ELSE b
  <1> DEFINE K == {a, b}
             c == IF a <= b THEN a ELSE b
  <1>1. c \in K /\ \A k \in K : c <= k
    OBVIOUS
  <1>2. \A x \in K : (\A k \in K : x <= k) => x = c
    OBVIOUS
  <1> HIDE DEF K, c
  <1>3. Min(K) = c
    BY <1>1, <1>2 DEF Min
  <1> QED
    BY <1>3 DEF K, c

(* A trade opens a position, or the position grows, crosses zero, or       *)
(* shrinks.                                                                *)
Grows(h, side)           == h # 0 /\ side * h >= 0
Crosses(h, side, amount) == h # 0 /\ ~(side * h >= 0) /\ amount > Magnitude(h)
Shrinks(h, side, amount) == h # 0 /\ ~(side * h >= 0) /\ amount <= Magnitude(h)

(* What a trade makes of the inventory, case by case.                      *)
Trading(inv, new, s, h, v, side, amount, price) ==
  LET gain(n) == Sign(h) * n * (price - v)
  IN  /\ h = 0 => new = SetPosition(inv, s, side * amount, price)
      /\ Grows(h, side) =>
           new = SetPosition(inv, s, h + side * amount,
                             (Magnitude(h) * v + amount * price) \div (Magnitude(h) + amount))
      /\ Crosses(h, side, amount) =>
           new = SetPosition(AddCash(inv, gain(Magnitude(h))), s,
                             side * (amount - Magnitude(h)), price)
      /\ Shrinks(h, side, amount) =>
           new = SetPosition(AddCash(inv, gain(amount)), s, h + side * amount, v)

LEMMA TradedCases ==
  ASSUME NEW inv, NEW s, NEW side \in {1, -1}, NEW amount \in Nat \ {0}, NEW price,
         NEW h \in Int, NEW v, PositionFor(inv, s) = [quantity |-> h, vwap |-> v]
  PROVE  Trading(inv, Traded(inv, s, side, amount, price), s, h, v, side, amount, price)
  <1> DEFINE new == Traded(inv, s, side, amount, price)
             gain(n) == Sign(h) * n * (price - v)
  <1>1. Magnitude(h) \in Nat
    BY MagnitudeIs
  <1>2. Min({Magnitude(h), amount}) = IF Magnitude(h) <= amount THEN Magnitude(h) ELSE amount
    BY <1>1, SmallerIs
  <1>3. ASSUME h = 0 PROVE new = SetPosition(inv, s, side * amount, price)
    BY <1>3 DEF Traded
  <1>4. ASSUME h # 0, side * h >= 0
        PROVE  new = SetPosition(inv, s, h + side * amount,
                                 (Magnitude(h) * v + amount * price) \div (Magnitude(h) + amount))
    BY <1>4 DEF Traded
  <1>5. ASSUME h # 0, ~(side * h >= 0), amount > Magnitude(h)
        PROVE  new = SetPosition(AddCash(inv, gain(Magnitude(h))), s,
                                 side * (amount - Magnitude(h)), price)
    <2>1. Min({Magnitude(h), amount}) = Magnitude(h)
      BY <1>1, <1>2, <1>5
    <2> QED
      BY <1>1, <1>5, <2>1 DEF Traded
  <1>6. ASSUME h # 0, ~(side * h >= 0), amount <= Magnitude(h)
        PROVE  new = SetPosition(AddCash(inv, gain(amount)), s, h + side * amount, v)
    <2>1. Min({Magnitude(h), amount}) = amount
      BY <1>1, <1>2, <1>6
    <2>2. ~(amount > amount)
      OBVIOUS
    <2> QED
      BY <1>1, <1>6, <2>1, <2>2 DEF Traded
  <1> HIDE DEF new
  <1>7. Trading(inv, new, s, h, v, side, amount, price)
    BY <1>3, <1>4, <1>5, <1>6, Zenon DEF Trading, Grows, Crosses, Shrinks
  <1> QED
    BY <1>7 DEF new

LEMMA Products ==
  ASSUME NEW a \in Int, NEW b \in Int
  PROVE  /\ a * b \in Int
         /\ a > 0 /\ b > 0 => a * b > 0
         /\ a > 0 /\ b < 0 => a * b < 0
         /\ a < 0 /\ b > 0 => a * b < 0
         /\ a < 0 /\ b < 0 => a * b > 0
         /\ a = 0 \/ b = 0 => a * b = 0
  OBVIOUS

LEMMA FourCases ==
  ASSUME NEW h \in Int, NEW side \in {1, -1}, NEW amount \in Nat \ {0}
  PROVE  h = 0 \/ Grows(h, side) \/ Crosses(h, side, amount) \/ Shrinks(h, side, amount)
  <1>1. Magnitude(h) \in Nat
    BY MagnitudeIs
  <1> QED
    BY <1>1 DEF Grows, Crosses, Shrinks

(* The quantity h before and h + u after a trade of u units.               *)
CaseFacts(h, side, amount, u) ==
  /\ u \in Int /\ u # 0 /\ Magnitude(u) = amount
  /\ h = 0 => ~Grows(h, side) /\ ~Crosses(h, side, amount) /\ ~Shrinks(h, side, amount)
  /\ Grows(h, side) =>
       /\ (h + u) * h > 0 /\ u * h > 0 /\ h + u # 0
       /\ Magnitude(h + u) = Magnitude(h) + amount
       /\ h = side * Magnitude(h)
  /\ Crosses(h, side, amount) =>
       /\ (h + u) * h <= 0 /\ u * h < 0 /\ h + u # 0
       /\ h + u = side * (amount - Magnitude(h))
       /\ Sign(h) = -side /\ h = -(side * Magnitude(h))
  /\ Shrinks(h, side, amount) =>
       /\ h + u = 0 \/ (h + u # 0 /\ (h + u) * h > 0)
       /\ Sign(h) = -side /\ u * h < 0

LEMMA CaseIs ==
  ASSUME NEW h \in Int, NEW side \in {1, -1}, NEW amount \in Nat \ {0}
  PROVE  CaseFacts(h, side, amount, side * amount)
  <1> DEFINE u == side * amount
  <1>1. u = IF side = 1 THEN amount ELSE -amount
    OBVIOUS
  <1>2. u \in Int /\ u # 0 /\ Magnitude(u) = amount
    BY <1>1 DEF Magnitude
  <1>3. ASSUME h # 0, side * h >= 0
        PROVE  (side = 1 /\ h > 0) \/ (side = -1 /\ h < 0)
    BY <1>3
  <1>4. ASSUME h # 0, ~(side * h >= 0)
        PROVE  (side = 1 /\ h < 0) \/ (side = -1 /\ h > 0)
    BY <1>4
  <1> HIDE DEF u
  <1>0. /\ h = 0 => ~Grows(h, side) /\ ~Crosses(h, side, amount) /\ ~Shrinks(h, side, amount)
        /\ Grows(h, side) => ~Crosses(h, side, amount) /\ ~Shrinks(h, side, amount)
        /\ Crosses(h, side, amount) => ~Shrinks(h, side, amount)
    <2>1. Magnitude(h) \in Nat
      BY MagnitudeIs
    <2> QED
      BY <2>1 DEF Grows, Crosses, Shrinks
  <1>5. ASSUME Grows(h, side) PROVE CaseFacts(h, side, amount, u)
    <2>1. (side = 1 /\ h > 0 /\ u = amount) \/ (side = -1 /\ h < 0 /\ u = -amount)
      BY <1>1, <1>3, <1>5 DEF Grows
    <2>2. (h > 0 /\ u > 0 /\ h + u > 0) \/ (h < 0 /\ u < 0 /\ h + u < 0)
      BY <2>1
    <2>3. (h + u) * h > 0 /\ u * h > 0
      BY <1>2, <2>2, Products
    <2>4. Magnitude(h + u) = Magnitude(h) + amount /\ h = side * Magnitude(h) /\ h + u # 0
      BY <2>1 DEF Magnitude
    <2> QED
      BY <1>0, <1>2, <1>5, <2>3, <2>4 DEF CaseFacts
  <1>6. ASSUME Crosses(h, side, amount) PROVE CaseFacts(h, side, amount, u)
    <2>1. (side = 1 /\ h < 0 /\ u = amount /\ amount > -h)
          \/ (side = -1 /\ h > 0 /\ u = -amount /\ amount > h)
      BY <1>1, <1>4, <1>6 DEF Crosses, Magnitude
    <2>2. (h < 0 /\ h + u > 0) \/ (h > 0 /\ h + u < 0)
      BY <2>1
    <2>3. (h + u) * h <= 0 /\ u * h < 0
      <3>1. (h < 0 /\ u > 0) \/ (h > 0 /\ u < 0)
        BY <2>1
      <3>2. (h + u) * h < 0 /\ u * h < 0
        BY <1>2, <2>2, <3>1, Products
      <3> QED
        BY <1>2, <3>2, Products
    <2>4. h + u # 0 /\ h + u = side * (amount - Magnitude(h)) /\ h = -(side * Magnitude(h))
          /\ Sign(h) = -side
      BY <2>1 DEF Magnitude, Sign
    <2> QED
      BY <1>0, <1>2, <1>6, <2>3, <2>4 DEF CaseFacts
  <1>7. ASSUME Shrinks(h, side, amount) PROVE CaseFacts(h, side, amount, u)
    <2>1. (side = 1 /\ h < 0 /\ u = amount /\ amount <= -h)
          \/ (side = -1 /\ h > 0 /\ u = -amount /\ amount <= h)
      BY <1>1, <1>4, <1>7 DEF Shrinks, Magnitude
    <2>2. h + u = 0 \/ (h < 0 /\ u > 0 /\ h + u < 0) \/ (h > 0 /\ u < 0 /\ h + u > 0)
      BY <2>1
    <2>3. (h + u = 0 \/ (h + u # 0 /\ (h + u) * h > 0)) /\ u * h < 0
      <3>1. (h < 0 /\ u > 0) \/ (h > 0 /\ u < 0)
        BY <2>1
      <3> QED
        BY <1>2, <2>2, <3>1, Products
    <2>4. Sign(h) = -side
      BY <2>1 DEF Sign
    <2> QED
      BY <1>0, <1>2, <1>7, <2>3, <2>4 DEF CaseFacts
  <1>8. ASSUME h = 0 PROVE CaseFacts(h, side, amount, u)
    BY <1>0, <1>2, <1>8 DEF CaseFacts
  <1>9. CaseFacts(h, side, amount, u)
    BY <1>5, <1>6, <1>7, <1>8, FourCases
  <1> QED
    BY <1>9 DEF u

(* The exchange's position after the same trade.                           *)
Averaging(after, h, v, side, amount, price) ==
  LET u     == side * amount
      total == Magnitude(h) * v + amount * price
  IN  /\ h = 0 => after = [quantity |-> u, vwap |-> price]
      /\ Grows(h, side) =>
           after = [quantity |-> h + u, vwap |-> total \div (Magnitude(h) + amount)]
      /\ Crosses(h, side, amount) => after = [quantity |-> h + u, vwap |-> price]
      /\ Shrinks(h, side, amount) => after = Net0([quantity |-> h + u, vwap |-> v])

LEMMA AfterIs ==
  ASSUME NEW h \in Int, NEW v \in Int, NEW side \in {1, -1}, NEW amount \in Nat \ {0},
         NEW price \in Int
  PROVE  Averaging(After(Net0([quantity |-> h, vwap |-> v]), side * amount, price),
                   h, v, side, amount, price)
  <1> DEFINE u == side * amount
             pos == [quantity |-> h, vwap |-> v]
             after == After(Net0(pos), u, price)
             total == Magnitude(h) * v + amount * price
             Result == /\ h = 0 => after = [quantity |-> u, vwap |-> price]
                       /\ Grows(h, side) =>
                            after = [quantity |-> h + u, vwap |-> total \div (Magnitude(h) + amount)]
                       /\ Crosses(h, side, amount) => after = [quantity |-> h + u, vwap |-> price]
                       /\ Shrinks(h, side, amount) => after = Net0([quantity |-> h + u, vwap |-> v])
  <1>1. CaseFacts(h, side, amount, u)
    BY CaseIs
  <1> HIDE DEF u
  <1>2. ASSUME h = 0 PROVE Result
    <2>1. Net0(pos) = Flat /\ Flat.quantity = 0
      BY <1>2 DEF Net0, Flat
    <2>2. 0 + u = u /\ u * 0 = 0 /\ u # 0
      BY <1>1 DEF CaseFacts
    <2>3. After(Flat, u, price) = [quantity |-> u, vwap |-> price]
      BY <2>1, <2>2 DEF After
    <2> QED
      BY <1>1, <1>2, <2>1, <2>3 DEF CaseFacts
  <1>3. ASSUME h # 0 PROVE Result
    <2>1. Net0(pos) = pos /\ pos.quantity = h /\ pos.vwap = v
      BY <1>3 DEF Net0
    <2> HIDE DEF pos
    <2>2. (h + u) * h \in Int /\ u * h \in Int
      BY <1>1, Products DEF CaseFacts
    <2>3. ASSUME Grows(h, side)
          PROVE  After(pos, u, price)
                   = [quantity |-> h + u,
                      vwap |-> (Magnitude(h) * v + amount * price) \div (Magnitude(h) + amount)]
      <3>1. ~((h + u) * h <= 0) /\ h + u # 0 /\ (h + u) * h > 0 /\ u * h > 0
        BY <1>1, <2>2, <2>3 DEF CaseFacts
      <3> QED
        BY <1>1, <2>1, <2>3, <3>1 DEF After, CaseFacts
    <2>4. ASSUME Crosses(h, side, amount)
          PROVE  After(pos, u, price) = [quantity |-> h + u, vwap |-> price]
      <3>1. ~((h + u) * h > 0) /\ h + u # 0 /\ (h + u) * h <= 0
        BY <1>1, <2>2, <2>4 DEF CaseFacts
      <3> QED
        BY <2>1, <3>1 DEF After
    <2>5. ASSUME Shrinks(h, side, amount)
          PROVE  After(pos, u, price) = Net0([quantity |-> h + u, vwap |-> v])
      <3>1. CASE h + u = 0
        BY <2>1, <3>1 DEF After, Net0
      <3>2. CASE h + u # 0
        <4>1. ~((h + u) * h <= 0) /\ (h + u) * h > 0 /\ u * h < 0 /\ ~(u * h > 0)
          BY <1>1, <2>2, <2>5, <3>2 DEF CaseFacts
        <4> QED
          BY <2>1, <3>2, <4>1 DEF After, Net0
      <3> QED
        BY <3>1, <3>2
    <2> QED
      BY <1>3, <2>1, <2>3, <2>4, <2>5, Zenon
  <1>4. Result
    BY <1>2, <1>3
  <1> QED
    BY <1>4, Zenon DEF u, Averaging


LEMMA WholeQuotient ==
  ASSUME NEW t \in Int, NEW d \in Nat \ {0}
  PROVE  /\ t \div d \in Int
         /\ t % d = 0 => (t \div d) * d = t
  OBVIOUS

(* The cost of a position at its average, less the cash.                   *)
LEMMA CostGrows ==
  ASSUME NEW h \in Int, NEW v \in Int, NEW side \in {1, -1}, NEW amount \in Nat \ {0},
         NEW price \in Int, Grows(h, side),
         Whole(Net0([quantity |-> h, vwap |-> v]), side * amount, price)
  PROVE  LET u == side * amount
             w == (Magnitude(h) * v + amount * price) \div (Magnitude(h) + amount)
         IN  (h + u) * w = h * v + u * price
  <1> DEFINE u == side * amount
             k == Magnitude(h)
             t == k * v + amount * price
             d == k + amount
             w == t \div d
  <1>1. CaseFacts(h, side, amount, u)
    BY CaseIs
  <1>2. k \in Nat /\ h # 0
    BY MagnitudeIs DEF Grows
  <1>3. Net0([quantity |-> h, vwap |-> v]) = [quantity |-> h, vwap |-> v]
    BY <1>2 DEF Net0
  <1>4. h * u > 0
    BY <1>1 DEF CaseFacts
  <1>5. t \in Int /\ d \in Nat \ {0}
    BY <1>2, Products
  <1>6. u = side * amount
    OBVIOUS
  <1> HIDE DEF u
  <1>7. t % d = 0
    BY <1>1, <1>3, <1>4, <1>6 DEF Whole, CaseFacts
  <1>8. w \in Int /\ w * d = t
    BY <1>5, <1>7, WholeQuotient
  <1>9. (side = 1 /\ h = k /\ u = amount) \/ (side = -1 /\ h = -k /\ u = -amount)
    BY <1>1, <1>2, <1>6 DEF CaseFacts
  <1> HIDE DEF w
  <1>10. k * w + amount * w = k * v + amount * price
    BY <1>2, <1>8
  <1> HIDE DEF k
  <1>11. (h + u) * w = h * v + u * price
    <2>1. CASE h = k /\ u = amount
      BY <1>2, <1>8, <1>10, <2>1
    <2>2. CASE h = -k /\ u = -amount
      <3>1. (h + u) * w = -(k * w + amount * w)
        BY <1>2, <1>8, <2>2
      <3>2. h * v + u * price = -(k * v + amount * price)
        BY <1>2, <2>2
      <3> QED
        BY <1>10, <3>1, <3>2
    <2> QED
      BY <1>9, <2>1, <2>2
  <1> QED
    BY <1>11 DEF u, w, k

Costing(h, v, c, side, amount, price) ==
  LET u       == side * amount
      gain(n) == Sign(h) * n * (price - v)
  IN  /\ Crosses(h, side, amount) =>
           (h + u) * price - (c + gain(Magnitude(h))) = h * v - c + u * price
      /\ Shrinks(h, side, amount) => (h + u) * v - (c + gain(amount)) = h * v - c + u * price

LEMMA CostReduced ==
  ASSUME NEW h \in Int, NEW v \in Int, NEW side \in {1, -1}, NEW amount \in Nat \ {0},
         NEW price \in Int, NEW c \in Int
  PROVE  Costing(h, v, c, side, amount, price)
  <1> DEFINE u == side * amount
  <1>1. CaseFacts(h, side, amount, u) /\ Magnitude(h) \in Nat
    BY CaseIs, MagnitudeIs
  <1>2. Crosses(h, side, amount) => Sign(h) * Magnitude(h) = h
    <2> SUFFICES ASSUME Crosses(h, side, amount) PROVE Sign(h) * Magnitude(h) = h
      OBVIOUS
    <2>1. Sign(h) = -side /\ h = -(side * Magnitude(h))
      BY <1>1 DEF CaseFacts
    <2> QED
      BY <1>1, <2>1
  <1>3. Shrinks(h, side, amount) => Sign(h) * amount = -u
    <2> SUFFICES ASSUME Shrinks(h, side, amount) PROVE Sign(h) * amount = -u
      OBVIOUS
    <2>1. Sign(h) = -side
      BY <1>1 DEF CaseFacts
    <2> QED
      BY <2>1
  <1>4. u \in Int
    OBVIOUS
  <1> HIDE DEF u
  <1>5. (h + u) * price - (c + h * (price - v)) = h * v - c + u * price
    BY <1>4
  <1>6. (h + u) * v - (c + (-u) * (price - v)) = h * v - c + u * price
    BY <1>4
  <1>7. ASSUME Crosses(h, side, amount)
        PROVE  (h + u) * price - (c + Sign(h) * Magnitude(h) * (price - v)) = h * v - c + u * price
    <2>1. Sign(h) * Magnitude(h) = h
      BY <1>2, <1>7
    <2> QED
      BY <1>5, <2>1, Zenon
  <1>8. ASSUME Shrinks(h, side, amount)
        PROVE  (h + u) * v - (c + Sign(h) * amount * (price - v)) = h * v - c + u * price
    <2>1. Sign(h) * amount = -u
      BY <1>3, <1>8
    <2> QED
      BY <1>6, <2>1, Zenon
  <1> QED
    BY <1>7, <1>8, Zenon DEF u, Costing

(* What a trade of u units does to the inventory.                          *)
TradeFacts(inv, new, s, u, price) ==
  LET p == PositionFor(inv, s)
      q == PositionFor(new, s)
  IN  /\ Holdings(new)
      /\ \A x \in Symbols \ {s} : PositionFor(new, x) = PositionFor(inv, x)
      /\ q.quantity = p.quantity + u
      /\ Net0(q) = After(Net0(p), u, price)
      /\ Whole(Net0(p), u, price) =>
           q.quantity * q.vwap - PositionFor(new, Stable).quantity
             = p.quantity * p.vwap - PositionFor(inv, Stable).quantity + u * price

LEMMA TradedIs ==
  ASSUME NEW inv, Holdings(inv), NEW s \in Symbols, NEW side \in {1, -1},
         NEW amount \in Nat \ {0}, NEW price \in Int
  PROVE  TradeFacts(inv, Traded(inv, s, side, amount, price), s, side * amount, price)
  <1> DEFINE h == PositionFor(inv, s).quantity
             v == PositionFor(inv, s).vwap
             c == PositionFor(inv, Stable).quantity
             u == side * amount
             new == Traded(inv, s, side, amount, price)
             k == Magnitude(h)
             w == (k * v + amount * price) \div (k + amount)
             gain(n) == Sign(h) * n * (price - v)
             pos(q, a) == [quantity |-> q, vwap |-> a]
             after == After(Net0(pos(h, v)), u, price)
  <1>1. h \in Int /\ v \in Int /\ c \in Int /\ PositionFor(inv, s) = pos(h, v)
    BY HeldIs, PositionIs
  <1>2. s # Stable /\ s \in Symbols \cup {Stable}
    BY SymbolIsNoDollar
  <1> HIDE DEF h, v, c
  <1>3. /\ h = 0 => new = SetPosition(inv, s, u, price)
        /\ Grows(h, side) => new = SetPosition(inv, s, h + u, w)
        /\ Crosses(h, side, amount) =>
             new = SetPosition(AddCash(inv, gain(k)), s, side * (amount - k), price)
        /\ Shrinks(h, side, amount) => new = SetPosition(AddCash(inv, gain(amount)), s, h + u, v)
    <2>1. Trading(inv, new, s, h, v, side, amount, price)
      BY <1>1, TradedCases
    <2> QED
      BY <2>1, Zenon DEF Trading
  <1>4. /\ h = 0 => after = pos(u, price)
        /\ Grows(h, side) => after = pos(h + u, w)
        /\ Crosses(h, side, amount) => after = pos(h + u, price)
        /\ Shrinks(h, side, amount) => after = Net0(pos(h + u, v))
    <2>1. Averaging(after, h, v, side, amount, price)
      BY <1>1, AfterIs
    <2> QED
      BY <2>1, Zenon DEF Averaging
  <1>5. CaseFacts(h, side, amount, u)
    BY <1>1, CaseIs
  <1>6. k \in Nat /\ w \in Int /\ Sign(h) \in Int
    <2>1. k \in Nat
      BY <1>1, MagnitudeIs
    <2>2. k * v + amount * price \in Int /\ k + amount \in Nat \ {0}
      BY <1>1, <2>1, Products
    <2> QED
      BY <2>1, <2>2, WholeQuotient DEF Sign
  <1>7. Grows(h, side) /\ Whole(Net0(pos(h, v)), u, price) => (h + u) * w = h * v + u * price
    BY <1>1, CostGrows
  <1>8. /\ Crosses(h, side, amount) => (h + u) * price - (c + gain(k)) = h * v - c + u * price
        /\ Shrinks(h, side, amount) => (h + u) * v - (c + gain(amount)) = h * v - c + u * price
    <2>1. Costing(h, v, c, side, amount, price)
      BY <1>1, CostReduced
    <2> QED
      BY <2>1, Zenon DEF Costing
  <1>9. u \in Int /\ h + u \in Int /\ gain(k) \in Int /\ gain(amount) \in Int
    <2>1. u \in Int
      BY <1>5 DEF CaseFacts
    <2>2. Sign(h) * k \in Int /\ Sign(h) * amount \in Int /\ price - v \in Int
      BY <1>1, <1>6, Products
    <2> QED
      BY <1>1, <2>1, <2>2, Products
  <1> DEFINE Facts(q, a, cash) ==
               /\ Holdings(new)
               /\ \A x \in Symbols \ {s} : PositionFor(new, x) = PositionFor(inv, x)
               /\ PositionFor(new, s) = pos(q, a)
               /\ PositionFor(new, Stable).quantity = cash
  <1> HIDE DEF u, k, w, gain, after
  <1>10. \A q, a \in Int : new = SetPosition(inv, s, q, a) => Facts(q, a, c)
    BY <1>2, HoldingsSet DEF c
  <1>11. \A g, q, a \in Int : new = SetPosition(AddCash(inv, g), s, q, a) => Facts(q, a, c + g)
    <2> SUFFICES ASSUME NEW g \in Int, NEW q \in Int, NEW a \in Int,
                        new = SetPosition(AddCash(inv, g), s, q, a)
                 PROVE  Facts(q, a, c + g)
      OBVIOUS
    <2> DEFINE mid == AddCash(inv, g)
    <2>1. /\ Holdings(mid) /\ PositionFor(mid, Stable).quantity = c + g
          /\ \A x : x # Stable => PositionFor(mid, x) = PositionFor(inv, x)
      BY CashAdded DEF c
    <2>2. new = SetPosition(mid, s, q, a)
      OBVIOUS
    <2> HIDE DEF mid, new
    <2>3. /\ Holdings(new) /\ PositionFor(new, s) = pos(q, a)
          /\ \A x : x # s => PositionFor(new, x) = PositionFor(mid, x)
      BY <1>2, <2>1, <2>2, HoldingsSet
    <2>4. \A x \in Symbols : x # Stable
      BY SymbolIsNoDollar
    <2> QED
      BY <1>2, <2>1, <2>3, <2>4
  <1> HIDE DEF new
  <1>12. ASSUME NEW q \in Int, NEW a \in Int, NEW cash \in Int, Facts(q, a, cash),
                q = h + u, after = Net0(pos(q, a)),
                Whole(Net0(pos(h, v)), u, price) => q * a - cash = h * v - c + u * price
         PROVE  TradeFacts(inv, new, s, u, price)
    <2>1. PositionFor(new, s).quantity = q /\ PositionFor(new, s).vwap = a
      BY <1>12
    <2>2. PositionFor(inv, s).quantity = h /\ PositionFor(inv, s).vwap = v
      BY DEF h, v
    <2>3. Net0(PositionFor(new, s)) = After(Net0(PositionFor(inv, s)), u, price)
      BY <1>1, <1>12 DEF after
    <2>4. Whole(Net0(PositionFor(inv, s)), u, price) => q * a - cash = h * v - c + u * price
      BY <1>1, <1>12
    <2>5. PositionFor(inv, Stable).quantity = c /\ PositionFor(new, Stable).quantity = cash
      BY <1>12 DEF c
    <2> HIDE DEF pos
    <2> QED
      BY <1>12, <2>1, <2>2, <2>3, <2>4, <2>5, Zenon DEF TradeFacts
  <1>13. ASSUME h = 0 PROVE TradeFacts(inv, new, s, u, price)
    BY <1>1, <1>3, <1>4, <1>5, <1>9, <1>10, <1>12, <1>13 DEF Net0, CaseFacts
  <1>14. ASSUME Grows(h, side) PROVE TradeFacts(inv, new, s, u, price)
    BY <1>1, <1>3, <1>4, <1>5, <1>6, <1>7, <1>9, <1>10, <1>12, <1>14 DEF Net0, CaseFacts
  <1>15. ASSUME Crosses(h, side, amount) PROVE TradeFacts(inv, new, s, u, price)
    BY <1>1, <1>3, <1>4, <1>5, <1>8, <1>9, <1>11, <1>12, <1>15 DEF Net0, CaseFacts, k
  <1>16. ASSUME Shrinks(h, side, amount) PROVE TradeFacts(inv, new, s, u, price)
    <2>1. c + gain(amount) \in Int
      BY <1>1, <1>9
    <2>2. Facts(h + u, v, c + gain(amount))
      BY <1>1, <1>3, <1>9, <1>11, <1>16
    <2>3. after = Net0(pos(h + u, v)) /\ (h + u) * v - (c + gain(amount)) = h * v - c + u * price
      BY <1>4, <1>8, <1>16
    <2> HIDE DEF Facts, pos
    <2> QED
      BY <1>1, <1>9, <1>12, <2>1, <2>2, <2>3
  <1>17. TradeFacts(inv, new, s, u, price)
    BY <1>1, <1>13, <1>14, <1>15, <1>16, FourCases
  <1> QED
    BY <1>17 DEF new, u

(* The sums over the symbols.                                              *)
LEMMA SymbolsFinite == IsFiniteSet(Symbols)
  <1> DEFINE f == [o \in Orders |-> SymbolOf[o]]
  <1>1. f \in Surjection(Orders, Symbols)
    BY DEF Surjection, Symbols
  <1>2. IsFiniteSet(Orders)
    BY PyAccountAssumption
  <1> HIDE DEF f
  <1> QED
    BY <1>1, <1>2, FS_Surjection

CostOf(inv)   == [s \in Symbols |-> PositionFor(inv, s).quantity * PositionFor(inv, s).vwap]
CashOf(inv)   == PositionFor(inv, Stable).quantity

LEMMA CostIs ==
  ASSUME NEW inv, Holdings(inv)
  PROVE  /\ \A s \in Symbols : /\ CostOf(inv)[s] \in Int
                               /\ PositionFor(inv, s).quantity \in Int
                               /\ PositionFor(inv, s).vwap \in Int
         /\ CashOf(inv) \in Int
         /\ SumFunctionOnSet(CostOf(inv), Symbols) \in Int
         /\ Rebase(inv).units = [s \in Symbols |-> PositionFor(inv, s).quantity]
         /\ Rebase(inv).paid = SumFunctionOnSet(CostOf(inv), Symbols) - CashOf(inv)
         /\ Rebase(inv) = [units |-> Rebase(inv).units, paid |-> Rebase(inv).paid]
  <1>1. \A i : PositionFor(inv, i).quantity \in Int /\ PositionFor(inv, i).vwap \in Int
    BY HeldIs, PositionIs
  <1>2. \A s \in Symbols : CostOf(inv)[s] \in Int
    BY <1>1, Products DEF CostOf
  <1>3. SumFunctionOnSet(CostOf(inv), Symbols) \in Int
    BY <1>2, SymbolsFinite, SumFacts
  <1>4. SumFunction(CostOf(inv)) = SumFunctionOnSet(CostOf(inv), Symbols)
    BY DEF SumFunction, CostOf
  <1>5. Rebase(inv) = [units |-> [s \in Symbols |-> PositionFor(inv, s).quantity],
                       paid |-> SumFunctionOnSet(CostOf(inv), Symbols) - CashOf(inv)]
    BY <1>4 DEF Rebase, CostOf, CashOf
  <1> QED
    BY <1>1, <1>2, <1>3, <1>5 DEF CashOf

(* The units and the money after a trade are those of the trade more.      *)
LEMMA RebaseTraded ==
  ASSUME NEW inv, Holdings(inv), NEW new, NEW s \in Symbols, NEW u \in Int, NEW price \in Int,
         TradeFacts(inv, new, s, u, price), Whole(Net0(PositionFor(inv, s)), u, price)
  PROVE  Rebase(new) = [units |-> [Rebase(inv).units EXCEPT ![s] = @ + u],
                        paid  |-> Rebase(inv).paid + u * price]
  <1>1. /\ Holdings(new)
        /\ \A x \in Symbols \ {s} : PositionFor(new, x) = PositionFor(inv, x)
        /\ PositionFor(new, s).quantity = PositionFor(inv, s).quantity + u
    BY DEF TradeFacts
  <1>2. CostOf(new)[s] - CashOf(new) = CostOf(inv)[s] - CashOf(inv) + u * price
    BY DEF TradeFacts, CostOf, CashOf
  <1>3. \A x \in Symbols : x # s => CostOf(inv)[x] = CostOf(new)[x]
    BY <1>1 DEF CostOf
  <1>4. /\ \A x \in Symbols : CostOf(inv)[x] \in Int /\ CostOf(new)[x] \in Int
        /\ CashOf(inv) \in Int /\ CashOf(new) \in Int
        /\ SumFunctionOnSet(CostOf(inv), Symbols) \in Int
    BY <1>1, CostIs
  <1> DEFINE a == SumFunctionOnSet(CostOf(inv), Symbols)
             b == SumFunctionOnSet(CostOf(new), Symbols)
  <1>5. b = a + (CostOf(new)[s] - CostOf(inv)[s])
    BY <1>3, <1>4, SymbolsFinite, SumChange
  <1>6. b - CashOf(new) = (a - CashOf(inv)) + u * price
    <2>1. u * price \in Int
      BY Products
    <2> HIDE DEF a, b
    <2> QED
      BY <1>2, <1>4, <1>5, <2>1 DEF a
  <1>7. Rebase(new).paid = Rebase(inv).paid + u * price
    BY <1>1, <1>6, CostIs
  <1>8. Rebase(new).units = [Rebase(inv).units EXCEPT ![s] = @ + u]
    <2>1. /\ Rebase(new).units = [x \in Symbols |-> PositionFor(new, x).quantity]
          /\ Rebase(inv).units = [x \in Symbols |-> PositionFor(inv, x).quantity]
      BY <1>1, CostIs
    <2> QED
      BY <1>1, <2>1
  <1>9. Rebase(new) = [units |-> Rebase(new).units, paid |-> Rebase(new).paid]
    BY <1>1, CostIs
  <1> QED
    BY <1>7, <1>8, <1>9

LEMMA SeenTraded ==
  ASSUME NEW inv, NEW new, NEW s \in Symbols, NEW u, NEW price,
         TradeFacts(inv, new, s, u, price)
  PROVE  Positions(new) = [Positions(inv) EXCEPT ![s] = After(@, u, price)]
  <1>1. \A x \in Symbols \ {s} : Net0(PositionFor(new, x)) = Net0(PositionFor(inv, x))
    BY DEF TradeFacts
  <1>2. Net0(PositionFor(new, s)) = After(Net0(PositionFor(inv, s)), u, price)
    BY DEF TradeFacts
  <1> QED
    BY <1>1, <1>2 DEF Positions

(* A position update that repeats the client's position changes nothing    *)
(* but the average of an empty one.                                        *)
LEMMA RebaseRepeated ==
  ASSUME NEW inv, Holdings(inv), NEW s \in Symbols, NEW p \in Position,
         p = Net0(PositionFor(inv, s))
  PROVE  /\ Rebase(With(inv, s, p)) = Rebase(inv)
         /\ Positions(With(inv, s, p)) = Positions(inv)
  <1> DEFINE new == With(inv, s, p)
             old == PositionFor(inv, s)
  <1>1. /\ Holdings(new) /\ PositionFor(new, s) = p
        /\ \A x : x # s => PositionFor(new, x) = PositionFor(inv, x)
    BY HoldingsWith, PositionWith
  <1>2. s # Stable
    BY SymbolIsNoDollar
  <1>3. old.quantity \in Int /\ old.vwap \in Int
    BY CostIs
  <1> HIDE DEF new
  <1>4. p.quantity = old.quantity /\ p.quantity * p.vwap = old.quantity * old.vwap
        /\ Net0(p) = Net0(old)
    <2>1. CASE old.quantity = 0
      <3>1. p.quantity = 0 /\ p.vwap = 0
        BY <2>1 DEF Net0, Flat
      <3> QED
        BY <1>3, <2>1, <3>1 DEF Net0
    <2>2. CASE old.quantity # 0
      BY <2>2 DEF Net0
    <2> QED
      BY <2>1, <2>2
  <1>5. \A x \in Symbols : PositionFor(new, x).quantity = PositionFor(inv, x).quantity
                           /\ Net0(PositionFor(new, x)) = Net0(PositionFor(inv, x))
    BY <1>1, <1>4
  <1>6. CostOf(new) = CostOf(inv)
    BY <1>1, <1>4 DEF CostOf
  <1>7. CashOf(new) = CashOf(inv)
    BY <1>1, <1>2 DEF CashOf
  <1>8. Rebase(new).paid = Rebase(inv).paid /\ Rebase(new).units = Rebase(inv).units
    BY <1>1, <1>5, <1>6, <1>7, CostIs
  <1>9. Rebase(new) = [units |-> Rebase(new).units, paid |-> Rebase(new).paid]
        /\ Rebase(inv) = [units |-> Rebase(inv).units, paid |-> Rebase(inv).paid]
    BY <1>1, CostIs
  <1> QED
    BY <1>5, <1>8, <1>9 DEF Positions, new

(* Dollars count as they are.                                              *)
LEMMA RealizedIs ==
  ASSUME NEW inv, Holdings(inv)
  PROVE  Realized(inv) = CashOf(inv)
  <1> DEFINE D == DOMAIN inv \cap Dollars
             f == [i \in D |-> inv[i].quantity]
  <1>1. D = IF Stable \in DOMAIN inv THEN {Stable} ELSE {}
    BY SymbolIsNoDollar, StableAssumption DEF Holdings
  <1>2. Realized(inv) = SumFunctionOnSet(f, D)
    BY DEF Realized, SumFunction
  <1>3. IsFiniteSet(D)
    <2>1. D = {} \/ D = {Stable}
      BY <1>1
    <2> HIDE DEF D
    <2>2. CASE D = {}
      BY <2>2, FS_EmptySet, Zenon
    <2>3. CASE D = {Stable}
      BY <2>3, FS_Singleton, Zenon
    <2> QED
      BY <2>1, <2>2, <2>3
  <1>4. \A i \in D : f[i] \in Int /\ f[i] = inv[i].quantity
    BY HeldIs, PositionIs DEF Holdings, PositionFor
  <1> HIDE DEF f
  <1>5. CASE Stable \in DOMAIN inv
    <2>1. D = {Stable} /\ Stable \in D /\ D \ {Stable} = {}
      BY <1>1, <1>5
    <2> HIDE DEF D
    <2>2. /\ SumFunctionOnSet(f, D) = f[Stable] + SumFunctionOnSet(f, D \ {Stable})
          /\ SumFunctionOnSet(f, D \ {Stable}) = 0
      BY <1>3, <1>4, <2>1, SumFacts
    <2>3. f[Stable] = CashOf(inv) /\ f[Stable] \in Int
      BY <1>4, <1>5, <2>1 DEF CashOf, PositionFor
    <2> QED
      BY <1>2, <2>2, <2>3
  <1>6. CASE Stable \notin DOMAIN inv
    <2>1. D = {}
      BY <1>1, <1>6
    <2> HIDE DEF D
    <2>2. SumFunctionOnSet(f, D) = 0
      BY <1>3, <1>4, <2>1, SumZero
    <2>3. CashOf(inv) = 0
      BY <1>6 DEF CashOf, PositionFor
    <2> QED
      BY <1>2, <2>2, <2>3
  <1> QED
    BY <1>5, <1>6

(* Symbols the inventory does not know count nothing.                      *)
LEMMA UnrealizedIs ==
  ASSUME NEW inv, Holdings(inv), NEW p, \A s \in Symbols : p[s] \in Int
  PROVE  Unrealized(inv, p)
           = SumFunctionOnSet([s \in Symbols |-> PositionFor(inv, s).quantity * p[s]], Symbols)
             - SumFunctionOnSet(CostOf(inv), Symbols)
  <1> DEFINE D == DOMAIN inv \ Dollars
             f == [i \in D |-> inv[i].quantity * (p[i] - inv[i].vwap)]
             q(s) == PositionFor(inv, s).quantity
             v(s) == PositionFor(inv, s).vwap
             worth == [s \in Symbols |-> q(s) * p[s]]
             g == [s \in Symbols |-> q(s) * (p[s] - v(s))]
             R == Symbols \ D
  <1>1. D \in SUBSET Symbols /\ R \in SUBSET Symbols /\ D \cup R = Symbols /\ D \cap R = {}
    BY StableAssumption DEF Holdings
  <1>2. Unrealized(inv, p) = SumFunctionOnSet(f, D)
    BY DEF Unrealized, SumFunction
  <1>3. IsFiniteSet(D) /\ IsFiniteSet(R)
    BY <1>1, SymbolsFinite, FS_Subset
  <1>4. \A s \in Symbols : q(s) \in Int /\ v(s) \in Int /\ CostOf(inv)[s] = q(s) * v(s)
    BY CostIs DEF CostOf
  <1>5. \A s \in D : q(s) = inv[s].quantity /\ v(s) = inv[s].vwap
    BY DEF PositionFor
  <1>6. \A s \in R : q(s) = 0
    <2>1. \A s \in R : s \notin DOMAIN inv
      BY SymbolIsNoDollar
    <2> QED
      BY <2>1 DEF PositionFor
  <1> HIDE DEF q, v
  <1>7. \A s \in D : f[s] = g[s]
    BY <1>1, <1>5
  <1>8. \A s \in Symbols : g[s] = q(s) * (p[s] - v(s)) /\ worth[s] = q(s) * p[s]
    OBVIOUS
  <1> HIDE DEF D, R, f, g, worth
  <1>9. \A s \in Symbols : worth[s] \in Int /\ CostOf(inv)[s] \in Int
                           /\ g[s] \in Int /\ g[s] = worth[s] - CostOf(inv)[s]
    <2> TAKE s \in Symbols
    <2>1. q(s) \in Int /\ v(s) \in Int /\ p[s] \in Int
      BY <1>4
    <2>2. q(s) * (p[s] - v(s)) = q(s) * p[s] - q(s) * v(s)
          /\ q(s) * p[s] \in Int /\ q(s) * v(s) \in Int
      BY <2>1, Products
    <2> QED
      BY <1>4, <1>8, <2>2
  <1>10. SumFunctionOnSet(f, D) = SumFunctionOnSet(g, D)
    BY <1>3, <1>7, SumEqual
  <1>11. SumFunctionOnSet(g, R) = 0
    <2>1. \A s \in R : g[s] = 0
      <3> TAKE s \in R
      <3>1. s \in Symbols /\ q(s) = 0 /\ v(s) \in Int /\ p[s] \in Int
        BY <1>1, <1>4, <1>6
      <3> QED
        BY <1>8, <3>1
    <2> QED
      BY <1>3, <2>1, SumZero
  <1>12. SumFunctionOnSet(g, Symbols) = SumFunctionOnSet(g, D) + SumFunctionOnSet(g, R)
    <2>1. SumFunctionOnSet(g, D \cup R) = SumFunctionOnSet(g, D) + SumFunctionOnSet(g, R)
      BY <1>1, <1>9, SymbolsFinite, SumUnion
    <2> QED
      BY <1>1, <2>1
  <1>13. SumFunctionOnSet(g, Symbols)
           = SumFunctionOnSet(worth, Symbols) - SumFunctionOnSet(CostOf(inv), Symbols)
    BY <1>9, SymbolsFinite, SumMinus
  <1>14. SumFunctionOnSet(g, D) \in Int
    BY <1>1, <1>9, SymbolsFinite, SumFacts
  <1>15. Unrealized(inv, p)
           = SumFunctionOnSet(worth, Symbols) - SumFunctionOnSet(CostOf(inv), Symbols)
    BY <1>2, <1>10, <1>11, <1>12, <1>13, <1>14
  <1> QED
    BY <1>15 DEF worth, q

LEMMA NetIs ==
  ASSUME NEW inv, Holdings(inv), NEW p, \A s \in Symbols : p[s] \in Int
  PROVE  Net(inv, p) = SumFunction([s \in Symbols |-> Rebase(inv).units[s] * p[s]])
                       - Rebase(inv).paid
  <1> DEFINE worth == [s \in Symbols |-> PositionFor(inv, s).quantity * p[s]]
             counted == [s \in Symbols |-> Rebase(inv).units[s] * p[s]]
  <1>1. counted = worth
    <2>1. \A s \in Symbols : Rebase(inv).units[s] = PositionFor(inv, s).quantity
      BY CostIs
    <2> QED
      BY <2>1
  <1>2. SumFunction(counted) = SumFunctionOnSet(counted, Symbols)
    BY DEF SumFunction
  <1>3. \A s \in Symbols : worth[s] \in Int
    BY CostIs, Products
  <1>4. Unrealized(inv, p) = SumFunctionOnSet(worth, Symbols) - SumFunctionOnSet(CostOf(inv), Symbols)
    BY UnrealizedIs
  <1> HIDE DEF worth, counted
  <1>5. SumFunctionOnSet(worth, Symbols) \in Int
    BY <1>3, SymbolsFinite, SumFacts
  <1>6. /\ Rebase(inv).paid = SumFunctionOnSet(CostOf(inv), Symbols) - CashOf(inv)
        /\ SumFunctionOnSet(CostOf(inv), Symbols) \in Int /\ CashOf(inv) \in Int
    BY CostIs
  <1>7. Net(inv, p) = SumFunction(counted) - Rebase(inv).paid
    BY <1>1, <1>2, <1>4, <1>5, <1>6, RealizedIs DEF Net
  <1> QED
    BY <1>7 DEF counted

(* What is known stays right along the messages in flight: where they lead *)
(* is the exchange's account, unless a public trade was counted on the way.*)
Ends(account) == {Knows(account.positions), Lost}

BookInv ==
  /\ \A s \in Symbols : /\ exch.positions[s] \in Position
                        /\ Net0(exch.positions[s]) = exch.positions[s]
  /\ \A i \in 1..Len(inbox) : Possible(inbox[i])
  /\ Holdings(inventory)
  /\ exact => online /\ flows = Rebase(inventory)
  /\ online => \E w \in Ends(exch) : Ledger!Leads(Counted, inbox, w)

LEMMA WrongStays ==
  ASSUME NEW msgs, Len(msgs) \in Nat, NEW v, v.is = "wrong", NEW w, Ledger!Leads(v, msgs, w)
  PROVE  w.is = "wrong"
  <1>1. PICK h : Ledger!Path(h, v, msgs) /\ h[Len(msgs)] = w
    BY DEF Ledger!Leads
  <1> DEFINE l == Len(msgs)
             T == {n \in 0..l : h[n].is = "wrong"}
  <1>2. h[0] = v /\ \A n \in 1..l : h[n] = Booked(h[n - 1], msgs[n])
    BY <1>1 DEF Ledger!Path
  <1>3. 0 \in T
    BY <1>2
  <1>4. ASSUME NEW n \in 1..l, n - 1 \in T PROVE n \in T
    <2>1. Booked(h[n - 1], msgs[n]).is = "wrong"
      BY <1>4 DEF Booked
    <2> QED
      BY <1>2, <2>1
  <1> HIDE DEF T
  <1>5. \A n \in 0..l : n \in T
    BY <1>3, <1>4, Turns
  <1> QED
    BY <1>1, <1>5 DEF T

LEMMA EndsAre == \A e, w : w \in Ends(e) => w.is # "wrong"
  BY DEF Ends, Knows, Lost

LEMMA SameSeq == \A q : IsSeq(q) <=> Ledger!IsSeq(q)
  BY DEF IsSeq, Ledger!IsSeq

AllPossible(msgs) == \A i \in 1..Len(msgs) : Possible(msgs[i])

LEMMA PossibleConcat ==
  ASSUME NEW a, NEW b, IsSeq(a), IsSeq(b), AllPossible(a), AllPossible(b)
  PROVE  AllPossible(a \o b)
  <1>1. /\ Len(a) \in Nat /\ Len(b) \in Nat /\ Len(a \o b) = Len(a) + Len(b)
        /\ \A i \in 1..Len(a) : (a \o b)[i] = a[i]
        /\ \A i \in 1..Len(b) : (a \o b)[Len(a) + i] = b[i]
    BY SeqConcat
  <1>2. ASSUME NEW i \in 1..Len(a \o b) PROVE Possible((a \o b)[i])
    <2>1. CASE i \in 1..Len(a)
      BY <1>1, <2>1 DEF AllPossible
    <2>2. CASE i \notin 1..Len(a)
      <3> DEFINE j == i - Len(a)
      <3>1. j \in 1..Len(b) /\ i = Len(a) + j
        BY <1>1, <2>2
      <3> HIDE DEF j
      <3> QED
        BY <1>1, <3>1 DEF AllPossible
    <2> QED
      BY <2>1, <2>2
  <1> QED
    BY <1>2 DEF AllPossible

LEMMA PossibleFew == AllPossible(<<>>) /\ \A m : Possible(m) => AllPossible(<<m>>)
  BY DEF AllPossible

(* The positions of an account.                                            *)
Kept(account) ==
  \A s \in Symbols : account.positions[s] \in Position
                     /\ Net0(account.positions[s]) = account.positions[s]

LEMMA TellBooks ==
  ASSUME FollowInv, BookInv, NEW account, NEW msgs, IsSeq(msgs), Tell(account, msgs),
         Kept(account), AllPossible(msgs),
         \A w \in Ends(exch) : \E x \in Ends(account) : Ledger!Leads(w, msgs, x)
  PROVE  BookInv'
  <1>1. /\ exch' = account /\ inbox' = IF online THEN inbox \o msgs ELSE inbox
        /\ UNCHANGED <<online, inventory, exact, flows>>
    BY DEF Tell, clientVars, history
  <1>2. Counted' = Counted
    BY <1>1 DEF Counted
  <1>3. IsSeq(inbox) /\ AllPossible(inbox)
    BY DEF FollowInv, BookInv, AllPossible
  <1>4. AllPossible(inbox')
    BY <1>1, <1>3, PossibleConcat
  <1>5. ASSUME online PROVE \E w \in Ends(account) : Ledger!Leads(Counted, inbox', w)
    <2>1. PICK w \in Ends(exch) : Ledger!Leads(Counted, inbox, w)
      BY <1>5 DEF BookInv
    <2>2. PICK x \in Ends(account) : Ledger!Leads(w, msgs, x)
      BY <2>1
    <2>3. Ledger!Leads(Counted, inbox \o msgs, x)
      BY <1>3, <2>1, <2>2, SameSeq, Ledger!LeadsConcat
    <2> QED
      BY <1>1, <1>5, <2>3
  <1>6. /\ Holdings(inventory') /\ (exact' => online' /\ flows' = Rebase(inventory'))
    BY <1>1 DEF BookInv
  <1> QED
    BY <1>1, <1>2, <1>4, <1>5, <1>6 DEF BookInv, AllPossible, Kept

LEMMA OrdersBook ==
  ASSUME NEW m, m.type = "orderUpdate"
  PROVE  Possible(m) /\ \A e : \A w \in Ends(e) : Booked(w, m) = w
  BY DEF Possible, Ends, Booked, Booking, Knows, Lost

LEMMA OrderStepsBook ==
  ASSUME FollowInv, BookInv, NEW o \in Orders,
         (\E n \in Sizes : Place(o, n)) \/ (\E status \in EndStatuses : EndOrder(o, status))
  PROVE  BookInv'
  <1>1. exch = [q \in {"positions", "orders"} |-> exch[q]] /\ Kept(exch)
    BY DEF FollowInv, ExchInv, BookInv, Kept
  <1>2. ASSUME NEW account, NEW status, NEW size, Tell(account, <<OrderMsg(o, status, size)>>),
               account.positions = exch.positions
        PROVE  BookInv'
    <2> DEFINE m == OrderMsg(o, status, size)
    <2>1. Possible(m) /\ \A w \in Ends(exch) : Booked(w, m) = w
      BY OrdersBook DEF OrderMsg
    <2>2. Kept(account) /\ Ends(account) = Ends(exch)
      BY <1>1, <1>2 DEF Kept, Ends
    <2> HIDE DEF m
    <2>3. IsSeq(<<m>>) /\ AllPossible(<<m>>) /\ \A w : Ledger!Leads(w, <<m>>, Booked(w, m))
      BY <2>1, PossibleFew, LeadsFew, Ledger!LeadsFew
    <2>4. \A w \in Ends(exch) : \E x \in Ends(account) : Ledger!Leads(w, <<m>>, x)
      BY <2>1, <2>2, <2>3
    <2>5. Tell(account, <<m>>)
      BY <1>2 DEF m
    <2> QED
      BY <2>2, <2>3, <2>4, <2>5, TellBooks
  <1>3. ASSUME NEW n \in Sizes, Place(o, n) PROVE BookInv'
    <2> DEFINE e == [exch EXCEPT !.orders = With(@, o, n)]
    <2>1. Tell(e, <<OrderMsg(o, "resting", n)>>) /\ e.positions = exch.positions
      BY <1>1, <1>3 DEF Place
    <2> HIDE DEF e
    <2> QED
      BY <1>2, <2>1
  <1>4. ASSUME NEW status \in EndStatuses, EndOrder(o, status) PROVE BookInv'
    <2> DEFINE e == [exch EXCEPT !.orders = Restrict(@, DOMAIN @ \ {o})]
    <2>1. Tell(e, <<OrderMsg(o, status, exch.orders[o])>>) /\ e.positions = exch.positions
      BY <1>1, <1>4 DEF EndOrder
    <2> HIDE DEF e
    <2> QED
      BY <1>2, <2>1
  <1> QED
    BY <1>3, <1>4

LEMMA AfterKept ==
  ASSUME NEW p \in Position, Net0(p) = p, NEW side \in {1, -1}, NEW amount \in Nat \ {0},
         NEW price \in Int
  PROVE  /\ After(p, side * amount, price) \in Position
         /\ Net0(After(p, side * amount, price)) = After(p, side * amount, price)
  <1> DEFINE h == p.quantity
             v == p.vwap
             u == side * amount
             t == Magnitude(h) * v + amount * price
             w == t \div (Magnitude(h) + amount)
             after == After(p, u, price)
             pos(q, a) == [quantity |-> q, vwap |-> a]
  <1>1. h \in Int /\ v \in Int /\ Net0(pos(h, v)) = p
    BY PositionIs
  <1> HIDE DEF h, v
  <1>2. CaseFacts(h, side, amount, u) /\ Magnitude(h) \in Nat
    BY <1>1, CaseIs, MagnitudeIs
  <1>3. /\ h = 0 => after = pos(u, price)
        /\ Grows(h, side) => after = pos(h + u, w)
        /\ Crosses(h, side, amount) => after = pos(h + u, price)
        /\ Shrinks(h, side, amount) => after = Net0(pos(h + u, v))
    <2>1. Averaging(after, h, v, side, amount, price)
      BY <1>1, AfterIs
    <2> QED
      BY <2>1, Zenon DEF Averaging
  <1>4. w \in Int
    <2>1. t \in Int /\ Magnitude(h) + amount \in Nat \ {0}
      BY <1>1, <1>2, Products
    <2> HIDE DEF t
    <2> QED
      BY <2>1, WholeQuotient
  <1> HIDE DEF w, u, after
  <1>5. u \in Int /\ h + u \in Int /\ u # 0
    BY <1>1, <1>2 DEF CaseFacts
  <1>6. \A q, a \in Int : /\ pos(q, a) \in Position
                          /\ q # 0 => Net0(pos(q, a)) = pos(q, a)
                          /\ Net0(pos(q, a)) \in Position /\ Net0(Net0(pos(q, a))) = Net0(pos(q, a))
    BY DEF Position, Net0, Flat
  <1>7. (Grows(h, side) \/ Crosses(h, side, amount)) => h + u # 0
    BY <1>2 DEF CaseFacts
  <1> HIDE DEF pos
  <1>8. after \in Position /\ Net0(after) = after
    BY <1>1, <1>3, <1>4, <1>5, <1>6, <1>7, FourCases
  <1> QED
    BY <1>8 DEF after, u

(* A fill takes the known positions to those after it, and the position    *)
(* update that follows repeats one of them.                                *)
LEMMA FillBooks ==
  ASSUME FollowInv, BookInv, NEW o \in Orders, NEW n \in Sizes, NEW price \in Prices,
         FillOrder(o, n, price)
  PROVE  BookInv'
  <1> DEFINE s        == SymbolOf[o]
             u        == Dir(o) * n
             left     == exch.orders[o] - n
             position == After(exch.positions[s], u, price)
             account  == [exch EXCEPT !.positions[s] = position,
                                      !.orders = IF left = 0 THEN Restrict(@, DOMAIN @ \ {o})
                                                             ELSE [@ EXCEPT ![o] = left]]
             f        == [type |-> "fill", order |-> o, side |-> Dir(o), size |-> n, price |-> price]
             done     == OrderMsg(o, "filled", 0)
             pm       == PositionMsg(s, position)
             end      == IF left = 0 THEN <<done>> ELSE <<>>
             own      == <<f>> \o end \o <<pm>>
             trade(d) == [type |-> "trades", symbol |-> s, side |-> d, size |-> n, price |-> price]
  <1>1. /\ exch = [q \in {"positions", "orders"} |-> exch[q]] /\ Kept(exch)
        /\ exch.positions = [x \in Symbols |-> exch.positions[x]]
    BY DEF FollowInv, ExchInv, BookInv, Kept
  <1>2. s \in Symbols /\ n \in Nat \ {0} /\ price \in Int /\ Dir(o) \in {1, -1}
    BY PyAccountAssumption DEF Symbols, Sizes, Dir
  <1>3. Whole(exch.positions[s], u, price)
    BY DEF FillOrder
  <1>4. \/ Tell(account, own)
        \/ \E d \in {1, -1} : Tell(account, <<trade(d)>> \o own) \/ Tell(account, own \o <<trade(d)>>)
    BY DEF FillOrder
  <1>5. account.positions = [exch.positions EXCEPT ![s] = position]
    <2> HIDE DEF s, position, left
    <2> QED
      BY <1>1
  <1>6. position \in Position /\ Net0(position) = position
    BY <1>1, <1>2, AfterKept DEF Kept
  <1>7. /\ f.type = "fill" /\ f.order = o /\ f.side * f.size = u /\ f.price = price
        /\ f.side = Dir(o) /\ f.size = n
    OBVIOUS
  <1>8. pm.type = "positionUpdate" /\ pm.symbol = s /\ pm.position = position
    BY DEF PositionMsg
  <1>9. done.type = "orderUpdate"
    BY DEF OrderMsg
  <1>10. \A d : /\ trade(d).type = "trades" /\ trade(d).symbol = s /\ trade(d).side = d
                /\ trade(d).size = n /\ trade(d).price = price
    OBVIOUS
  <1>11. end = <<>> \/ end = <<done>>
    OBVIOUS
  <1>12. SymbolOf[o] = s /\ position = After(exch.positions[s], u, price)
    OBVIOUS
  <1> HIDE DEF account, position, f, done, pm, end, trade, s, left, u
  <1>13. Kept(account)
    BY <1>1, <1>2, <1>5, <1>6 DEF Kept
  <1>14. Possible(f) /\ Possible(pm) /\ Possible(done) /\ \A d \in {1, -1} : Possible(trade(d))
    BY <1>2, <1>6, <1>7, <1>8, <1>9, <1>10 DEF Possible, IsTrade
  <1>15. /\ Booked(Knows(exch.positions), f) = Knows(account.positions)
         /\ Booked(Lost, f) = Lost
    BY <1>3, <1>5, <1>7, <1>12 DEF Booked, Booking, Knows, Lost
  <1>16. \A w \in Ends(account) : Booked(w, done) = w /\ Booked(w, pm) = w
    <2>1. account.positions[s] = position
      BY <1>1, <1>2, <1>5
    <2> QED
      BY <1>8, <1>9, <2>1 DEF Booked, Booking, Knows, Lost, Ends
  <1>17. \A e, d : \A w \in Ends(e) : Booked(w, trade(d)) = Lost
    BY <1>10 DEF Booked, Booking, Knows, Lost, Ends
  <1>18. ASSUME NEW w \in Ends(exch) PROVE \E x \in Ends(account) : Ledger!Leads(w, own, x)
    <2>1. PICK x \in Ends(account) : Booked(w, f) = x
      BY <1>15 DEF Ends
    <2>2. Ledger!Leads(w, <<f>>, x) /\ Ledger!IsSeq(<<f>>)
      BY <2>1, Ledger!LeadsFew
    <2>3. Ledger!Leads(x, end, x) /\ Ledger!IsSeq(end)
      BY <1>11, <1>16, Ledger!LeadsFew
    <2>4. Ledger!Leads(x, <<pm>>, x) /\ Ledger!IsSeq(<<pm>>)
      BY <1>16, Ledger!LeadsFew
    <2>5. Ledger!Leads(w, <<f>> \o end, x) /\ Ledger!IsSeq(<<f>> \o end)
      BY <2>2, <2>3, Ledger!LeadsConcat, Ledger!SeqConcat
    <2>6. Ledger!Leads(w, own, x)
      BY <2>4, <2>5, Ledger!LeadsConcat
    <2> QED
      BY <2>6
  <1>19. IsSeq(own) /\ AllPossible(own)
    <2>1. IsSeq(<<f>>) /\ IsSeq(end) /\ IsSeq(<<pm>>)
      BY <1>11, LeadsFew
    <2>2. AllPossible(<<f>>) /\ AllPossible(end) /\ AllPossible(<<pm>>)
      BY <1>11, <1>14, PossibleFew
    <2>3. IsSeq(<<f>> \o end) /\ AllPossible(<<f>> \o end)
      BY <2>1, <2>2, SeqConcat, PossibleConcat
    <2> QED
      BY <2>1, <2>2, <2>3, SeqConcat, PossibleConcat
  <1> HIDE DEF own
  <1>20. CASE Tell(account, own)
    BY <1>13, <1>18, <1>19, <1>20, TellBooks
  <1>21. ASSUME NEW d \in {1, -1}, Tell(account, <<trade(d)>> \o own) PROVE BookInv'
    <2> DEFINE t == trade(d)
    <2>1. IsSeq(<<t>>) /\ AllPossible(<<t>>)
      BY <1>14, LeadsFew, PossibleFew
    <2>2. ASSUME NEW w \in Ends(exch) PROVE \E x \in Ends(account) : Ledger!Leads(w, <<t>> \o own, x)
      <3>1. Ledger!Leads(w, <<t>>, Lost)
        <4>1. Booked(w, t) = Lost
          BY <1>17
        <4>2. Ledger!Leads(w, <<t>>, Booked(w, t))
          BY Ledger!LeadsFew, Zenon
        <4> QED
          BY <4>1, <4>2
      <3>2. PICK x \in Ends(account) : Ledger!Leads(Lost, own, x)
        BY <1>18 DEF Ends
      <3>3. Ledger!Leads(w, <<t>> \o own, x)
        BY <1>19, <2>1, <3>1, <3>2, SameSeq, Ledger!LeadsConcat
      <3> QED
        BY <3>3
    <2>3. IsSeq(<<t>> \o own) /\ AllPossible(<<t>> \o own)
      BY <1>19, <2>1, SeqConcat, PossibleConcat
    <2> QED
      BY <1>13, <1>21, <2>2, <2>3, TellBooks
  <1>22. ASSUME NEW d \in {1, -1}, Tell(account, own \o <<trade(d)>>) PROVE BookInv'
    <2> DEFINE t == trade(d)
    <2>1. IsSeq(<<t>>) /\ AllPossible(<<t>>)
      BY <1>14, LeadsFew, PossibleFew
    <2>2. ASSUME NEW w \in Ends(exch) PROVE \E x \in Ends(account) : Ledger!Leads(w, own \o <<t>>, x)
      <3>1. PICK x \in Ends(account) : Ledger!Leads(w, own, x)
        BY <1>18
      <3>2. Ledger!Leads(x, <<t>>, Lost)
        <4>1. Booked(x, t) = Lost
          BY <1>17
        <4>2. Ledger!Leads(x, <<t>>, Booked(x, t))
          BY Ledger!LeadsFew, Zenon
        <4> QED
          BY <4>1, <4>2
      <3>3. Ledger!Leads(w, own \o <<t>>, Lost)
        BY <1>19, <2>1, <3>1, <3>2, SameSeq, Ledger!LeadsConcat
      <3> QED
        BY <3>3 DEF Ends
    <2>3. IsSeq(own \o <<t>>) /\ AllPossible(own \o <<t>>)
      BY <1>19, <2>1, SeqConcat, PossibleConcat
    <2> QED
      BY <1>13, <1>22, <2>2, <2>3, TellBooks
  <1> QED
    BY <1>4, <1>20, <1>21, <1>22

(* A snapshot tells the positions there are; the others are empty.         *)
LEMMA SnapshotBooked ==
  ASSUME NEW account, Kept(account), account.positions = [s \in Symbols |-> account.positions[s]],
         NEW bad
  PROVE  /\ Possible(SnapshotOf(account, bad))
         /\ Booked(Lost, SnapshotOf(account, bad)) \in Ends(account)
  <1> DEFINE m == SnapshotOf(account, bad)
             told == [s \in Symbols |-> IF s \in DOMAIN m.positions THEN Net0(m.positions[s]) ELSE Flat]
  <1>1. /\ m.type = "accountSnapshot" /\ m.bad = bad
        /\ m.positions = [s \in Held(account) |-> account.positions[s]]
    BY DEF SnapshotOf
  <1>2. Held(account) \subseteq Symbols
        /\ \A s \in Symbols : s \in Held(account) <=> account.positions[s].quantity # 0
    BY DEF Held
  <1> HIDE DEF m
  <1>3. Possible(m)
    BY <1>1, <1>2 DEF Possible, Kept
  <1>4. told = account.positions
    <2>1. ASSUME NEW s \in Symbols PROVE told[s] = account.positions[s]
      <3>1. Net0(account.positions[s]) = account.positions[s]
        BY DEF Kept
      <3>2. s \notin Held(account) => account.positions[s] = Flat
        BY <1>2, <3>1 DEF Net0
      <3> QED
        BY <1>1, <3>1, <3>2
    <2>2. told = [s \in Symbols |-> told[s]]
      OBVIOUS
    <2> HIDE DEF told
    <2> QED
      BY <2>1, <2>2
  <1>5. Booked(Lost, m) = IF bad THEN Lost ELSE Knows(told)
    BY <1>1 DEF Booked, Lost
  <1> HIDE DEF told
  <1>6. Possible(m) /\ Booked(Lost, m) \in Ends(account)
    BY <1>3, <1>4, <1>5 DEF Ends
  <1> QED
    BY <1>6 DEF m

LEMMA ConnectionBooks ==
  ASSUME FollowInv, BookInv, Lose \/ Reconnected
  PROVE  BookInv'
  <1>1. CASE Lose
    <2>1. /\ exch' = exch /\ inventory' = inventory /\ online' = FALSE /\ exact' = FALSE
          /\ inbox' \in {inbox, <<>>}
      BY <1>1 DEF Lose, exchVars, clientVars
    <2>2. \A i \in 1..Len(inbox') : Possible(inbox'[i])
      BY <2>1 DEF BookInv
    <2> QED
      BY <2>1, <2>2 DEF BookInv
  <1>2. CASE Reconnected
    <2>1. PICK bad : inbox' = <<SnapshotOf(exch, bad)>>
      BY <1>2 DEF Reconnected, Snapshots
    <2> DEFINE m == SnapshotOf(exch, bad)
    <2>2. exch' = exch /\ inventory' = inventory /\ exact' = FALSE
      BY <1>2 DEF Reconnected, exchVars, clientVars, history, BookInv
    <2>3. Kept(exch) /\ exch.positions = [s \in Symbols |-> exch.positions[s]]
      BY DEF FollowInv, ExchInv, BookInv, Kept
    <2>4. Possible(m) /\ Booked(Lost, m) \in Ends(exch)
      BY <2>3, SnapshotBooked
    <2>5. inbox' = <<m>>
      BY <2>1
    <2> HIDE DEF m
    <2>6. Ledger!Leads(Counted', inbox', Booked(Lost, m))
      BY <2>2, <2>5, Ledger!LeadsFew DEF Counted
    <2>7. \A i \in 1..Len(inbox') : Possible(inbox'[i])
      BY <2>4, <2>5
    <2>8. \E w \in Ends(exch') : Ledger!Leads(Counted', inbox', w)
      BY <2>2, <2>4, <2>6
    <2> QED
      BY <2>2, <2>7, <2>8 DEF BookInv
  <1> QED
    BY <1>1, <1>2

(* What the next message makes of the counted positions is not wrong: it   *)
(* leads on to the exchange's.                                             *)
LEMMA NextIsRight ==
  ASSUME FollowInv, BookInv, inbox # <<>>
  PROVE  /\ Possible(Head(inbox))
         /\ \A i \in 1..Len(Tail(inbox)) : Possible(Tail(inbox)[i])
         /\ online => /\ Booked(Counted, Head(inbox)).is # "wrong"
                      /\ \E w \in Ends(exch) :
                           Ledger!Leads(Booked(Counted, Head(inbox)), Tail(inbox), w)
  <1>1. PICK S : inbox \in Seq(S)
    BY DEF FollowInv, IsSeq
  <1> DEFINE tail == Tail(inbox)
  <1>2. /\ tail \in Seq(S) /\ Len(tail) \in Nat /\ Len(inbox) = Len(tail) + 1
        /\ Head(inbox) = inbox[1] /\ \A i \in 1..Len(tail) : tail[i] = inbox[i + 1]
    BY <1>1, HeadTailProperties, LenProperties
  <1> HIDE DEF tail
  <1>3. Possible(Head(inbox)) /\ \A i \in 1..Len(tail) : Possible(tail[i])
    BY <1>2 DEF BookInv
  <1>4. ASSUME online
        PROVE  /\ Booked(Counted, Head(inbox)).is # "wrong"
               /\ \E w \in Ends(exch) : Ledger!Leads(Booked(Counted, Head(inbox)), tail, w)
    <2>1. PICK w \in Ends(exch) : Ledger!Leads(Counted, inbox, w)
      BY <1>4 DEF BookInv
    <2>2. Ledger!IsSeq(inbox)
      BY SameSeq DEF FollowInv
    <2>3. Ledger!Leads(Booked(Counted, Head(inbox)), tail, w)
      BY <2>1, <2>2, Ledger!LeadsTail DEF tail
    <2>4. w.is # "wrong"
      BY EndsAre
    <2> QED
      BY <1>2, <2>3, <2>4, WrongStays
  <1> QED
    BY <1>3, <1>4 DEF tail

(* A message handled is booked, and the units and the money with it.       *)
Handled ==
  /\ Holdings(inventory')
  /\ exact' => online /\ flows' = Rebase(inventory')
  /\ online => Counted' = Booked(Counted, Head(inbox))

LEMMA SnapshotHandled ==
  ASSUME BookInv, Possible(Head(inbox)), HandleSnapshot
  PROVE  Handled
  <1> DEFINE m == Head(inbox)
             new == Overlay(m.positions, Restrict(inventory, DOMAIN inventory \cap {Stable}))
             told == [s \in Symbols |-> IF s \in DOMAIN m.positions THEN Net0(m.positions[s]) ELSE Flat]
  <1>1. m.type = "accountSnapshot"
    BY DEF HandleSnapshot, Takes
  <1>2. ASSUME m.bad, UNCHANGED <<clientVars, history>> PROVE Handled
    <2>1. Counted' = Counted
      BY <1>2 DEF clientVars, history, Counted
    <2>2. Booked(Counted, m) = Counted
      BY <1>1, <1>2 DEF Booked, Booking, Counted, Knows, Lost
    <2> QED
      BY <1>2, <2>1, <2>2 DEF Handled, clientVars, history, BookInv
  <1>3. ASSUME ~m.bad, inventory' = new, Settled PROVE Handled
    <2>1. /\ m.positions = [s \in DOMAIN m.positions |-> m.positions[s]]
          /\ DOMAIN m.positions \subseteq Symbols
          /\ \A s \in DOMAIN m.positions : m.positions[s] \in Position
      BY <1>1 DEF Possible
    <2>2. /\ inventory = [i \in DOMAIN inventory |-> inventory[i]]
          /\ \A i \in DOMAIN inventory : inventory[i] \in Position
      BY DEF BookInv, Holdings
    <2> DEFINE kept == Restrict(inventory, DOMAIN inventory \cap {Stable})
    <2>3. /\ DOMAIN kept = DOMAIN inventory \cap {Stable}
          /\ \A i \in DOMAIN kept : kept[i] = inventory[i]
      BY DEF Restrict
    <2>4. /\ new = [x \in DOMAIN m.positions \cup DOMAIN kept |-> new[x]]
          /\ \A x \in DOMAIN m.positions : new[x] = m.positions[x]
          /\ \A x \in DOMAIN kept \ DOMAIN m.positions : new[x] = kept[x]
      BY DEF Overlay
    <2> HIDE DEF kept, new, m
    <2>5. Holdings(new)
      BY <2>1, <2>2, <2>3, <2>4 DEF Holdings
    <2>6. ASSUME NEW s \in Symbols
          PROVE  Net0(PositionFor(new, s))
                   = IF s \in DOMAIN m.positions THEN Net0(m.positions[s]) ELSE Flat
      <3>1. s \in DOMAIN new <=> s \in DOMAIN m.positions
        BY <2>3, <2>4, SymbolIsNoDollar
      <3> QED
        BY <2>4, <3>1 DEF PositionFor, Net0
    <2>7. Positions(new) = told
      BY <2>6 DEF Positions
    <2>8. Booked(Counted, m) = Knows(told)
      BY <1>1, <1>3 DEF Booked, Counted, Knows, Lost
    <2> HIDE DEF told
    <2>9. CASE online
      <3>1. exact' = TRUE /\ flows' = Rebase(inventory')
        BY <1>3, <2>9 DEF Settled
      <3> QED
        BY <1>3, <2>5, <2>7, <2>8, <2>9, <3>1 DEF Handled, Counted, m
    <2>10. CASE ~online
      <3>1. ~exact'
        BY <1>3, <2>10 DEF Settled, history, BookInv
      <3> QED
        BY <1>3, <2>5, <2>10, <3>1 DEF Handled
    <2> QED
      BY <2>9, <2>10
  <1> QED
    BY <1>2, <1>3 DEF HandleSnapshot

LEMMA PositionHandled ==
  ASSUME BookInv, Possible(Head(inbox)), online => Booked(Counted, Head(inbox)).is # "wrong",
         HandlePosition
  PROVE  Handled
  <1> DEFINE m == Head(inbox)
             s == m.symbol
             new == With(inventory, s, m.position)
  <1>1. m.type = "positionUpdate" /\ inventory' = new /\ UNCHANGED <<online, exact, flows>>
    BY DEF HandlePosition, Takes
  <1>2. s \in Symbols /\ m.position \in Position
    BY <1>1 DEF Possible
  <1>3. Holdings(inventory)
    BY DEF BookInv
  <1> HIDE DEF m, new
  <1>4. Holdings(new)
    BY <1>2, <1>3, HoldingsWith DEF new
  <1>5. CASE exact
    <2>1. online /\ flows = Rebase(inventory) /\ Counted = Knows(Positions(inventory))
      BY <1>5 DEF BookInv, Counted
    <2>2. Positions(inventory)[s] = Net0(PositionFor(inventory, s))
      BY <1>2 DEF Positions
    <2>3. Booked(Counted, m) = IF m.position = Positions(inventory)[s]
                               THEN Knows(Positions(inventory)) ELSE Wrong
      BY <1>1, <2>1 DEF Booked, Booking, Knows
    <2>4. m.position = Net0(PositionFor(inventory, s))
      BY <2>1, <2>2, <2>3 DEF Wrong, m
    <2>5. Rebase(new) = Rebase(inventory) /\ Positions(new) = Positions(inventory)
      BY <1>2, <1>3, <2>4, RebaseRepeated DEF new
    <2>6. Counted' = Knows(Positions(new))
      BY <1>1, <1>5 DEF Counted
    <2>7. Booked(Counted, m) = Knows(Positions(inventory))
      BY <2>2, <2>3, <2>4
    <2> QED
      BY <1>1, <1>4, <2>1, <2>5, <2>6, <2>7 DEF Handled, m
  <1>6. CASE ~exact
    <2>1. Counted' = Lost /\ Booked(Counted, m) = Lost
      BY <1>1, <1>6 DEF Counted, Booked, Lost
    <2> QED
      BY <1>1, <1>4, <1>6, <2>1 DEF Handled, m
  <1> QED
    BY <1>5, <1>6

LEMMA OrderHandled ==
  ASSUME BookInv, HandleOrder
  PROVE  Handled
  <1>1. Head(inbox).type = "orderUpdate" /\ UNCHANGED <<online, inventory, exact, flows>>
    BY DEF HandleOrder, Takes
  <1>2. Counted' = Counted
    BY <1>1 DEF Counted
  <1>3. Booked(Counted, Head(inbox)) = Counted
    BY <1>1 DEF Booked, Booking, Counted, Knows, Lost
  <1> QED
    BY <1>1, <1>2, <1>3 DEF Handled, BookInv

LEMMA FillHandled ==
  ASSUME BookInv, Possible(Head(inbox)), online => Booked(Counted, Head(inbox)).is # "wrong",
         HandleFill
  PROVE  Handled
  <1> DEFINE m == Head(inbox)
             s == SymbolOf[m.order]
             u == m.side * m.size
             new == Traded(inventory, s, m.side, m.size, m.price)
  <1>1. /\ m.type = "fill" /\ inventory' = new /\ UNCHANGED <<online, exact>>
        /\ flows' = Count(m, s)
    BY DEF HandleFill, Takes
  <1>2. /\ m.order \in Orders /\ m.side \in {1, -1} /\ m.size \in Nat \ {0} /\ m.price \in Int
    BY <1>1 DEF Possible, IsTrade
  <1>3. s \in Symbols /\ u \in Int
    BY <1>2 DEF Symbols
  <1>4. Holdings(inventory)
    BY DEF BookInv
  <1> HIDE DEF m, s
  <1>5. TradeFacts(inventory, new, s, u, m.price)
    BY <1>2, <1>3, <1>4, TradedIs
  <1>6. s = SymbolOf[m.order] /\ u = m.side * m.size
    BY DEF s
  <1> HIDE DEF new, u
  <1>7. Holdings(new)
    BY <1>5 DEF TradeFacts
  <1>8. CASE exact
    <2> DEFINE P == Positions(inventory)
    <2>1. online /\ flows = Rebase(inventory) /\ Counted = Knows(P)
      BY <1>8 DEF BookInv, Counted
    <2>2. P[s] = Net0(PositionFor(inventory, s))
      BY <1>3 DEF Positions
    <2> HIDE DEF P
    <2>3. Booked(Counted, m) = IF Whole(P[s], u, m.price)
                               THEN Knows([P EXCEPT ![s] = After(@, u, m.price)]) ELSE Wrong
      BY <1>1, <1>6, <2>1 DEF Booked, Booking, Knows
    <2>4. Whole(P[s], u, m.price)
      BY <2>1, <2>3 DEF Wrong, m
    <2>5. Booked(Counted, m) = Knows([P EXCEPT ![s] = After(@, u, m.price)])
      BY <2>3, <2>4
    <2>6. Positions(new) = [P EXCEPT ![s] = After(@, u, m.price)]
      BY <1>3, <1>5, SeenTraded DEF P
    <2>7. Rebase(new) = [units |-> [Rebase(inventory).units EXCEPT ![s] = @ + u],
                         paid  |-> Rebase(inventory).paid + u * m.price]
      BY <1>2, <1>3, <1>4, <1>5, <2>2, <2>4, RebaseTraded
    <2>8. Count(m, s) = [units |-> [flows.units EXCEPT ![s] = @ + u],
                         paid  |-> flows.paid + u * m.price]
      BY <1>6, <1>8, Zenon DEF Count
    <2>9. flows' = Rebase(new)
      BY <1>1, <2>1, <2>7, <2>8
    <2>10. Counted' = Knows(Positions(new))
      BY <1>1, <1>8 DEF Counted
    <2> QED
      BY <1>1, <1>7, <2>1, <2>5, <2>6, <2>9, <2>10 DEF Handled, m
  <1>9. CASE ~exact
    <2>1. Counted' = Lost /\ Booked(Counted, m) = Lost
      BY <1>1, <1>9 DEF Counted, Booked, Lost
    <2> QED
      BY <1>1, <1>7, <1>9, <2>1 DEF Handled, m
  <1> QED
    BY <1>8, <1>9

LEMMA TradesHandled ==
  ASSUME BookInv, Possible(Head(inbox)), HandleTrades
  PROVE  Handled
  <1> DEFINE m == Head(inbox)
             new == Traded(inventory, m.symbol, m.side, m.size, m.price)
  <1>1. m.type = "trades" /\ inventory' = new /\ exact' = FALSE
    BY DEF HandleTrades, Takes
  <1>2. m.symbol \in Symbols /\ m.side \in {1, -1} /\ m.size \in Nat \ {0} /\ m.price \in Int
    BY <1>1 DEF Possible, IsTrade
  <1>3. TradeFacts(inventory, new, m.symbol, m.side * m.size, m.price)
    BY <1>2, TradedIs DEF BookInv
  <1> HIDE DEF m, new
  <1>4. Holdings(new)
    BY <1>3 DEF TradeFacts
  <1>5. Counted' = Lost
    BY <1>1 DEF Counted
  <1>6. Booked(Counted, m) = Lost
    BY <1>1 DEF Booked, Booking, Counted, Knows, Lost
  <1> QED
    BY <1>1, <1>4, <1>5, <1>6 DEF Handled, m

LEMMA HandleBooks ==
  ASSUME FollowInv, BookInv, Handle
  PROVE  BookInv'
  <1>1. /\ inbox # <<>> /\ inbox' = Tail(inbox) /\ exch' = exch /\ online' = online
    BY HandleIsEffect DEF exchVars
  <1>2. /\ Possible(Head(inbox))
        /\ online => Booked(Counted, Head(inbox)).is # "wrong"
    BY <1>1, NextIsRight
  <1>3. Handled
    BY <1>2, SnapshotHandled, PositionHandled, OrderHandled, FillHandled, TradesHandled DEF Handle
  <1>4. /\ \A i \in 1..Len(inbox') : Possible(inbox'[i])
        /\ online => \E w \in Ends(exch) :
                       Ledger!Leads(Booked(Counted, Head(inbox)), inbox', w)
    BY <1>1, NextIsRight
  <1>5. online' => \E w \in Ends(exch') : Ledger!Leads(Counted', inbox', w)
    BY <1>1, <1>3, <1>4 DEF Handled
  <1> QED
    BY <1>1, <1>3, <1>4, <1>5 DEF BookInv, Handled

LEMMA BookInit == Init => BookInv
  <1> SUFFICES ASSUME Init PROVE BookInv
    OBVIOUS
  <1>1. PICK position \in {Flat} \cup [quantity : {-1}, vwap : Prices], S \in {{}, Orders} :
          exch = [positions |-> [s \in Symbols |-> position], orders |-> [o \in S |-> MaxSize]]
    BY DEF Init
  <1>2. PICK bad : inbox = <<SnapshotOf(exch, bad)>>
    BY DEF Init, Snapshots
  <1> DEFINE m == SnapshotOf(exch, bad)
  <1>3. position \in Position /\ Net0(position) = position
    <2>1. Prices \subseteq Int
      BY PyAccountAssumption
    <2>2. CASE position = Flat
      BY <2>2 DEF Flat, Position, Net0
    <2>3. CASE position \in [quantity : {-1}, vwap : Prices]
      <3>1. PICK v \in Prices : position = [quantity |-> -1, vwap |-> v]
        BY <2>3
      <3>2. v \in Int /\ -1 \in Int /\ -1 # 0
        BY <2>1
      <3> QED
        BY <3>1, <3>2 DEF Position, Net0
    <2> QED
      BY <1>1, <2>2, <2>3
  <1>4. Kept(exch) /\ exch.positions = [s \in Symbols |-> exch.positions[s]]
    BY <1>1, <1>3 DEF Kept
  <1>5. Possible(m) /\ Booked(Lost, m) \in Ends(exch)
    BY <1>4, SnapshotBooked
  <1>6. exact = FALSE /\ Counted = Lost
    BY DEF Init, Counted
  <1>7. Holdings(inventory)
    BY DEF Init, NoPositions, Holdings
  <1>8. inbox = <<m>>
    BY <1>2
  <1> HIDE DEF m
  <1>9. Ledger!Leads(Counted, inbox, Booked(Lost, m))
    BY <1>6, <1>8, Ledger!LeadsFew
  <1>10. \A i \in 1..Len(inbox) : Possible(inbox[i])
    BY <1>5, <1>8
  <1> QED
    BY <1>4, <1>5, <1>6, <1>7, <1>9, <1>10 DEF BookInv, Kept

LEMMA BookStep ==
  ASSUME FollowInv, BookInv, [Next]_vars
  PROVE  BookInv'
  <1>1. CASE UNCHANGED vars
    <2>1. UNCHANGED <<exch, online, inbox, inventory, exact, flows, Counted>>
      BY <1>1 DEF vars, exchVars, clientVars, history, Counted
    <2> QED
      BY <2>1 DEF BookInv
  <1> QED
    BY <1>1, OrderStepsBook, FillBooks, ConnectionBooks, HandleBooks DEF Next, Handle

(* The profit or loss of the inventory at any prices is that of the fills  *)
(* themselves, for any number of fills and symbols: what traded books as   *)
(* cash when a position is reduced or turned is what the fills paid, and a *)
(* position update in between repeats what the fills have made already.    *)
THEOREM PnlHolds == Spec => []PnlIsThatOfTheFills
  <1>1. BookInv => PnlIsThatOfTheFills
    <2> SUFFICES ASSUME BookInv, exact, NEW p \in [Symbols -> Prices \cup {0}]
                 PROVE  Net(inventory, p)
                          = SumFunction([s \in Symbols |-> flows.units[s] * p[s]]) - flows.paid
      BY DEF PnlIsThatOfTheFills
    <2>1. \A s \in Symbols : p[s] \in Int
      <3>1. \A x \in Prices \cup {0} : x \in Int
        BY PyAccountAssumption
      <3>2. \A s \in Symbols : p[s] \in Prices \cup {0}
        OBVIOUS
      <3> QED
        BY <3>1, <3>2, Zenon
    <2>2. Holdings(inventory) /\ flows = Rebase(inventory)
      BY DEF BookInv
    <2> QED
      BY <2>1, <2>2, NetIs
  <1>2. Init => FollowInv /\ BookInv
    BY FollowInit, BookInit
  <1>3. FollowInv /\ BookInv /\ [Next]_vars => (FollowInv /\ BookInv)'
    BY FollowStep, BookStep
  <1> QED
    BY <1>1, <1>2, <1>3, PTL DEF Spec
=============================================================================
