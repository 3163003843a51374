----------------------------- MODULE PyAccount -----------------------------
(***************************************************************************)
(* The Python client's copy of the account: open orders and the inventory, *)
(* kept from the account stream of one connection after the other, and     *)
(* from the public trades when the user subscribes to them too.  Source:   *)
(* the account handlers of api-python/bulk_api/api/bulk_ws.py.             *)
(*                                                                         *)
(* A handler runs to its end before the next message is taken.  The        *)
(* exchange and the network are the environment.  Margin, leverage and the *)
(* risk figures of a position are stored as they come and are left out.    *)
(***************************************************************************)
EXTENDS Inventory, Sequences

CONSTANTS
  Orders,       \* order ids
  Sells,        \* those that sell
  SymbolOf,     \* the symbol of each order
  Prices,       \* the prices of fills
  MaxSize,      \* bound on the size of an order
  MaxPosition,  \* bound on the size of a position
  MaxChanges,   \* bound on the changes of the account
  MaxLosses,    \* bound on the connections lost
  MaxInFlight,  \* bound on the messages in flight when the account changes
  EndStatuses   \* the statuses the exchange ends an order with

(* The statuses of an order that the code takes for a live one.            *)
LiveStatuses == {"resting", "placed", "working"}

Symbols == {SymbolOf[o] : o \in Orders}

ASSUME PyAccountAssumption ==
  /\ IsFiniteSet(Orders) /\ Sells \subseteq Orders
  /\ Prices \subseteq Int
  /\ Symbols \cap Dollars = {}
  /\ MaxSize \in Nat \ {0} /\ MaxPosition \in Nat
  /\ EndStatuses \cap LiveStatuses = {}
  /\ "orders" \notin Symbols    \* the other part that may differ
  /\ MaxChanges \in Nat /\ MaxLosses \in Nat /\ MaxInFlight \in Nat

VARIABLES
  exch,        \* the account at the exchange
  changes,     \* how many changes it has made
  online,      \* is there a connection?
  losses,      \* connections lost
  inbox,       \* messages in flight to the client
  inventory,   \* inventory.positions
  orders,      \* open_orders, as the size that remains
  unsure,      \* history: what may differ, messages having been lost or not read
  exact,       \* history: has the inventory counted every fill once since a snapshot?
  flows        \* history: units and money of the fills counted since then

exchVars   == <<exch, changes>>
clientVars == <<inventory, orders>>
history    == <<unsure, exact, flows>>
vars == <<exchVars, online, losses, inbox, clientVars, history>>

Dir(o) == IF o \in Sells THEN -1 ELSE 1

Flat   == [quantity |-> 0, vwap |-> 0]
Held(account) == {s \in Symbols : account.positions[s].quantity # 0}
NoOrders      == [o \in {} |-> 0]
NoFlows       == [units |-> [s \in Symbols |-> 0], paid |-> 0]

(* A snapshot lists the positions there are and the open orders; it does   *)
(* not parse when one of them has a status the client does not know.       *)
SnapshotOf(account, bad) ==
  [type |-> "accountSnapshot", positions |-> [s \in Held(account) |-> account.positions[s]],
   orders |-> account.orders, bad |-> bad]

Snapshots(account) ==
  {SnapshotOf(account, bad) : bad \in IF account.orders = NoOrders THEN {FALSE} ELSE BOOLEAN}

Init ==
  /\ \E position \in {Flat} \cup [quantity : {-1}, vwap : Prices], S \in {{}, Orders} :
       exch = [positions |-> [s \in Symbols |-> position], orders |-> [o \in S |-> MaxSize]]
  /\ changes = 0
  /\ online = TRUE
  /\ losses = 0
  /\ inbox \in {<<m>> : m \in Snapshots(exch)}
  /\ inventory = NoPositions
  /\ orders = NoOrders
  /\ unsure = Symbols \cup {"orders"}
  /\ exact = FALSE
  /\ flows = NoFlows

-----------------------------------------------------------------------------
(* The exchange and the network (external).                                *)

(* The account changes, and who is connected is told.                      *)
Tell(account, msgs) ==
  /\ changes < MaxChanges
  /\ Len(inbox) <= MaxInFlight
  /\ changes' = changes + 1
  /\ exch' = account
  /\ inbox' = IF online THEN inbox \o msgs ELSE inbox
  /\ UNCHANGED <<online, losses, clientVars, history>>

OrderMsg(o, status, size) == [type |-> "orderUpdate", order |-> o, status |-> status, size |-> size]
PositionMsg(s, position)  == [type |-> "positionUpdate", symbol |-> s, position |-> position]

Place(o, n) ==
  /\ o \notin DOMAIN exch.orders
  /\ Tell([exch EXCEPT !.orders = With(@, o, n)], <<OrderMsg(o, "resting", n)>>)

(* The position after a fill: average price over the units of one sign.    *)
After(position, units, price) ==
  LET q == position.quantity
      n == q + units
  IN  CASE n = 0              -> Flat
        [] n # 0 /\ n * q <= 0 -> [quantity |-> n, vwap |-> price]
        [] n * q > 0 /\ units * q > 0 ->
             [quantity |-> n, vwap |-> (Magnitude(q) * position.vwap + Magnitude(units) * price)
                                  \div Magnitude(n)]
        [] n * q > 0 /\ units * q < 0 -> [quantity |-> n, vwap |-> position.vwap]

(* Bound: the prices are such that the average of a position that grows is *)
(* a whole number too.                                                     *)
Whole(position, units, price) ==
  position.quantity * units > 0 =>
    (Magnitude(position.quantity) * position.vwap + Magnitude(units) * price)
      % Magnitude(position.quantity + units) = 0

(* A fill is told, then the order when it is done, then the position.  The *)
(* public trade of it comes before or after these, if at all, with the     *)
(* side of the taker.                                                      *)
FillOrder(o, n, price) ==
  /\ o \in DOMAIN exch.orders
  /\ n <= exch.orders[o]
  /\ LET s        == SymbolOf[o]
         left     == exch.orders[o] - n
         position == After(exch.positions[s], Dir(o) * n, price)
         account  == [exch EXCEPT !.positions[s] = position,
                                  !.orders = IF left = 0 THEN Restrict(@, DOMAIN @ \ {o})
                                                         ELSE [@ EXCEPT ![o] = left]]
         own      == <<[type |-> "fill", order |-> o, side |-> Dir(o), size |-> n, price |-> price]>>
                     \o (IF left = 0 THEN <<OrderMsg(o, "filled", 0)>> ELSE <<>>)
                     \o <<PositionMsg(s, position)>>
         trade(d) == [type |-> "trades", symbol |-> s, side |-> d, size |-> n, price |-> price]
     IN  /\ Magnitude(position.quantity) <= MaxPosition
         /\ Whole(exch.positions[s], Dir(o) * n, price)
         /\ \/ Tell(account, own)
            \/ \E d \in {1, -1} : \/ Tell(account, <<trade(d)>> \o own)
                                 \/ Tell(account, own \o <<trade(d)>>)

EndOrder(o, status) ==
  /\ o \in DOMAIN exch.orders
  /\ Tell([exch EXCEPT !.orders = Restrict(@, DOMAIN @ \ {o})],
          <<OrderMsg(o, status, exch.orders[o])>>)

(* The connection is lost, and with it some of what was in flight or none. *)
Lose ==
  /\ online
  /\ losses < MaxLosses
  /\ losses' = losses + 1
  /\ online' = FALSE
  /\ inbox' \in {inbox, <<>>}
  /\ UNCHANGED <<exchVars, clientVars>>
  /\ unsure' = Symbols \cup {"orders"}
  /\ exact' = FALSE
  /\ flows' = NoFlows

(* The client has connected again; the account stream begins with a        *)
(* snapshot.                                                               *)
Reconnected ==
  /\ ~online
  /\ inbox = <<>>
  /\ online' = TRUE
  /\ inbox' \in {<<m>> : m \in Snapshots(exch)}
  /\ UNCHANGED <<exchVars, losses, clientVars, history>>

-----------------------------------------------------------------------------
(* The client.                                                             *)

Known == {"resting", "placed", "working", "filled", "partiallyFilled", "cancelled",
          "cancelledRiskLimit", "cancelAllRejected", "cancelOneRejected", "cancelledSelfCrossing",
          "cancelledReduceOnly", "cancelledIOC", "rejectedCrossing", "rejectedDuplicate",
          "rejectedRiskLimit", "rejectedInvalid"}

IsTerminal(status) == status \notin LiveStatuses

(* The oldest message is of this type, and it is taken.                    *)
Takes(type) ==
  /\ inbox # <<>>
  /\ Head(inbox).type = type
  /\ inbox' = Tail(inbox)

(* The inventory is counted from here on.                                  *)
Rebase(inv) ==
  [units |-> [s \in Symbols |-> PositionFor(inv, s).quantity],
   paid  |-> SumFunction([s \in Symbols |-> PositionFor(inv, s).quantity * PositionFor(inv, s).vwap])
             - PositionFor(inv, Stable).quantity]

(* A snapshot of this connection: nothing differs, and counting begins.    *)
Settled ==
  \/ online /\ unsure' = {} /\ exact' = TRUE /\ flows' = Rebase(inventory')
  \/ ~online /\ UNCHANGED history

(* Mutation: a position that the snapshot does not list is kept.           *)
HandleSnapshotKeeping ==
  /\ Takes("accountSnapshot")
  /\ LET m == Head(inbox)
     IN \/ m.bad /\ UNCHANGED <<clientVars, history>>
        \/ /\ ~m.bad
           /\ inventory' = Overlay(m.positions, inventory)
           /\ orders' = m.orders
           /\ Settled
  /\ UNCHANGED <<exchVars, online, losses>>

(* Parsing comes first and raises for an order of unknown status: then     *)
(* nothing is changed.  Otherwise the positions that the snapshot does not *)
(* list are removed, the stable's excepted, and the others and the open    *)
(* orders are replaced.                                                    *)
HandleSnapshot ==
  /\ Takes("accountSnapshot")
  /\ LET m == Head(inbox)
     IN \/ m.bad /\ UNCHANGED <<clientVars, history>>
        \/ /\ ~m.bad
           /\ inventory' = Overlay(m.positions, Restrict(inventory, DOMAIN inventory \cap {Stable}))
           /\ orders' = m.orders
           /\ Settled
  /\ UNCHANGED <<exchVars, online, losses>>

HandlePosition ==
  /\ Takes("positionUpdate")
  /\ LET m == Head(inbox)
     IN  /\ inventory' = With(inventory, m.symbol, m.position)
         /\ unsure' = IF online THEN unsure \ {m.symbol} ELSE unsure
  /\ UNCHANGED <<exchVars, online, losses, orders, exact, flows>>

(* Parsing raises for an unknown status.                                   *)
HandleOrder ==
  /\ Takes("orderUpdate")
  /\ LET m == Head(inbox)
     IN \/ /\ m.status \in Known
           /\ orders' = IF IsTerminal(m.status) THEN Restrict(orders, DOMAIN orders \ {m.order})
                                                ELSE With(orders, m.order, m.size)
           /\ UNCHANGED unsure
        \/ /\ m.status \notin Known
           /\ unsure' = unsure \cup {"orders"}
           /\ UNCHANGED orders
  /\ UNCHANGED <<exchVars, online, losses, inventory, exact, flows>>

Count(m, s) ==
  IF exact THEN [units |-> [flows.units EXCEPT ![s] = @ + m.side * m.size],
                 paid  |-> flows.paid + m.side * m.size * m.price]
           ELSE flows

HandleFill ==
  /\ Takes("fill")
  /\ LET m == Head(inbox)
         s == SymbolOf[m.order]
     IN  /\ inventory' = Traded(inventory, s, m.side, m.size, m.price)
         /\ orders' = IF m.order \notin DOMAIN orders THEN orders
                      ELSE IF orders[m.order] <= m.size THEN Restrict(orders, DOMAIN orders \ {m.order})
                      ELSE [orders EXCEPT ![m.order] = @ - m.size]
         /\ flows' = Count(m, s)
  /\ UNCHANGED <<exchVars, online, losses, unsure, exact>>

(* A public trade with our key as maker or taker is booked as well, with   *)
(* its own side.                                                           *)
HandleTrades ==
  /\ Takes("trades")
  /\ LET m == Head(inbox)
     IN  /\ inventory' = Traded(inventory, m.symbol, m.side, m.size, m.price)
         /\ unsure' = unsure \cup {m.symbol}
  /\ exact' = FALSE
  /\ flows' = NoFlows
  /\ UNCHANGED <<exchVars, online, losses, orders>>

-----------------------------------------------------------------------------
Sizes == 1..MaxSize

Next ==
  \/ \E o \in Orders, n \in Sizes : Place(o, n) \/ \E p \in Prices : FillOrder(o, n, p)
  \/ \E o \in Orders, s \in EndStatuses : EndOrder(o, s)
  \/ Lose \/ Reconnected
  \/ HandleSnapshot \/ HandlePosition \/ HandleOrder \/ HandleFill \/ HandleTrades

Spec == Init /\ [][Next]_vars

-----------------------------------------------------------------------------
(* When every message is handled, the client has the positions and the     *)
(* open orders of the exchange, however they came: by fills, updates, or   *)
(* the snapshot after a connection was lost with messages in it.  A fill   *)
(* booked twice is put right by the position update that follows it.       *)
AccountFollowsExchange ==
  online /\ inbox = <<>> =>
    /\ \A s \in Symbols \ unsure :
         /\ PositionFor(inventory, s).quantity = exch.positions[s].quantity
         /\ exch.positions[s].quantity # 0 => inventory[s].vwap = exch.positions[s].vwap
    /\ "orders" \notin unsure => orders = exch.orders

(* The profit or loss of the inventory at any prices is that of the fills  *)
(* themselves: what the units are worth less what was paid for them, over  *)
(* openings, additions, reductions and reversals, and although position    *)
(* updates overwrite quantity and average in between.                      *)
PnlIsThatOfTheFills ==
  exact => \A p \in [Symbols -> Prices \cup {0}] :
    Net(inventory, p)
      = SumFunction([s \in Symbols |-> flows.units[s] * p[s]]) - flows.paid
=============================================================================
