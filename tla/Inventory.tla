----------------------------- MODULE Inventory -----------------------------
(* The inventory of the Python package (bulk_api/common/inventory.py): a   *)
(* map from instruments to positions, the cash being the position of the   *)
(* stable.  Prices are whole numbers, and so are the averages as long as    *)
(* every fill leaves one that is (Whole in PyAccount).                     *)
EXTENDS Integers, FiniteSets, FiniteSetsExt, Functions

CONSTANTS
  Stable,    \* the instrument that holds the cash
  Dollars    \* the instruments that is_dollar_equiv takes for dollars

ASSUME StableAssumption == Stable \in Dollars

NoPositions == [i \in {} |-> [quantity |-> 0, vwap |-> 0]]

(* A map with the entries of another one in place of its own.              *)
Overlay(f, g) == [x \in DOMAIN f \cup DOMAIN g |-> IF x \in DOMAIN f THEN f[x] ELSE g[x]]
With(g, i, v) == Overlay([x \in {i} |-> v], g)

(* position_for: the position of an instrument, a new empty one if absent. *)
PositionFor(inventory, i) ==
  IF i \in DOMAIN inventory THEN inventory[i]
                            ELSE [quantity |-> 0, vwap |-> IF i \in Dollars THEN 1 ELSE 0]

SetPosition(inventory, i, quantity, vwap) ==
  With(inventory, i, [quantity |-> quantity, vwap |-> vwap])

AddCash(inventory, amount) ==
  LET cash == PositionFor(inventory, Stable)
  IN  SetPosition(inventory, Stable, cash.quantity + amount, cash.vwap)

Magnitude(n) == IF n < 0 THEN -n ELSE n
Sign(n)      == IF n < 0 THEN -1 ELSE 1

(* Mutation: what goes beyond the old position keeps its price.            *)
TradedKeepsPrice(inventory, i, side, amount, price) ==
  LET position   == PositionFor(inventory, i)
      held       == position.quantity
      liquidated == Min({Magnitude(held), amount})
      vwap       == (Magnitude(held) * position.vwap + amount * price) \div (Magnitude(held) + amount)
  IN  IF held = 0 THEN SetPosition(inventory, i, side * amount, price)
      ELSE IF side * held >= 0 THEN SetPosition(inventory, i, held + side * amount, vwap)
      ELSE SetPosition(AddCash(inventory, Sign(held) * liquidated * (price - position.vwap)),
                       i, held + side * amount, position.vwap)

(* traded: a trade opens a position, adds to it at the average price, or   *)
(* reduces it; then the difference in price is cash, and what goes beyond  *)
(* it is a new position at the price of the trade.                         *)
Traded(inventory, i, side, amount, price) ==
  LET position   == PositionFor(inventory, i)
      held       == position.quantity
      liquidated == Min({Magnitude(held), amount})
      vwap       == (Magnitude(held) * position.vwap + amount * price) \div (Magnitude(held) + amount)
      realized   == AddCash(inventory, Sign(held) * liquidated * (price - position.vwap))
  IN  IF held = 0 THEN SetPosition(inventory, i, side * amount, price)
      ELSE IF side * held >= 0 THEN SetPosition(inventory, i, held + side * amount, vwap)
      ELSE IF amount > liquidated THEN SetPosition(realized, i, side * (amount - liquidated), price)
      ELSE SetPosition(realized, i, held + side * amount, position.vwap)

(* pv, with Pnl.net: dollars count as they are, anything else by the       *)
(* difference between its price and its average.                           *)
Realized(inventory) ==
  SumFunction([i \in DOMAIN inventory \cap Dollars |-> inventory[i].quantity])
Unrealized(inventory, prices) ==
  SumFunction([i \in DOMAIN inventory \ Dollars |->
                 inventory[i].quantity * (prices[i] - inventory[i].vwap)])
Net(inventory, prices) == Realized(inventory) + Unrealized(inventory, prices)
=============================================================================
