----------------------------- MODULE OrderBook -----------------------------
(* The order book of the Python client (bulk_api/data/orderbook.py).  A    *)
(* side of the book is a SortedDict from an integer key to a level: the    *)
(* negated price for bids and the price for asks, so that the smallest key *)
(* is the best level on both sides.  Here it is a function from keys to    *)
(* sizes; prices are whole ticks.                                          *)
EXTENDS Integers, Sequences, SequencesExt

Sides == {"bid", "ask"}

Key(side, price) == IF side = "bid" THEN -price ELSE price
PriceOf(side, key) == IF side = "bid" THEN -key ELSE key

EmptySide == [k \in {} |-> 0]

Put(side, book, level) ==
  LET key == Key(side, level.price)
  IN  [k \in DOMAIN book \cup {key} |-> IF k = key THEN level.size ELSE book[k]]

Change(side, book, level) ==
  IF level.size = 0 THEN Restrict(book, DOMAIN book \ {Key(side, level.price)})
                    ELSE Put(side, book, level)

(* A snapshot clears the side and stores the levels it carries.            *)
FromSnapshot(side, levels) ==
  LET after[n \in 0..Len(levels)] ==
        IF n = 0 THEN EmptySide ELSE Put(side, after[n - 1], levels[n])
  IN  after[Len(levels)]

(* A delta changes one level after the other.                              *)
ApplyDelta(side, book, changes) ==
  LET after[n \in 0..Len(changes)] ==
        IF n = 0 THEN book ELSE Change(side, after[n - 1], changes[n])
  IN  after[Len(changes)]

(* The levels better than the quote are popped from the front, then the    *)
(* quote is stored unless it is empty.                                     *)
ApplyBbo(side, book, level) ==
  LET kept == Restrict(book, {k \in DOMAIN book : k >= Key(side, level.price)})
  IN  IF level.size > 0 THEN Put(side, kept, level) ELSE kept

BestKey(book) == Min(DOMAIN book)

Ranked(keys) ==
  [i \in 1..Cardinality(keys) |-> CHOOSE k \in keys : Cardinality({j \in keys : j <= k}) = i]

(* get_bids and get_asks: the levels from the best one.                    *)
Levels(side, book) ==
  LET keys == Ranked(DOMAIN book)
  IN  [i \in 1..Len(keys) |-> [price |-> PriceOf(side, keys[i]), size |-> book[keys[i]]]]

(* get_depth walks the keys in order and stops at the first one that fails *)
(* the test of its branch.                                                 *)
SumWhile(book, Within(_)) ==
  SumFunctionOnSet(book, {k \in DOMAIN book :
                            \A j \in DOMAIN book : j <= k => Within(j)})

GetDepth(side, book, price) ==
  IF side = "bid" THEN SumWhile(book, LAMBDA k : k >= -price)
                  ELSE SumWhile(book, LAMBDA k : k <= price)

(* What get_depth is to return: the total from the best price to `price`.  *)
TotalTo(side, book, price) ==
  SumFunctionOnSet(book, {k \in DOMAIN book : k <= Key(side, price)})
=============================================================================
