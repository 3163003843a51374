--------------------------- MODULE FastOrderBook ---------------------------
(* The compiled order book of the Python package                           *)
(* (bulk_api/data/orderbook_jit.py).  A side is a pair of arrays of fixed  *)
(* length, keys and sizes, of which the first n entries are in use; here   *)
(* it is the sequence of those n entries.                                  *)
EXTENDS OrderBook

CONSTANT MaxLevels     \* the length of the arrays

ASSUME MaxLevelsAssumption == MaxLevels \in Nat \ {0}

(* One turn of the loop of _binary_search_price.                           *)
Narrowed(range, arr, target) ==
  LET mid == (range.left + range.right) \div 2
  IN  IF range.left >= range.right THEN range
      ELSE IF arr[mid + 1].key < target THEN [left |-> mid + 1, right |-> range.right]
           ELSE [left |-> range.left, right |-> mid]

(* _binary_search_price: the number of entries below the target.  A range  *)
(* that is still open shrinks in every turn.                               *)
BinarySearch(arr, target) ==
  LET range[turn \in 0..Len(arr)] ==
        IF turn = 0 THEN [left |-> 0, right |-> Len(arr)] ELSE Narrowed(range[turn - 1], arr, target)
  IN  range[Len(arr)].left

(* The entries from i on are shifted; those that no longer fit are lost.   *)
Removed(arr, i) == [j \in 1..(Len(arr) - 1) |-> IF j < i THEN arr[j] ELSE arr[j + 1]]

Inserted(arr, i, entry) ==
  [j \in 1..(IF Len(arr) < MaxLevels THEN Len(arr) + 1 ELSE MaxLevels) |->
     IF j < i THEN arr[j] ELSE IF j = i THEN entry ELSE arr[j - 1]]

(* A deletion that leaves the level.                                       *)
UpdateNeverDeletes(arr, key, size) ==
  LET i     == BinarySearch(arr, key) + 1
      entry == [key |-> key, size |-> size]
  IN  IF i <= Len(arr) /\ arr[i].key = key THEN [arr EXCEPT ![i] = entry]
      ELSE IF size = 0 \/ i > MaxLevels THEN arr ELSE Inserted(arr, i, entry)

(* _update_level_sorted.  A full array loses its last entry to an          *)
(* insertion, except when the new level is worse than all: then the code   *)
(* stores it one slot past the arrays and the entries in use stay as they  *)
(* were.                                                                   *)
UpdateLevel(arr, key, size) ==
  LET i     == BinarySearch(arr, key) + 1
      entry == [key |-> key, size |-> size]
  IN  IF i <= Len(arr) /\ arr[i].key = key
      THEN IF size = 0 THEN Removed(arr, i) ELSE [arr EXCEPT ![i] = entry]
      ELSE IF size = 0 \/ i > MaxLevels THEN arr ELSE Inserted(arr, i, entry)

(* from_snapshot copies as many levels as the arrays hold, in the order of *)
(* the message.                                                            *)
FastSnapshot(side, levels) ==
  [i \in 1..(IF Len(levels) < MaxLevels THEN Len(levels) ELSE MaxLevels) |->
     [key |-> Key(side, levels[i].price), size |-> levels[i].size]]

(* The entries after each of the changes of a delta.                       *)
FastSteps(side, arr, changes) ==
  LET after[n \in 0..Len(changes)] ==
        IF n = 0 THEN arr
        ELSE UpdateLevel(after[n - 1], Key(side, changes[n].price), changes[n].size)
  IN  after

FastDelta(side, arr, changes) == FastSteps(side, arr, changes)[Len(changes)]

Cumulative(arr, i) == FoldLeft(LAMBDA sum, e : sum + e.size, 0, SubSeq(arr, 1, i))

(* _sweep_price_fast: the price of the first level at which the cumulated  *)
(* size reaches `size`, of the last level when none does, 0 for no levels. *)
SweepPrice(side, arr, size) ==
  LET enough == {i \in 1..Len(arr) : Cumulative(arr, i) >= size}
  IN  IF arr = <<>> THEN 0
      ELSE PriceOf(side, arr[IF enough = {} THEN Len(arr) ELSE Min(enough)].key)

(* A depth that leaves out the level at the given price.                   *)
DepthExclusive(side, arr, price) ==
  MapThenSumSet(LAMBDA i : arr[i].size, {i \in 1..Len(arr) : arr[i].key < Key(side, price)})

(* _calculate_depth_fast                                                   *)
FastDepth(side, arr, price) ==
  LET Within(i) == IF side = "bid" THEN PriceOf(side, arr[i].key) >= price
                                   ELSE PriceOf(side, arr[i].key) <= price
      walked    == {i \in 1..Len(arr) : \A j \in 1..i : Within(j)}
  IN  MapThenSumSet(LAMBDA i : arr[i].size, walked)

(* Bids are rounded down to a multiple of the tick and asks up.            *)
Bucket(side, price, tick) ==
  IF side = "bid" THEN (price \div tick) * tick ELSE -((-price) \div tick) * tick

BucketAt(side, arr, i, fine, coarse, nFine) ==
  Bucket(side, PriceOf(side, arr[i].key), IF i > nFine THEN coarse ELSE fine)

(* A merge that keeps the later size instead of the sum.                   *)
AggregateLast(side, arr, fine, coarse, nFine) ==
  FoldLeftDomain(
    LAMBDA out, i :
      LET b == BucketAt(side, arr, i, fine, coarse, nFine)
      IN  IF out # <<>> /\ Last(out).price = b
          THEN ReplaceAt(out, Len(out), [price |-> b, size |-> arr[i].size])
          ELSE Append(out, [price |-> b, size |-> arr[i].size]),
    <<>>, arr)

(* _aggregate_dual_granularity: the levels in order, a level whose bucket  *)
(* is the one before it adds to it.  _aggregate_single_granularity is the  *)
(* same loop with one tick, nFine = 0 here.                                *)
AggregateDual(side, arr, fine, coarse, nFine) ==
  FoldLeftDomain(
    LAMBDA out, i :
      LET b == BucketAt(side, arr, i, fine, coarse, nFine)
      IN  IF out # <<>> /\ Last(out).price = b
          THEN ReplaceAt(out, Len(out), [price |-> b, size |-> Last(out).size + arr[i].size])
          ELSE Append(out, [price |-> b, size |-> arr[i].size]),
    <<>>, arr)
=============================================================================
