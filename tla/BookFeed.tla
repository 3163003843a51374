----------------------------- MODULE BookFeed ------------------------------
(* The books of one symbol fed by the market data stream of the Python     *)
(* client (bulk_api/api/bulk_ws.py): the client's own OrderBook, updated   *)
(* by the l2Snapshot and l2Delta handlers before they emit the event, and  *)
(* a FastOrderBook that the user's handlers of the two topics update with  *)
(* the message they are given.  The exchange changes its book at any time  *)
(* and sends what changed, and a snapshot when it likes, on one stream;    *)
(* a reconnection loses the stream, not the books.                         *)
EXTENDS FastOrderBook

CONSTANTS
  Prices,        \* the prices of the book, in ticks
  Sizes,         \* the sizes a level may have
  MaxChanges,    \* how many levels one delta carries (bound)
  StreamCap,     \* how many messages are in flight (bound)
  Absent         \* a model value: the client has no book of the symbol

Books == [Sides -> UNION {[ks -> Sizes] : ks \in SUBSET (Prices \cup {-p : p \in Prices})}]

ASSUME FeedAssumption ==
  /\ Prices \subseteq Nat \ {0} /\ IsFiniteSet(Prices) /\ Sizes \subseteq Nat \ {0}
  /\ MaxChanges \in Nat /\ StreamCap \in Nat
  /\ Absent \notin Books

VARIABLES
  exchange,      \* the exchange's book
  stream,        \* the messages sent and not yet handled
  book,          \* order_books[symbol]
  fast,          \* the FastOrderBook
  synced,        \* has a snapshot of this connection been handled? (history)
  wasFull        \* sides whose arrays have been full since then (history)

vars == <<exchange, stream, book, fast, synced, wasFull>>

NoBook == [side \in Sides |-> EmptySide]

(* The levels of both sides, best first.                                   *)
SnapshotOf(b) == [kind |-> "snapshot", levels |-> [side \in Sides |-> Levels(side, b[side])]]

(* The changed levels of one side, best first.                             *)
DeltaOf(side, change) ==
  [kind |-> "delta", side |-> side,
   levels |-> LET ks == Ranked({Key(side, p) : p \in DOMAIN change})
              IN  [i \in 1..Len(ks) |-> [price |-> PriceOf(side, ks[i]),
                                         size |-> change[PriceOf(side, ks[i])]]]]

Changes == UNION {[ps -> Sizes \cup {0}] : ps \in {s \in SUBSET Prices : Cardinality(s) \in 1..MaxChanges}}

Crossed(b) == \E k \in DOMAIN b["bid"], j \in DOMAIN b["ask"] : PriceOf("bid", k) >= j

(* subscribe_orderbook_snapshot() has made an empty book, or only deltas   *)
(* are subscribed and there is none.                                       *)
Init ==
  /\ exchange = NoBook /\ stream = <<>>
  /\ book \in {NoBook, Absent}
  /\ fast = [side \in Sides |-> <<>>]
  /\ synced = FALSE
  /\ wasFull = {}

---------------------------------------------------------------------------
(* The exchange (external): orders arrive, trade and are cancelled; its    *)
(* book is never crossed.                                                  *)
Market(side, change) ==
  LET kept == {k \in DOMAIN exchange[side] : PriceOf(side, k) \notin DOMAIN change}
      set  == {Key(side, p) : p \in {q \in DOMAIN change : change[q] > 0}}
  IN  [exchange EXCEPT ![side] =
         [k \in kept \cup set |-> IF k \in set THEN change[PriceOf(side, k)] ELSE @[k]]]

Requote(side, change) ==
  /\ Len(stream) < StreamCap
  /\ ~Crossed(Market(side, change))
  /\ exchange' = Market(side, change)
  /\ stream' = Append(stream, DeltaOf(side, change))
  /\ UNCHANGED <<book, fast, synced, wasFull>>

SendSnapshot ==
  /\ Len(stream) < StreamCap
  /\ stream' = Append(stream, SnapshotOf(exchange))
  /\ UNCHANGED <<exchange, book, fast, synced, wasFull>>

(* The connection is lost with what is in flight and the topics are        *)
(* subscribed again.  Bound: it is lost only after a first snapshot.       *)
Reconnect ==
  /\ synced
  /\ stream' = <<>>
  /\ synced' = FALSE
  /\ UNCHANGED <<exchange, book, fast, wasFull>>

---------------------------------------------------------------------------
FullSides(f) == {side \in Sides : Len(f[side]) = MaxLevels}

(* A snapshot that adds its levels to what the book has.                   *)
SnapshotMerges ==
  /\ stream # <<>> /\ Head(stream).kind = "snapshot"
  /\ LET levels == Head(stream).levels
     IN  /\ book' = [side \in Sides |->
                       ApplyDelta(side, IF book = Absent THEN EmptySide ELSE book[side], levels[side])]
         /\ fast' = [side \in Sides |-> FastSnapshot(side, levels[side])]
  /\ synced' = TRUE
  /\ wasFull' = FullSides(fast')
  /\ stream' = Tail(stream)
  /\ UNCHANGED exchange

(* _handle_l2_snapshot: the book is replaced, or made when there is none.  *)
HandleSnapshot ==
  /\ stream # <<>> /\ Head(stream).kind = "snapshot"
  /\ LET levels == Head(stream).levels
     IN  /\ book' = [side \in Sides |-> FromSnapshot(side, levels[side])]
         /\ fast' = [side \in Sides |-> FastSnapshot(side, levels[side])]
  /\ synced' = TRUE
  /\ wasFull' = FullSides(fast')
  /\ stream' = Tail(stream)
  /\ UNCHANGED exchange

(* The side of a delta whose array is full before a change or after them.  *)
Fills(m) ==
  {side \in {m.side} : \E n \in 0..Len(m.levels) :
                         Len(FastSteps(side, fast[side], m.levels)[n]) = MaxLevels}

(* _handle_l2_delta: a delta of a symbol without a book is only emitted.   *)
HandleDelta ==
  /\ stream # <<>> /\ Head(stream).kind = "delta"
  /\ LET m == Head(stream)
     IN  /\ \/ book = Absent /\ book' = book
            \/ book # Absent /\ book' = [book EXCEPT ![m.side] = ApplyDelta(m.side, @, m.levels)]
         /\ fast' = [fast EXCEPT ![m.side] = FastDelta(m.side, @, m.levels)]
         /\ wasFull' = wasFull \cup Fills(m)
  /\ stream' = Tail(stream)
  /\ UNCHANGED <<exchange, synced>>

Next ==
  \/ \E side \in Sides, change \in Changes : Requote(side, change)
  \/ SendSnapshot \/ Reconnect
  \/ HandleSnapshot \/ HandleDelta

Spec == Init /\ [][Next]_vars

---------------------------------------------------------------------------
After(b, m) ==
  IF m.kind = "snapshot" THEN [side \in Sides |-> FromSnapshot(side, m.levels[side])]
  ELSE [b EXCEPT ![m.side] = ApplyDelta(m.side, @, m.levels)]

(* What a client makes of the messages in flight.                          *)
Afterwards(view, messages) ==
  LET after[n \in 0..Len(messages)] ==
        IF n = 0 THEN view ELSE After(after[n - 1], messages[n])
  IN  after[Len(messages)]

(* The quote of the exchange, applied to a book that is behind or ahead of *)
(* it, becomes the best of both sides and the book is not crossed after    *)
(* it.  Both sides of the quote have a level: a BBO has price 0 where a    *)
(* side is empty, and apply_bbo then leaves the asks as they are.          *)
BboBecomesBest ==
  book # Absent /\ (\A side \in Sides : exchange[side] # EmptySide) =>
    LET quote(side) == [price |-> PriceOf(side, BestKey(exchange[side])),
                        size |-> exchange[side][BestKey(exchange[side])]]
        after == [side \in Sides |-> ApplyBbo(side, book[side], quote(side))]
    IN  /\ \A side \in Sides : BestKey(after[side]) = BestKey(exchange[side])
        /\ ~Crossed(after)

(* Once a snapshot of the connection has been handled the client's book is *)
(* the exchange's as of the last message handled: what is still in flight  *)
(* leads from the one to the other, deltas of a level that was never sent  *)
(* and deltas that repeat a snapshot included.  A quote only moves it to   *)
(* the exchange's best.                                                    *)
BookFollowsExchange ==
  /\ synced => Afterwards(book, stream) = exchange
  /\ BboBecomesBest

(* The entries of the compiled book are strictly ordered, best first, with *)
(* no price twice, however often the arrays were full (the order that      *)
(* every query of it relies on).                                           *)
FastSorted ==
  \A side \in Sides : \A i \in 1..Len(fast[side]) - 1 :
    fast[side][i].key < fast[side][i + 1].key

(* The compiled book is sorted and agrees with the client's: every level   *)
(* it shows is there with the same size, none stays that was deleted, and  *)
(* none is missing unless the arrays have been full.                       *)
FastAgrees ==
  FastSorted /\ (synced => \A side \in Sides :
    LET entries == {<<e.key, e.size>> : e \in Range(fast[side])}
        levels  == {<<k, book[side][k]>> : k \in DOMAIN book[side]}
    IN  entries \subseteq levels /\ (side \notin wasFull => entries = levels))

SideOf(arr) == [k \in {e.key : e \in Range(arr)} |-> (CHOOSE e \in Range(arr) : e.key = k).size]

(* get_depth of the sorted book is the total from the best ask to the      *)
(* price.  For bids it is not: its loop stops at the best level.           *)
AskDepthIsTotal ==
  book # Absent => \A p \in Prices :
    GetDepth("ask", book["ask"], p) = TotalTo("ask", book["ask"], p)

(* get_depth of the compiled book is the total from the best price to the  *)
(* given one, on both sides and for a price between or beyond the levels,  *)
(* and that of the sorted book is for asks; sweep_price is the best price  *)
(* at which that total reaches the size, and the worst level when the      *)
(* whole side is too small.                                                *)
SweepMatchesDepth ==
  AskDepthIsTotal /\ \A side \in Sides : fast[side] # <<>> =>
    LET arr == fast[side]
        whole == SumFunction(SideOf(arr))
    IN  /\ \A p \in Prices : FastDepth(side, arr, p) = TotalTo(side, SideOf(arr), p)
        /\ \A size \in 1..whole + 1 :
             LET p == SweepPrice(side, arr, size)
             IN  /\ TotalTo(side, SideOf(arr), p) >= Min({size, whole})
                 /\ \A e \in Range(arr) : e.key < Key(side, p)
                      => TotalTo(side, SideOf(arr), PriceOf(side, e.key)) < size

(* Aggregation only merges neighbours, and yet its result has every bucket *)
(* once, with the total of all the levels that are rounded to it: no size  *)
(* is lost or counted twice where the tick changes.  A bucket is never     *)
(* better than a level in it.  The coarse tick is a multiple of the fine.  *)
AggregateIsGroupBy ==
  \A side \in Sides, ticks \in {<<1, 2>>, <<2, 4>>}, nFine \in 0..2 :
    LET arr    == fast[side]
        at(i)  == BucketAt(side, arr, i, ticks[1], ticks[2], nFine)
        out    == AggregateDual(side, arr, ticks[1], ticks[2], nFine)
        groups == {[price |-> at(i),
                    size |-> MapThenSumSet(LAMBDA j : arr[j].size,
                                           {j \in 1..Len(arr) : at(j) = at(i)})] : i \in 1..Len(arr)}
    IN  /\ Range(out) = groups /\ Len(out) = Cardinality(groups)
        /\ \A i \in 1..Len(arr) : Key(side, at(i)) >= arr[i].key

=============================================================================
