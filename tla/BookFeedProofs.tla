--------------------------- MODULE BookFeedProofs ---------------------------
(***************************************************************************)
(* For every set of prices, deltas of any number of changes, any number of *)
(* messages in flight and arrays of any length: the client's book is the   *)
(* exchange's once what is in flight has been handled, a quote makes its   *)
(* best levels the exchange's, the compiled book stays sorted and agrees   *)
(* with it, and its depth, sweep and aggregation are the totals and groups *)
(* of its levels.                                                          *)
(***************************************************************************)
EXTENDS BookFeed, SequenceTheorems, FiniteSetTheorems, TLAPS

-----------------------------------------------------------------------------
(* Lists, and loops over lists.                                            *)

IsList(s) == s \in Seq(Range(s))

LEMMA ListOfFunction ==
  ASSUME NEW n \in Nat, NEW s, s = [i \in 1..n |-> s[i]]
  PROVE  IsList(s) /\ Len(s) = n
  <1>1. s \in [1..n -> Range(s)]
    BY DEF Range
  <1>2. s \in Seq(Range(s))
    BY <1>1, SeqDef
  <1>3. DOMAIN s = 1..n /\ DOMAIN s = 1..Len(s) /\ Len(s) \in Nat
    BY <1>1, <1>2, LenProperties
  <1> QED
    BY <1>2, <1>3 DEF IsList

LEMMA ListFacts ==
  ASSUME NEW s, IsList(s)
  PROVE  Len(s) \in Nat /\ DOMAIN s = 1..Len(s) /\ s = [i \in 1..Len(s) |-> s[i]]
  BY LenProperties DEF IsList

(* The loops of the books: a turn is an Effect of a level of a message.    *)
Narrows(range, q) == Narrowed(range, q.arr, q.target)
Updates(arr, m)   == UpdateLevel(arr, Key(m.side, m.level.price), m.level.size)
Changing(b, m)    == Change(m.side, b, m.level)
Putting(b, m)     == Put(m.side, b, m.level)

Search   == INSTANCE SharedLemmas WITH Effect <- Narrows
Update   == INSTANCE SharedLemmas WITH Effect <- Updates
Delta    == INSTANCE SharedLemmas WITH Effect <- Changing
Snapshot == INSTANCE SharedLemmas WITH Effect <- Putting
INSTANCE SharedLemmas WITH Effect <- After

(* The levels of a message with their side.                                *)
Sided(side, levels) == [n \in 1..Len(levels) |-> [side |-> side, level |-> levels[n]]]

LEMMA SidedLevels ==
  ASSUME NEW side, NEW levels, Len(levels) \in Nat
  PROVE  /\ Len(Sided(side, levels)) = Len(levels)
         /\ \A n \in 1..Len(levels) :
              Sided(side, levels)[n].side = side /\ Sided(side, levels)[n].level = levels[n]
  <1>1. Len(Sided(side, levels)) = Len(levels)
    <2> DEFINE s == Sided(side, levels)
    <2>1. s = [i \in 1..Len(levels) |-> s[i]]
      BY DEF Sided
    <2> HIDE DEF s
    <2>2. Len(s) = Len(levels)
      BY <2>1, ListOfFunction
    <2> QED
      BY <2>2 DEF s
  <1> QED
    BY <1>1 DEF Sided

LEMMA FastStepsAre ==
  ASSUME NEW side, NEW arr, NEW changes, Len(changes) \in Nat
  PROVE  /\ FastSteps(side, arr, changes)[0] = arr
         /\ \A n \in 1..Len(changes) :
              FastSteps(side, arr, changes)[n] =
                UpdateLevel(FastSteps(side, arr, changes)[n - 1],
                            Key(side, changes[n].price), changes[n].size)
  <1> DEFINE s == Sided(side, changes)
             Steps(h) == h = [n \in 0..Len(changes) |->
                               IF n = 0 THEN arr
                               ELSE UpdateLevel(h[n - 1], Key(side, changes[n].price), changes[n].size)]
             f == FastSteps(side, arr, changes)
  <1>1. Len(s) = Len(changes)
        /\ \A n \in 1..Len(changes) : s[n].side = side /\ s[n].level = changes[n]
    BY SidedLevels
  <1> HIDE DEF s
  <1>2. PICK h : Update!IsLoop(h, arr, s)
    BY <1>1, Update!LoopExists
  <1>3. \A n \in 1..Len(changes) : \A a :
          Updates(a, s[n]) = UpdateLevel(a, Key(side, changes[n].price), changes[n].size)
    BY <1>1 DEF Updates
  <1>4. Steps(h)
    <2>1. h = [n \in 0..Len(changes) |-> h[n]] /\ h[0] = arr
          /\ \A n \in 1..Len(changes) : h[n] = Updates(h[n - 1], s[n])
      BY <1>1, <1>2 DEF Update!IsLoop
    <2>2. ASSUME NEW n \in 0..Len(changes)
          PROVE  h[n] = IF n = 0 THEN arr
                        ELSE UpdateLevel(h[n - 1], Key(side, changes[n].price), changes[n].size)
      BY <1>3, <2>1, <2>2
    <2> QED
      BY <2>1, <2>2
  <1>5. Steps(f)
    BY <1>4 DEF FastSteps
  <1> HIDE DEF f
  <1>6. \A n \in 0..Len(changes) :
          f[n] = IF n = 0 THEN arr
                 ELSE UpdateLevel(f[n - 1], Key(side, changes[n].price), changes[n].size)
    BY <1>5
  <1>7. f[0] = arr
    BY <1>6
  <1>8. \A n \in 1..Len(changes) :
          f[n] = UpdateLevel(f[n - 1], Key(side, changes[n].price), changes[n].size)
    BY <1>6
  <1> QED
    BY <1>7, <1>8 DEF f

-----------------------------------------------------------------------------
(* The compiled book.                                                      *)

(* Entries in use: strictly ordered, of levels with a size, within the     *)
(* arrays.                                                                 *)
Entries(arr) ==
  /\ IsList(arr) /\ Len(arr) <= MaxLevels
  /\ \A i \in 1..Len(arr) :
       /\ arr[i] = [key |-> arr[i].key, size |-> arr[i].size]
       /\ arr[i].key \in Int /\ arr[i].size \in Nat \ {0}
  /\ \A i, j \in 1..Len(arr) : i < j => arr[i].key < arr[j].key

(* The loop of the search runs until nothing is left between the entries   *)
(* that are too small and those that are not.                              *)
Closes(r, arr, target, turn) ==
  /\ r = [left |-> r.left, right |-> r.right]
  /\ r.left \in 0..Len(arr) /\ r.right \in r.left..Len(arr)
  /\ r.right - r.left <= Len(arr) - turn
  /\ \A i \in 1..r.left : arr[i].key < target
  /\ \A i \in (r.right + 1)..Len(arr) : arr[i].key >= target

LEMMA Halves ==
  ASSUME NEW a \in Nat, NEW b \in Nat, a < b
  PROVE  (a + b) \div 2 \in a..(b - 1)
  OBVIOUS

LEMMA CloserNext ==
  ASSUME NEW arr, Entries(arr), NEW target \in Int, NEW turn \in 1..Len(arr), NEW r,
         Closes(r, arr, target, turn - 1)
  PROVE  Closes(Narrowed(r, arr, target), arr, target, turn)
  <1> DEFINE l == r.left
             h == r.right
             mid == (l + h) \div 2
  <1>1. /\ Len(arr) \in Nat /\ l \in 0..Len(arr) /\ h \in l..Len(arr) /\ h - l <= Len(arr) - (turn - 1)
        /\ \A i \in 1..l : arr[i].key < target
        /\ \A i \in (h + 1)..Len(arr) : arr[i].key >= target
    BY ListFacts DEF Closes, Entries
  <1> HIDE DEF l, h
  <1>2. CASE l >= h
    <2>1. Narrowed(r, arr, target) = r
      BY <1>2 DEF Narrowed, l, h
    <2> QED
      BY <1>1, <1>2, <2>1 DEF Closes, l, h
  <1>3. CASE l < h
    <2>1. mid \in l..(h - 1)
      BY <1>1, <1>3, Halves
    <2> HIDE DEF mid
    <2>2. mid + 1 \in 1..Len(arr)
      BY <1>1, <2>1
    <2>3. /\ \A i \in 1..Len(arr) : arr[i].key \in Int
          /\ \A i \in 1..(mid + 1) : arr[i].key <= arr[mid + 1].key
          /\ \A i \in (mid + 1)..Len(arr) : arr[mid + 1].key <= arr[i].key
      <3>1. \A i \in 1..Len(arr) : arr[i].key \in Int
        BY DEF Entries
      <3>2. \A i, j \in 1..Len(arr) : i < j => arr[i].key < arr[j].key
        BY DEF Entries
      <3>3. ASSUME NEW i \in 1..(mid + 1) PROVE arr[i].key <= arr[mid + 1].key
        <4>1. i \in 1..Len(arr) /\ (i < mid + 1 \/ i = mid + 1)
          BY <1>1, <2>1, <2>2
        <4> QED
          BY <2>2, <3>1, <3>2, <4>1
      <3>4. ASSUME NEW i \in (mid + 1)..Len(arr) PROVE arr[mid + 1].key <= arr[i].key
        <4>1. i \in 1..Len(arr) /\ (mid + 1 < i \/ i = mid + 1)
          BY <1>1, <2>1, <2>2
        <4> QED
          BY <2>2, <3>1, <3>2, <4>1
      <3> QED
        BY <3>1, <3>3, <3>4
    <2>4. CASE arr[mid + 1].key < target
      <3>1. Narrowed(r, arr, target) = [left |-> mid + 1, right |-> h]
        BY <1>1, <1>3, <2>4 DEF Narrowed, mid, l, h
      <3>2. ASSUME NEW i \in 1..(mid + 1) PROVE arr[i].key < target
        <4>1. i \in 1..Len(arr) /\ arr[i].key \in Int /\ arr[mid + 1].key \in Int
          BY <1>1, <2>2, <2>3
        <4>2. arr[i].key <= arr[mid + 1].key
          BY <2>3
        <4> QED
          BY <2>4, <4>1, <4>2
      <3> QED
        BY <1>1, <2>1, <2>2, <3>1, <3>2 DEF Closes
    <2>5. CASE ~(arr[mid + 1].key < target)
      <3>1. Narrowed(r, arr, target) = [left |-> l, right |-> mid]
        BY <1>1, <1>3, <2>5 DEF Narrowed, mid, l, h
      <3>2. ASSUME NEW i \in (mid + 1)..Len(arr) PROVE arr[i].key >= target
        <4>1. i \in 1..Len(arr) /\ arr[i].key \in Int /\ arr[mid + 1].key \in Int
          BY <1>1, <2>2, <2>3
        <4>2. arr[mid + 1].key <= arr[i].key
          BY <2>3
        <4> QED
          BY <2>5, <4>1, <4>2
      <3> QED
        BY <1>1, <2>1, <2>2, <3>1, <3>2 DEF Closes
    <2> QED
      BY <2>4, <2>5
  <1> QED
    BY <1>1, <1>2, <1>3

(* _binary_search_price returns the number of entries below the target.    *)
LEMMA SearchCounts ==
  ASSUME NEW arr, Entries(arr), NEW target \in Int
  PROVE  /\ BinarySearch(arr, target) \in 0..Len(arr)
         /\ \A i \in 1..BinarySearch(arr, target) : arr[i].key < target
         /\ \A i \in (BinarySearch(arr, target) + 1)..Len(arr) : arr[i].key >= target
  <1> DEFINE l == Len(arr)
             q == [arr |-> arr, target |-> target]
             s == [n \in 1..l |-> q]
             start == [left |-> 0, right |-> l]
             Steps(f) == f = [n \in 0..l |-> IF n = 0 THEN start ELSE Narrowed(f[n - 1], arr, target)]
             r == CHOOSE f : Steps(f)
  <1>1. l \in Nat
    BY ListFacts DEF Entries
  <1>2. Len(s) = l /\ \A n \in 1..l : s[n] = q
    <2>1. s = [n \in 1..l |-> s[n]] /\ \A n \in 1..l : s[n] = q
      OBVIOUS
    <2> HIDE DEF s
    <2> QED
      BY <1>1, <2>1, ListOfFunction
  <1>3. \A a : Narrows(a, q) = Narrowed(a, arr, target)
    BY DEF Narrows
  <1> HIDE DEF s, q, start
  <1>4. PICK h : Search!IsLoop(h, start, s)
    BY <1>1, <1>2, Search!LoopExists
  <1>5. Steps(h)
    <2>1. h = [n \in 0..l |-> h[n]] /\ h[0] = start
          /\ \A n \in 1..l : h[n] = Narrowed(h[n - 1], arr, target)
      BY <1>1, <1>2, <1>3, <1>4 DEF Search!IsLoop
    <2>2. ASSUME NEW n \in 0..l
          PROVE  h[n] = IF n = 0 THEN start ELSE Narrowed(h[n - 1], arr, target)
      <3>1. CASE n = 0
        BY <2>1, <3>1
      <3>2. CASE n # 0
        <4>1. n \in 1..l
          BY <1>1, <2>2, <3>2
        <4> QED
          BY <2>1, <3>2, <4>1
      <3> QED
        BY <3>1, <3>2
    <2> QED
      BY <2>1, <2>2
  <1>6. Steps(r)
    BY <1>5
  <1>7. BinarySearch(arr, target) = r[l].left
    BY DEF BinarySearch, start
  <1> HIDE DEF r
  <1>8. \A n \in 0..l : r[n] = IF n = 0 THEN start ELSE Narrowed(r[n - 1], arr, target)
    BY <1>6
  <1> DEFINE T == {n \in 0..l : Closes(r[n], arr, target, n)}
  <1>9. 0 \in T
    BY <1>1, <1>8 DEF Closes, start
  <1>10. ASSUME NEW n \in 1..l, n - 1 \in T PROVE n \in T
    <2>1. Closes(r[n - 1], arr, target, n - 1) /\ r[n] = Narrowed(r[n - 1], arr, target)
      BY <1>1, <1>8, <1>10
    <2> QED
      BY <2>1, CloserNext
  <1> HIDE DEF T
  <1>11. l \in T
    <2>1. \A n \in 1..l : n - 1 \in T => n \in T
      BY <1>10
    <2> HIDE DEF l
    <2>2. \A n \in 0..l : n \in T
      BY <1>1, <1>9, <2>1, Search!Turns
    <2> QED
      BY <1>1, <2>2
  <1>12. Closes(r[l], arr, target, l)
    BY <1>11 DEF T
  <1>13. r[l].left = r[l].right
    BY <1>1, <1>12 DEF Closes
  <1> QED
    BY <1>7, <1>12, <1>13 DEF Closes

(* What an update makes of the entries: each is the new level or one of    *)
(* the others that were there; and unless the arrays were full, the new    *)
(* level and all the others are there.                                     *)
Updated(arr, key, size, new) ==
  /\ \A i \in 1..Len(new) :
       \/ size > 0 /\ new[i] = [key |-> key, size |-> size]
       \/ \E j \in 1..Len(arr) : arr[j].key # key /\ new[i] = arr[j]
  /\ Len(arr) < MaxLevels =>
       /\ \A j \in 1..Len(arr) : arr[j].key # key => \E i \in 1..Len(new) : new[i] = arr[j]
       /\ size > 0 => \E i \in 1..Len(new) : new[i] = [key |-> key, size |-> size]

LEMMA EntriesFrom ==
  ASSUME NEW new, NEW n \in 0..MaxLevels, new = [i \in 1..n |-> new[i]],
         \A i \in 1..n : /\ new[i] = [key |-> new[i].key, size |-> new[i].size]
                         /\ new[i].key \in Int /\ new[i].size \in Nat \ {0},
         \A i, j \in 1..n : i < j => new[i].key < new[j].key
  PROVE  Entries(new) /\ Len(new) = n
  <1>1. n \in Nat
    BY MaxLevelsAssumption
  <1>2. IsList(new) /\ Len(new) = n
    BY <1>1, ListOfFunction
  <1> QED
    BY <1>1, <1>2, MaxLevelsAssumption DEF Entries

LEMMA EntriesAre ==
  ASSUME NEW arr, Entries(arr)
  PROVE  /\ Len(arr) \in 0..MaxLevels /\ Len(arr) \in Nat /\ MaxLevels \in Nat \ {0}
         /\ DOMAIN arr = 1..Len(arr) /\ arr = [i \in 1..Len(arr) |-> arr[i]]
         /\ \A i \in 1..Len(arr) : /\ arr[i] = [key |-> arr[i].key, size |-> arr[i].size]
                                   /\ arr[i].key \in Int /\ arr[i].size \in Nat \ {0}
         /\ \A i, j \in 1..Len(arr) : i < j => arr[i].key < arr[j].key
  <1>1. /\ Len(arr) \in Nat /\ DOMAIN arr = 1..Len(arr) /\ arr = [i \in 1..Len(arr) |-> arr[i]]
    BY ListFacts DEF Entries
  <1>2. MaxLevels \in Nat \ {0}
    BY MaxLevelsAssumption
  <1> QED
    BY <1>1, <1>2 DEF Entries

LEMMA RemovedKeeps ==
  ASSUME NEW arr, Entries(arr), NEW c \in 1..Len(arr)
  PROVE  /\ Entries(Removed(arr, c))
         /\ Updated(arr, arr[c].key, 0, Removed(arr, c))
  <1> DEFINE n == Len(arr)
             u == Removed(arr, c)
             From(j) == IF j < c THEN j ELSE j + 1
  <1>1. /\ n \in 0..MaxLevels /\ n \in Nat /\ MaxLevels \in Nat \ {0} /\ n # 0
        /\ \A i \in 1..n : /\ arr[i] = [key |-> arr[i].key, size |-> arr[i].size]
                           /\ arr[i].key \in Int /\ arr[i].size \in Nat \ {0}
        /\ \A i, j \in 1..n : i < j => arr[i].key < arr[j].key
    BY EntriesAre
  <1>2. u = [i \in 1..(n - 1) |-> u[i]]
    BY DEF Removed
  <1>3. \A i \in 1..(n - 1) : u[i] = arr[From(i)]
    BY <1>1 DEF Removed
  <1>4. \A i \in 1..(n - 1) : From(i) \in 1..n /\ From(i) # c
    BY <1>1
  <1>5. \A i, j \in 1..(n - 1) : i < j => From(i) < From(j)
    BY <1>1
  <1>6. \A j \in 1..n : j # c => \E i \in 1..(n - 1) : From(i) = j
    <2> TAKE j \in 1..n
    <2> HAVE j # c
    <2>1. CASE j < c
      <3>1. j \in 1..(n - 1) /\ From(j) = j
        BY <1>1, <2>1
      <3> QED
        BY <3>1
    <2>2. CASE c < j
      <3>1. j - 1 \in 1..(n - 1) /\ From(j - 1) = j
        BY <1>1, <2>2
      <3> QED
        BY <3>1
    <2> QED
      BY <2>1, <2>2
  <1> HIDE DEF u, From, n
  <1>7. Entries(u) /\ Len(u) = n - 1
    <2>1. ASSUME NEW i \in 1..(n - 1)
          PROVE  /\ u[i] = [key |-> u[i].key, size |-> u[i].size]
                 /\ u[i].key \in Int /\ u[i].size \in Nat \ {0}
      BY <1>1, <1>3, <1>4
    <2>2. ASSUME NEW i \in 1..(n - 1), NEW j \in 1..(n - 1), i < j PROVE u[i].key < u[j].key
      BY <1>1, <1>3, <1>4, <1>5, <2>2
    <2>3. n - 1 \in 0..MaxLevels
      BY <1>1
    <2> QED
      BY <1>2, <2>1, <2>2, <2>3, EntriesFrom
  <1>8. ASSUME NEW j \in 1..n, j # c PROVE arr[j].key # arr[c].key
    <2>1. CASE j < c
      <3>1. arr[j].key < arr[c].key /\ arr[j].key \in Int /\ arr[c].key \in Int
        BY <1>1, <1>8, <2>1 DEF n
      <3> QED
        BY <3>1
    <2>2. CASE c < j
      <3>1. arr[c].key < arr[j].key /\ arr[j].key \in Int /\ arr[c].key \in Int
        BY <1>1, <1>8, <2>2 DEF n
      <3> QED
        BY <3>1
    <2>3. j < c \/ c < j
      BY <1>1, <1>8 DEF n
    <2> QED
      BY <2>1, <2>2, <2>3
  <1>9. \A i \in 1..(n - 1) : \E j \in 1..n : arr[j].key # arr[c].key /\ u[i] = arr[j]
    BY <1>3, <1>4, <1>8
  <1>10. \A j \in 1..n : arr[j].key # arr[c].key => \E i \in 1..(n - 1) : u[i] = arr[j]
    BY <1>3, <1>6
  <1> QED
    BY <1>7, <1>9, <1>10 DEF Updated, u, n

LEMMA ReplacedKeeps ==
  ASSUME NEW arr, Entries(arr), NEW c \in 1..Len(arr), NEW size \in Nat \ {0}
  PROVE  LET u == [arr EXCEPT ![c] = [key |-> arr[c].key, size |-> size]]
         IN  Entries(u) /\ Updated(arr, arr[c].key, size, u)
  <1> DEFINE n == Len(arr)
             e == [key |-> arr[c].key, size |-> size]
             u == [arr EXCEPT ![c] = e]
  <1>1. /\ n \in 0..MaxLevels /\ n \in Nat /\ MaxLevels \in Nat \ {0}
        /\ DOMAIN arr = 1..n
        /\ \A i \in 1..n : /\ arr[i] = [key |-> arr[i].key, size |-> arr[i].size]
                           /\ arr[i].key \in Int /\ arr[i].size \in Nat \ {0}
        /\ \A i, j \in 1..n : i < j => arr[i].key < arr[j].key
    BY EntriesAre
  <1>2. u = [i \in 1..n |-> u[i]]
    BY <1>1
  <1>3. \A i \in 1..n : u[i] = IF i = c THEN e ELSE arr[i]
    BY <1>1
  <1>4. e.key = arr[c].key /\ e.size = size /\ e = [key |-> e.key, size |-> e.size]
    OBVIOUS
  <1> HIDE DEF u, e, n
  <1>5. \A i \in 1..n : u[i].key = arr[i].key
    BY <1>3, <1>4
  <1>6. Entries(u) /\ Len(u) = n
    <2>1. ASSUME NEW i \in 1..n
          PROVE  /\ u[i] = [key |-> u[i].key, size |-> u[i].size]
                 /\ u[i].key \in Int /\ u[i].size \in Nat \ {0}
      BY <1>1, <1>3, <1>4
    <2>2. ASSUME NEW i \in 1..n, NEW j \in 1..n, i < j PROVE u[i].key < u[j].key
      BY <1>1, <1>5, <2>2
    <2> QED
      BY <1>1, <1>2, <2>1, <2>2, EntriesFrom
  <1>7. \A j \in 1..n : j # c => arr[j].key # arr[c].key
    BY <1>1 DEF n
  <1>8. c \in 1..n /\ u[c] = e
    BY <1>3 DEF n
  <1>9. \A i \in 1..n : u[i] = e \/ \E j \in 1..n : arr[j].key # arr[c].key /\ u[i] = arr[j]
    BY <1>3, <1>7
  <1>10. \A j \in 1..n : arr[j].key # arr[c].key => \E i \in 1..n : u[i] = arr[j]
    BY <1>3
  <1>11. size > 0
    OBVIOUS
  <1> QED
    BY <1>6, <1>8, <1>9, <1>10, <1>11 DEF Updated, u, n, e

LEMMA InsertedKeeps ==
  ASSUME NEW arr, Entries(arr), NEW key \in Int, NEW size \in Nat \ {0},
         NEW c \in 1..(Len(arr) + 1), c <= MaxLevels,
         \A i \in 1..(c - 1) : arr[i].key < key, \A i \in c..Len(arr) : arr[i].key > key
  PROVE  LET u == Inserted(arr, c, [key |-> key, size |-> size])
         IN  Entries(u) /\ Updated(arr, key, size, u)
  <1> DEFINE n == Len(arr)
             m == IF n < MaxLevels THEN n + 1 ELSE MaxLevels
             e == [key |-> key, size |-> size]
             u == Inserted(arr, c, e)
  <1>1. /\ n \in 0..MaxLevels /\ n \in Nat /\ MaxLevels \in Nat \ {0}
        /\ \A i \in 1..n : /\ arr[i] = [key |-> arr[i].key, size |-> arr[i].size]
                           /\ arr[i].key \in Int /\ arr[i].size \in Nat \ {0}
        /\ \A i, j \in 1..n : i < j => arr[i].key < arr[j].key
    BY EntriesAre
  <1>2. u = [i \in 1..m |-> u[i]]
    BY DEF Inserted
  <1>3. \A i \in 1..m : u[i] = IF i < c THEN arr[i] ELSE IF i = c THEN e ELSE arr[i - 1]
    BY DEF Inserted
  <1>4. /\ m \in 0..MaxLevels /\ c \in 1..m /\ (n < MaxLevels => m = n + 1)
        /\ \A i \in 1..m : (i < c => i \in 1..n /\ i \in 1..(c - 1))
                           /\ (i > c => i - 1 \in 1..n /\ i - 1 \in c..n)
    BY <1>1
  <1>5. e.key = key /\ e.size = size /\ e = [key |-> e.key, size |-> e.size]
    OBVIOUS
  <1> HIDE DEF u, e, m, n
  <1>6. Entries(u) /\ Len(u) = m
    <2>1. ASSUME NEW i \in 1..m
          PROVE  /\ u[i] = [key |-> u[i].key, size |-> u[i].size]
                 /\ u[i].key \in Int /\ u[i].size \in Nat \ {0}
      <3>1. CASE i < c
        BY <1>1, <1>3, <1>4, <3>1
      <3>2. CASE i = c
        BY <1>3, <1>5, <3>2
      <3>3. CASE i > c
        BY <1>1, <1>3, <1>4, <3>3
      <3> QED
        BY <3>1, <3>2, <3>3
    <2>2. ASSUME NEW i \in 1..m, NEW j \in 1..m, i < j PROVE u[i].key < u[j].key
      <3>1. ASSUME NEW k \in 1..m
            PROVE  /\ k < c => u[k] = arr[k] /\ k \in 1..n /\ arr[k].key < key
                   /\ k = c => u[k].key = key
                   /\ k > c => u[k] = arr[k - 1] /\ k - 1 \in 1..n /\ arr[k - 1].key > key
        BY <1>3, <1>4, <1>5 DEF n
      <3>2. CASE j < c
        BY <1>1, <2>2, <3>1, <3>2
      <3>3. CASE i > c
        BY <1>1, <2>2, <3>1, <3>3
      <3>4. CASE i < c /\ j >= c
        BY <1>1, <2>2, <3>1, <3>4
      <3>5. CASE i = c
        BY <1>1, <2>2, <3>1, <3>5
      <3> QED
        BY <2>2, <3>2, <3>3, <3>4, <3>5
    <2> QED
      BY <1>2, <1>4, <2>1, <2>2, EntriesFrom
  <1>7. \A i \in 1..m : u[i] = e \/ \E j \in 1..n : arr[j].key # key /\ u[i] = arr[j]
    <2> TAKE i \in 1..m
    <2>1. CASE i < c
      <3>1. u[i] = arr[i] /\ i \in 1..n /\ arr[i].key < key /\ arr[i].key \in Int
        BY <1>1, <1>3, <1>4, <2>1
      <3> QED
        BY <3>1
    <2>2. CASE i = c
      BY <1>3, <2>2
    <2>3. CASE i > c
      <3>1. i - 1 \in 1..n /\ i - 1 \in c..Len(arr)
        BY <1>1, <1>4, <2>3 DEF n
      <3>2. u[i] = arr[i - 1]
        BY <1>3, <1>4, <2>3
      <3>3. arr[i - 1].key > key /\ arr[i - 1].key \in Int
        BY <1>1, <3>1
      <3> QED
        BY <3>1, <3>2, <3>3
    <2> QED
      BY <2>1, <2>2, <2>3
  <1>8. n < MaxLevels => \A j \in 1..n : \E i \in 1..m : u[i] = arr[j]
    <2> SUFFICES ASSUME n < MaxLevels, NEW j \in 1..n PROVE \E i \in 1..m : u[i] = arr[j]
      OBVIOUS
    <2>1. CASE j < c
      <3>1. j \in 1..m /\ u[j] = arr[j]
        BY <1>1, <1>3, <1>4, <2>1
      <3> QED
        BY <3>1
    <2>2. CASE j >= c
      <3>1. j + 1 \in 1..m /\ u[j + 1] = arr[j]
        BY <1>1, <1>3, <1>4, <2>2
      <3> QED
        BY <3>1
    <2> QED
      BY <2>1, <2>2
  <1>9. c \in 1..m /\ u[c] = e /\ size > 0
    BY <1>3, <1>4
  <1> QED
    BY <1>6, <1>7, <1>8, <1>9 DEF Updated, u, n, e

LEMMA UpdateKeeps ==
  ASSUME NEW arr, Entries(arr), NEW key \in Int, NEW size \in Nat
  PROVE  Entries(UpdateLevel(arr, key, size)) /\ Updated(arr, key, size, UpdateLevel(arr, key, size))
  <1> DEFINE n == Len(arr)
             c == BinarySearch(arr, key) + 1
             e == [key |-> key, size |-> size]
             u == UpdateLevel(arr, key, size)
  <1>1. /\ n \in 0..MaxLevels /\ n \in Nat /\ MaxLevels \in Nat \ {0}
        /\ \A i \in 1..n : arr[i].key \in Int
        /\ \A i, j \in 1..n : i < j => arr[i].key < arr[j].key
    BY EntriesAre
  <1>2. /\ c \in 1..(n + 1)
        /\ \A i \in 1..(c - 1) : arr[i].key < key
        /\ \A i \in c..n : arr[i].key >= key
    <2> DEFINE b == BinarySearch(arr, key)
    <2>1. b \in 0..n /\ (\A i \in 1..b : arr[i].key < key)
          /\ (\A i \in (b + 1)..n : arr[i].key >= key)
      BY SearchCounts
    <2> HIDE DEF b
    <2>2. b = c - 1 /\ b + 1 = c /\ c \in 1..(n + 1)
      BY <1>1, <2>1 DEF b
    <2> QED
      BY <2>1, <2>2
  <1>3. u = IF c <= n /\ arr[c].key = key
            THEN IF size = 0 THEN Removed(arr, c) ELSE [arr EXCEPT ![c] = e]
            ELSE IF size = 0 \/ c > MaxLevels THEN arr ELSE Inserted(arr, c, e)
    BY DEF UpdateLevel
  <1> HIDE DEF u, c, n
  <1>4. CASE c <= n /\ arr[c].key = key
    <2>1. c \in 1..Len(arr)
      BY <1>1, <1>2, <1>4 DEF n
    <2>2. CASE size = 0
      BY <1>3, <1>4, <2>1, <2>2, RemovedKeeps DEF u
    <2>3. CASE size # 0
      <3>1. size \in Nat \ {0} /\ u = [arr EXCEPT ![c] = [key |-> arr[c].key, size |-> size]]
        BY <1>3, <1>4, <2>3
      <3>2. Entries(u) /\ Updated(arr, arr[c].key, size, u)
        BY <2>1, <3>1, ReplacedKeeps
      <3> QED
        BY <1>4, <3>2 DEF u
    <2> QED
      BY <2>2, <2>3
  <1>5. CASE ~(c <= n /\ arr[c].key = key)
    <2>1. \A i \in c..n : arr[i].key > key
      BY <1>1, <1>2, <1>5
    <2>2. \A i \in 1..n : arr[i].key # key
      BY <1>1, <1>2, <2>1
    <2>3. CASE size = 0 \/ c > MaxLevels
      <3>1. u = arr
        BY <1>3, <1>5, <2>3
      <3>2. n < MaxLevels => size = 0
        BY <1>1, <1>2, <2>3
      <3> QED
        BY <2>2, <3>1, <3>2 DEF Updated, u, n
    <2>4. CASE ~(size = 0 \/ c > MaxLevels)
      <3>1. u = Inserted(arr, c, e) /\ c <= MaxLevels /\ size \in Nat \ {0}
        BY <1>1, <1>2, <1>3, <1>5, <2>4
      <3> QED
        BY <1>2, <2>1, <3>1, InsertedKeeps DEF u, n
    <2> QED
      BY <2>3, <2>4
  <1> QED
    BY <1>4, <1>5

-----------------------------------------------------------------------------
(* The client's book.                                                      *)

LEMMA Keys ==
  ASSUME NEW side \in Sides, NEW k \in Int
  PROVE  /\ Key(side, k) \in Int /\ PriceOf(side, k) \in Int
         /\ Key(side, PriceOf(side, k)) = k /\ PriceOf(side, Key(side, k)) = k
  BY DEF Key, PriceOf

(* The turns of apply_delta and of from_snapshot.                          *)
LEMMA DeltaTurns ==
  ASSUME NEW side, NEW b, NEW changes, Len(changes) \in Nat
  PROVE  \E f : /\ f[0] = b /\ f[Len(changes)] = ApplyDelta(side, b, changes)
                /\ \A n \in 1..Len(changes) : f[n] = Change(side, f[n - 1], changes[n])
  <1> DEFINE l == Len(changes)
             s == Sided(side, changes)
             Steps(f) == f = [n \in 0..l |-> IF n = 0 THEN b ELSE Change(side, f[n - 1], changes[n])]
             r == CHOOSE f : Steps(f)
  <1>1. Len(s) = l /\ \A n \in 1..l : s[n].side = side /\ s[n].level = changes[n]
    BY SidedLevels
  <1>2. \A n \in 1..l : \A a : Changing(a, s[n]) = Change(side, a, changes[n])
    BY <1>1 DEF Changing
  <1> HIDE DEF s
  <1>3. PICK h : Delta!IsLoop(h, b, s)
    BY <1>1, Delta!LoopExists
  <1>4. Steps(h)
    <2>1. h = [n \in 0..l |-> h[n]] /\ h[0] = b
          /\ \A n \in 1..l : h[n] = Change(side, h[n - 1], changes[n])
      BY <1>1, <1>2, <1>3 DEF Delta!IsLoop
    <2>2. ASSUME NEW n \in 0..l
          PROVE  h[n] = IF n = 0 THEN b ELSE Change(side, h[n - 1], changes[n])
      BY <2>1, <2>2
    <2> QED
      BY <2>1, <2>2
  <1>5. Steps(r)
    BY <1>4
  <1>6. ApplyDelta(side, b, changes) = r[l]
    BY DEF ApplyDelta
  <1> HIDE DEF r
  <1>7. \A n \in 0..l : r[n] = IF n = 0 THEN b ELSE Change(side, r[n - 1], changes[n])
    BY <1>5
  <1>8. r[0] = b /\ \A n \in 1..l : r[n] = Change(side, r[n - 1], changes[n])
    BY <1>7
  <1> QED
    BY <1>6, <1>8

LEMMA SnapshotTurns ==
  ASSUME NEW side, NEW levels, Len(levels) \in Nat
  PROVE  \E f : /\ f[0] = EmptySide /\ f[Len(levels)] = FromSnapshot(side, levels)
                /\ \A n \in 1..Len(levels) : f[n] = Put(side, f[n - 1], levels[n])
  <1> DEFINE l == Len(levels)
             s == Sided(side, levels)
             Steps(f) == f = [n \in 0..l |-> IF n = 0 THEN EmptySide ELSE Put(side, f[n - 1], levels[n])]
             r == CHOOSE f : Steps(f)
  <1>1. Len(s) = l /\ \A n \in 1..l : s[n].side = side /\ s[n].level = levels[n]
    BY SidedLevels
  <1>2. \A n \in 1..l : \A a : Putting(a, s[n]) = Put(side, a, levels[n])
    BY <1>1 DEF Putting
  <1> HIDE DEF s
  <1>3. PICK h : Snapshot!IsLoop(h, EmptySide, s)
    BY <1>1, Snapshot!LoopExists
  <1>4. Steps(h)
    <2>1. h = [n \in 0..l |-> h[n]] /\ h[0] = EmptySide
          /\ \A n \in 1..l : h[n] = Put(side, h[n - 1], levels[n])
      BY <1>1, <1>2, <1>3 DEF Snapshot!IsLoop
    <2>2. ASSUME NEW n \in 0..l
          PROVE  h[n] = IF n = 0 THEN EmptySide ELSE Put(side, h[n - 1], levels[n])
      BY <2>1, <2>2
    <2> QED
      BY <2>1, <2>2
  <1>5. Steps(r)
    BY <1>4
  <1>6. FromSnapshot(side, levels) = r[l]
    BY DEF FromSnapshot
  <1> HIDE DEF r
  <1>7. \A n \in 0..l : r[n] = IF n = 0 THEN EmptySide ELSE Put(side, r[n - 1], levels[n])
    BY <1>5
  <1>8. r[0] = EmptySide /\ \A n \in 1..l : r[n] = Put(side, r[n - 1], levels[n])
    BY <1>7
  <1> QED
    BY <1>6, <1>8

(* The entries are levels of the book, and all of them unless the arrays   *)
(* have been full.                                                         *)
Shows(arr, b, full) ==
  /\ \A i \in 1..Len(arr) : arr[i].key \in DOMAIN b /\ b[arr[i].key] = arr[i].size
  /\ ~full => \A k \in DOMAIN b : \E i \in 1..Len(arr) : arr[i].key = k

LEMMA ShowsNext ==
  ASSUME NEW arr, Entries(arr), NEW b, NEW full, Shows(arr, b, full), Len(arr) = MaxLevels => full,
         NEW side, NEW level, Key(side, level.price) \in Int, level.size \in Nat
  PROVE  LET new == UpdateLevel(arr, Key(side, level.price), level.size)
         IN  Entries(new) /\ Shows(new, Change(side, b, level), full)
  <1> DEFINE key  == Key(side, level.price)
             size == level.size
             new  == UpdateLevel(arr, key, size)
             c    == Change(side, b, level)
  <1>1. Entries(new) /\ Updated(arr, key, size, new)
    BY UpdateKeeps
  <1>2. /\ size = 0 => c = [k \in DOMAIN b \ {key} |-> b[k]]
        /\ size # 0 => c = [k \in DOMAIN b \cup {key} |-> IF k = key THEN size ELSE b[k]]
    <2>1. DOMAIN b \ {key} \subseteq DOMAIN b
      OBVIOUS
    <2> QED
      BY <2>1 DEF Change, Put, Restrict
  <1>3. \A k \in DOMAIN b : k # key => k \in DOMAIN c /\ c[k] = b[k]
    BY <1>2
  <1>4. size # 0 => key \in DOMAIN c /\ c[key] = size
    BY <1>2
  <1>5. \A k \in DOMAIN c : (k = key /\ size # 0) \/ (k # key /\ k \in DOMAIN b)
    BY <1>2
  <1>6. key \in Int /\ size \in Nat
    OBVIOUS
  <1> HIDE DEF new, c, key, size
  <1>7. ASSUME NEW i \in 1..Len(new) PROVE new[i].key \in DOMAIN c /\ c[new[i].key] = new[i].size
    <2>1. CASE size > 0 /\ new[i] = [key |-> key, size |-> size]
      BY <1>4, <1>6, <2>1
    <2>2. CASE \E j \in 1..Len(arr) : arr[j].key # key /\ new[i] = arr[j]
      BY <1>3, <2>2 DEF Shows
    <2> QED
      BY <1>1, <1>7, <2>1, <2>2 DEF Updated
  <1>8. ASSUME ~full, NEW k \in DOMAIN c PROVE \E i \in 1..Len(new) : new[i].key = k
    <2>1. Len(arr) < MaxLevels
      BY <1>8, EntriesAre
    <2>2. CASE k = key /\ size # 0
      <3>1. PICK i \in 1..Len(new) : new[i] = [key |-> key, size |-> size]
        BY <1>1, <1>6, <2>1, <2>2 DEF Updated
      <3> QED
        BY <2>2, <3>1
    <2>3. CASE k # key /\ k \in DOMAIN b
      <3>1. PICK j \in 1..Len(arr) : arr[j].key = k
        BY <1>8, <2>3 DEF Shows
      <3>2. PICK i \in 1..Len(new) : new[i] = arr[j]
        BY <1>1, <2>1, <2>3, <3>1 DEF Updated
      <3> QED
        BY <3>1, <3>2
    <2> QED
      BY <1>5, <1>8, <2>2, <2>3
  <1>9. Shows(new, c, full)
    BY <1>7, <1>8 DEF Shows
  <1> QED
    BY <1>1, <1>9 DEF new, c, key, size

LEMMA EntriesDelta ==
  ASSUME NEW arr, Entries(arr), NEW side, NEW changes, Len(changes) \in Nat,
         \A n \in 1..Len(changes) : Key(side, changes[n].price) \in Int /\ changes[n].size \in Nat
  PROVE  \A n \in 0..Len(changes) : Entries(FastSteps(side, arr, changes)[n])
  <1> DEFINE l == Len(changes)
             f == FastSteps(side, arr, changes)
             T == {n \in 0..l : Entries(f[n])}
  <1>1. f[0] = arr /\ \A n \in 1..l : f[n] = UpdateLevel(f[n - 1], Key(side, changes[n].price), changes[n].size)
    BY FastStepsAre
  <1> HIDE DEF f
  <1>2. 0 \in T
    BY <1>1
  <1>3. ASSUME NEW n \in 1..l, n - 1 \in T PROVE n \in T
    <2>1. Entries(f[n - 1]) /\ Key(side, changes[n].price) \in Int /\ changes[n].size \in Nat
      BY <1>3
    <2>2. Entries(f[n])
      BY <1>1, <2>1, UpdateKeeps
    <2> QED
      BY <1>3, <2>2
  <1> HIDE DEF T
  <1>4. \A n \in 0..l : n \in T
    <2>1. \A n \in 1..l : n - 1 \in T => n \in T
      BY <1>3
    <2>2. l \in Nat
      OBVIOUS
    <2> HIDE DEF l
    <2> QED
      BY <1>2, <2>1, <2>2, Update!Turns
  <1> QED
    BY <1>4 DEF T, f

(* Both books go through a delta together.                                 *)
LEMMA ShowsDelta ==
  ASSUME NEW arr, Entries(arr), NEW b, NEW full, Shows(arr, b, full), NEW side,
         NEW changes, Len(changes) \in Nat,
         \A n \in 1..Len(changes) : Key(side, changes[n].price) \in Int /\ changes[n].size \in Nat,
         (\E n \in 0..Len(changes) : Len(FastSteps(side, arr, changes)[n]) = MaxLevels) => full
  PROVE  Shows(FastDelta(side, arr, changes), ApplyDelta(side, b, changes), full)
  <1> DEFINE l == Len(changes)
             f == FastSteps(side, arr, changes)
  <1>1. f[0] = arr /\ \A n \in 1..l : f[n] = UpdateLevel(f[n - 1], Key(side, changes[n].price), changes[n].size)
    BY FastStepsAre
  <1>2. PICK g : /\ g[0] = b /\ g[l] = ApplyDelta(side, b, changes)
                 /\ \A n \in 1..l : g[n] = Change(side, g[n - 1], changes[n])
    BY DeltaTurns
  <1>3. \A n \in 0..l : Entries(f[n]) /\ (Len(f[n]) = MaxLevels => full)
    BY EntriesDelta
  <1>4. FastDelta(side, arr, changes) = f[l]
    BY DEF FastDelta
  <1> DEFINE T == {n \in 0..l : Shows(f[n], g[n], full)}
  <1> HIDE DEF f
  <1>5. 0 \in T
    BY <1>1, <1>2
  <1>6. ASSUME NEW n \in 1..l, n - 1 \in T PROVE n \in T
    <2> DEFINE a == f[n - 1]
               d == g[n - 1]
               e == changes[n]
    <2>1. Entries(a) /\ Shows(a, d, full) /\ (Len(a) = MaxLevels => full)
      BY <1>3, <1>6
    <2>2. f[n] = UpdateLevel(a, Key(side, e.price), e.size) /\ g[n] = Change(side, d, e)
      BY <1>1, <1>2, <1>6
    <2>3. Key(side, e.price) \in Int /\ e.size \in Nat
      BY <1>6
    <2> HIDE DEF a, d, e
    <2>4. Shows(f[n], g[n], full)
      BY <2>1, <2>2, <2>3, ShowsNext
    <2> QED
      BY <1>6, <2>4
  <1> HIDE DEF T
  <1>7. l \in T
    <2>1. \A n \in 1..l : n - 1 \in T => n \in T
      BY <1>6
    <2>2. l \in Nat
      OBVIOUS
    <2> HIDE DEF l
    <2>3. \A n \in 0..l : n \in T
      BY <1>5, <2>1, <2>2, Update!Turns
    <2> QED
      BY <2>2, <2>3
  <1>8. Shows(f[l], g[l], full)
    BY <1>7 DEF T
  <1> QED
    BY <1>2, <1>4, <1>8

-----------------------------------------------------------------------------
(* The levels of a book in order.                                          *)

LEMMA RankedIs ==
  ASSUME NEW K \in SUBSET Int, IsFiniteSet(K)
  PROVE  /\ IsList(Ranked(K)) /\ Len(Ranked(K)) = Cardinality(K) /\ Cardinality(K) \in Nat
         /\ \A i \in 1..Cardinality(K) : Ranked(K)[i] \in K
         /\ \A i, j \in 1..Cardinality(K) : i < j => Ranked(K)[i] < Ranked(K)[j]
         /\ \A k \in K : \E i \in 1..Cardinality(K) : Ranked(K)[i] = k
  <1> DEFINE n == Cardinality(K)
             r == Ranked(K)
             UpTo(k) == {j \in K : j <= k}
             c == [k \in K |-> Cardinality(UpTo(k))]
  <1>1. n \in Nat
    BY FS_CardinalityType
  <1>2. ASSUME NEW k \in K
        PROVE  /\ UpTo(k) \in SUBSET K /\ IsFiniteSet(UpTo(k)) /\ k \in UpTo(k)
               /\ Cardinality(UpTo(k)) \in 1..n
    <2>1. UpTo(k) \in SUBSET K /\ k \in UpTo(k)
      OBVIOUS
    <2>2. IsFiniteSet(UpTo(k)) /\ Cardinality(UpTo(k)) <= n
      BY <2>1, FS_Subset
    <2>3. Cardinality(UpTo(k)) \in Nat
      BY <2>2, FS_CardinalityType
    <2>4. Cardinality(UpTo(k)) # 0
      BY <2>1, <2>2, FS_EmptySet
    <2> HIDE DEF n, UpTo
    <2> QED
      BY <1>1, <2>1, <2>2, <2>3, <2>4
  <1>3. ASSUME NEW j \in K, NEW k \in K, j < k PROVE c[j] < c[k]
    <2>1. UpTo(j) \in SUBSET UpTo(k) /\ k \notin UpTo(j)
      <3>1. j \in Int /\ k \in Int /\ ~(k <= j)
        BY <1>3
      <3>2. \A i \in K : i <= j => i <= k
        BY <1>3, <3>1
      <3> QED
        BY <3>1, <3>2
    <2>2. IsFiniteSet(UpTo(k)) /\ k \in UpTo(k)
          /\ Cardinality(UpTo(j)) \in 1..n /\ Cardinality(UpTo(k)) \in 1..n
      BY <1>2
    <2>3. UpTo(j) # UpTo(k)
      BY <2>1, <2>2
    <2>4. c[j] = Cardinality(UpTo(j)) /\ c[k] = Cardinality(UpTo(k))
      OBVIOUS
    <2> HIDE DEF UpTo, c
    <2>5. Cardinality(UpTo(j)) <= Cardinality(UpTo(k))
          /\ Cardinality(UpTo(k)) # Cardinality(UpTo(j))
      BY <2>1, <2>2, <2>3, FS_Subset
    <2> QED
      BY <1>1, <2>2, <2>4, <2>5
  <1>4. c \in [K -> 1..n]
    BY <1>2
  <1>5. \A k \in K : c[k] = Cardinality({j \in K : j <= k})
    OBVIOUS
  <1> HIDE DEF c
  <1>6. ASSUME NEW j \in K, NEW k \in K, c[j] = c[k] PROVE j = k
    BY <1>3, <1>4, <1>6
  <1>7. \A i \in 1..n : \E k \in K : c[k] = i
    <2>1. c \in Injection(K, 1..n)
      BY <1>4, <1>6 DEF Injection, IsInjective
    <2>2. IsFiniteSet(1..n) /\ Cardinality(1..n) = n
      BY <1>1, FS_Interval
    <2>3. c \in Surjection(K, 1..n)
      BY <2>1, <2>2, FS_Injection
    <2> QED
      BY <2>3 DEF Surjection
  <1>8. r = [i \in 1..n |-> r[i]] /\ \A i \in 1..n : r[i] = CHOOSE k \in K : Cardinality({j \in K : j <= k}) = i
    <2>1. r = [i \in 1..n |-> CHOOSE k \in K : Cardinality({j \in K : j <= k}) = i]
      BY Zenon DEF Ranked
    <2> DEFINE e(i) == CHOOSE k \in K : Cardinality({j \in K : j <= k}) = i
    <2> HIDE DEF r, n, e
    <2>2. r = [i \in 1..n |-> e(i)]
      BY <2>1 DEF e
    <2>3. r = [i \in 1..n |-> r[i]] /\ \A i \in 1..n : r[i] = e(i)
      BY <2>2
    <2> QED
      BY <2>3, Zenon DEF e
  <1> HIDE DEF r, n
  <1>9. ASSUME NEW i \in 1..n PROVE r[i] \in K /\ c[r[i]] = i
    <2>1. r[i] = CHOOSE k \in K : Cardinality({j \in K : j <= k}) = i
      BY <1>8
    <2>2. \E k \in K : Cardinality({j \in K : j <= k}) = i
      BY <1>5, <1>7
    <2>3. r[i] \in K /\ Cardinality({j \in K : j <= r[i]}) = i
      BY <2>1, <2>2
    <2> QED
      BY <1>5, <2>3
  <1>10. IsList(r) /\ Len(r) = n
    BY <1>1, <1>8, ListOfFunction
  <1>11. ASSUME NEW i \in 1..n, NEW j \in 1..n, i < j PROVE r[i] < r[j]
    <2>1. r[i] \in K /\ c[r[i]] = i /\ r[j] \in K /\ c[r[j]] = j
      BY <1>9
    <2>2. i \in Int /\ j \in Int /\ i # j /\ ~(j < i)
      BY <1>1, <1>11
    <2>3. ~(r[j] < r[i])
      BY <1>3, <2>1, <2>2
    <2>4. r[j] # r[i]
      BY <2>1, <2>2
    <2>5. r[i] \in Int /\ r[j] \in Int
      BY <2>1
    <2> QED
      BY <2>3, <2>4, <2>5
  <1>12. ASSUME NEW k \in K PROVE \E i \in 1..n : r[i] = k
    <2>1. c[k] \in 1..n
      BY <1>4
    <2>2. r[c[k]] = k
      BY <1>6, <1>9, <2>1
    <2> QED
      BY <2>1, <2>2
  <1> QED
    BY <1>1, <1>9, <1>10, <1>11, <1>12 DEF r, n

LEMMA MinIs ==
  ASSUME NEW K \in SUBSET Int, IsFiniteSet(K), K # {}
  PROVE  Min(K) \in K /\ \A k \in K : Min(K) <= k
  <1> DEFINE n == Cardinality(K)
             r == Ranked(K)
  <1>1. /\ n \in Nat
        /\ \A i \in 1..n : r[i] \in K
        /\ \A i, j \in 1..n : i < j => r[i] < r[j]
        /\ \A k \in K : \E i \in 1..n : r[i] = k
    BY RankedIs
  <1> HIDE DEF r, n
  <1>2. 1 \in 1..n
    <2>1. PICK k \in K : TRUE
      OBVIOUS
    <2>2. PICK i \in 1..n : r[i] = k
      BY <1>1
    <2> QED
      BY <1>1, <2>2
  <1>3. ASSUME NEW k \in K PROVE r[1] <= k
    <2>1. PICK i \in 1..n : r[i] = k
      BY <1>1
    <2>2. CASE i = 1
      BY <2>1, <2>2
    <2>3. CASE 1 < i
      <3>1. r[1] < r[i] /\ r[1] \in Int /\ r[i] \in Int
        BY <1>1, <1>2, <2>3
      <3> QED
        BY <2>1, <3>1
    <2> QED
      BY <1>1, <2>2, <2>3
  <1>4. \E x \in K : \A y \in K : x <= y
    BY <1>1, <1>2, <1>3
  <1> QED
    BY <1>4 DEF Min

(* A side of the book that the exchange or a client can have.              *)
IsSide(side, b) ==
  /\ b = [k \in DOMAIN b |-> b[k]]
  /\ DOMAIN b \subseteq {Key(side, p) : p \in Prices}
  /\ \A k \in DOMAIN b : b[k] \in Sizes

LEMMA SideKeys ==
  ASSUME NEW side \in Sides, NEW K, K \subseteq {Key(side, p) : p \in Prices}
  PROVE  /\ K \subseteq Int /\ IsFiniteSet(K)
         /\ \A k \in K : PriceOf(side, k) \in Prices /\ Key(side, PriceOf(side, k)) = k
  <1> DEFINE S == {Key(side, p) : p \in Prices}
             f == [p \in Prices |-> Key(side, p)]
  <1>1. Prices \subseteq Int /\ IsFiniteSet(Prices)
    BY FeedAssumption
  <1>2. f \in Surjection(Prices, S)
    BY DEF Surjection
  <1>3. IsFiniteSet(S)
    BY <1>1, <1>2, FS_Surjection
  <1>4. IsFiniteSet(K)
    BY <1>3, FS_Subset
  <1>5. ASSUME NEW k \in K PROVE k \in Int /\ PriceOf(side, k) \in Prices /\ Key(side, PriceOf(side, k)) = k
    <2>1. PICK p \in Prices : k = Key(side, p)
      OBVIOUS
    <2>2. p \in Int
      BY <1>1
    <2>3. Key(side, p) \in Int /\ PriceOf(side, Key(side, p)) = p
      BY <2>2, Keys
    <2> QED
      BY <2>1, <2>3
  <1> QED
    BY <1>4, <1>5

-----------------------------------------------------------------------------
(* What the messages carry, and what they make of a book.                  *)

LEMMA LevelsAre ==
  ASSUME NEW side \in Sides, NEW b, IsSide(side, b)
  PROVE  LET r == Ranked(DOMAIN b)  v == Levels(side, b)
         IN  /\ IsList(v) /\ Len(v) = Len(r) /\ Len(r) \in Nat
             /\ \A i \in 1..Len(r) : /\ r[i] \in DOMAIN b /\ r[i] \in Int /\ b[r[i]] \in Nat \ {0}
                                     /\ Key(side, v[i].price) = r[i] /\ v[i].size = b[r[i]]
             /\ \A i, j \in 1..Len(r) : i < j => r[i] < r[j]
             /\ \A k \in DOMAIN b : \E i \in 1..Len(r) : r[i] = k
  <1> DEFINE r == Ranked(DOMAIN b)
             v == Levels(side, b)
             n == Len(r)
  <1>1. /\ DOMAIN b \subseteq Int /\ IsFiniteSet(DOMAIN b)
        /\ \A k \in DOMAIN b : Key(side, PriceOf(side, k)) = k
        /\ \A k \in DOMAIN b : b[k] \in Nat \ {0}
    <2>1. \A k \in DOMAIN b : b[k] \in Nat \ {0}
      BY FeedAssumption DEF IsSide
    <2> QED
      BY <2>1, SideKeys DEF IsSide
  <1>2. /\ IsList(r) /\ n \in Nat
        /\ \A i \in 1..n : r[i] \in DOMAIN b
        /\ \A i, j \in 1..n : i < j => r[i] < r[j]
        /\ \A k \in DOMAIN b : \E i \in 1..n : r[i] = k
    BY <1>1, RankedIs
  <1>3. v = [i \in 1..n |-> v[i]]
        /\ \A i \in 1..n : v[i] = [price |-> PriceOf(side, r[i]), size |-> b[r[i]]]
    BY DEF Levels
  <1> HIDE DEF r, v, n
  <1>4. IsList(v) /\ Len(v) = n
    BY <1>2, <1>3, ListOfFunction
  <1>5. ASSUME NEW i \in 1..n
        PROVE  /\ r[i] \in DOMAIN b /\ r[i] \in Int /\ b[r[i]] \in Nat \ {0}
               /\ Key(side, v[i].price) = r[i] /\ v[i].size = b[r[i]]
    <2>1. r[i] \in DOMAIN b /\ v[i].price = PriceOf(side, r[i]) /\ v[i].size = b[r[i]]
      BY <1>2, <1>3
    <2> QED
      BY <1>1, <2>1
  <1> QED
    BY <1>2, <1>4, <1>5 DEF r, v, n

LEMMA SnapshotIs ==
  ASSUME NEW side \in Sides, NEW b, IsSide(side, b)
  PROVE  FromSnapshot(side, Levels(side, b)) = b
  <1> DEFINE r == Ranked(DOMAIN b)
             v == Levels(side, b)
             n == Len(r)
  <1>1. /\ Len(v) = n /\ n \in Nat
        /\ \A i \in 1..n : r[i] \in DOMAIN b /\ Key(side, v[i].price) = r[i] /\ v[i].size = b[r[i]]
        /\ \A k \in DOMAIN b : \E i \in 1..n : r[i] = k
    BY LevelsAre
  <1> HIDE DEF r, v, n
  <1>2. PICK f : /\ f[0] = EmptySide /\ f[Len(v)] = FromSnapshot(side, v)
                 /\ \A i \in 1..Len(v) : f[i] = Put(side, f[i - 1], v[i])
    <2>1. Len(v) \in Nat
      BY <1>1
    <2> QED
      BY <2>1, SnapshotTurns
  <1> DEFINE Seen(i) == {r[j] : j \in 1..i}
             T == {i \in 0..n : f[i] = [k \in Seen(i) |-> b[k]]}
  <1>3. 0 \in T
    <2>1. Seen(0) = {}
      OBVIOUS
    <2> QED
      <3>1. [k \in Seen(0) |-> b[k]] = EmptySide
        BY <2>1 DEF EmptySide
      <3> HIDE DEF Seen
      <3> QED
        BY <1>1, <1>2, <3>1
  <1>4. ASSUME NEW i \in 1..n, i - 1 \in T PROVE i \in T
    <2>1. f[i - 1] = [k \in Seen(i - 1) |-> b[k]]
      BY <1>4
    <2>2. f[i] = [k \in DOMAIN f[i - 1] \cup {r[i]} |-> IF k = r[i] THEN b[r[i]] ELSE f[i - 1][k]]
      <3>1. f[i] = Put(side, f[i - 1], v[i]) /\ Key(side, v[i].price) = r[i] /\ v[i].size = b[r[i]]
        BY <1>1, <1>2, <1>4
      <3>2. Put(side, f[i - 1], v[i]) =
              [k \in DOMAIN f[i - 1] \cup {Key(side, v[i].price)} |->
                 IF k = Key(side, v[i].price) THEN v[i].size ELSE f[i - 1][k]]
        BY DEF Put
      <3> QED
        BY <3>1, <3>2
    <2>3. Seen(i) = Seen(i - 1) \cup {r[i]}
      <3>1. 1..i = (1..(i - 1)) \cup {i}
        BY <1>1, <1>4
      <3> QED
        BY <3>1
    <2> HIDE DEF Seen
    <2>4. DOMAIN f[i - 1] = Seen(i - 1) /\ \A k \in Seen(i - 1) : f[i - 1][k] = b[k]
      BY <2>1
    <2>5. f[i] = [k \in Seen(i) |-> IF k = r[i] THEN b[r[i]] ELSE f[i - 1][k]]
      BY <2>2, <2>3, <2>4
    <2>6. \A k \in Seen(i) : (IF k = r[i] THEN b[r[i]] ELSE f[i - 1][k]) = b[k]
      BY <2>3, <2>4
    <2>7. f[i] = [k \in Seen(i) |-> b[k]]
      BY <2>5, <2>6
    <2> QED
      BY <1>4, <2>7
  <1>5. Seen(n) = DOMAIN b
    <2>1. \A k \in Seen(n) : k \in DOMAIN b
      BY <1>1
    <2>2. \A k \in DOMAIN b : k \in Seen(n)
      BY <1>1
    <2> QED
      BY <2>1, <2>2
  <1> HIDE DEF T
  <1>6. n \in T
    <2>1. \A i \in 1..n : i - 1 \in T => i \in T
      BY <1>4
    <2>2. \A i \in 0..n : i \in T
      BY <1>1, <1>3, <2>1, Snapshot!Turns
    <2> QED
      BY <1>1, <2>2
  <1>7. f[n] = [k \in Seen(n) |-> b[k]]
    BY <1>6 DEF T
  <1> HIDE DEF Seen
  <1>8. f[n] = b
    BY <1>5, <1>7 DEF IsSide
  <1> QED
    BY <1>1, <1>2, <1>8 DEF v

LEMMA FastSnapshotIs ==
  ASSUME NEW side \in Sides, NEW b, IsSide(side, b)
  PROVE  LET arr == FastSnapshot(side, Levels(side, b))
         IN  Entries(arr) /\ Shows(arr, b, Len(arr) = MaxLevels)
  <1> DEFINE r == Ranked(DOMAIN b)
             v == Levels(side, b)
             n == Len(r)
             m == IF n < MaxLevels THEN n ELSE MaxLevels
             arr == FastSnapshot(side, v)
  <1>1. /\ Len(v) = n /\ n \in Nat
        /\ \A i \in 1..n : /\ r[i] \in DOMAIN b /\ r[i] \in Int /\ b[r[i]] \in Nat \ {0}
                           /\ Key(side, v[i].price) = r[i] /\ v[i].size = b[r[i]]
        /\ \A i, j \in 1..n : i < j => r[i] < r[j]
        /\ \A k \in DOMAIN b : \E i \in 1..n : r[i] = k
    BY LevelsAre
  <1>2. MaxLevels \in Nat
    BY MaxLevelsAssumption
  <1> HIDE DEF r, v, n
  <1>3. arr = [i \in 1..m |-> [key |-> Key(side, v[i].price), size |-> v[i].size]]
    BY <1>1 DEF FastSnapshot
  <1>4. m \in 0..MaxLevels /\ (\A i \in 1..m : i \in 1..n) /\ (m # MaxLevels => m = n)
    BY <1>1, <1>2
  <1> HIDE DEF arr, m
  <1>5. ASSUME NEW i \in 1..m
        PROVE  /\ arr[i] = [key |-> arr[i].key, size |-> arr[i].size]
               /\ arr[i].key = r[i] /\ arr[i].size = b[r[i]] /\ i \in 1..n
    <2>1. arr[i] = [key |-> Key(side, v[i].price), size |-> v[i].size]
      BY <1>3
    <2>2. i \in 1..n /\ Key(side, v[i].price) = r[i] /\ v[i].size = b[r[i]]
      BY <1>1, <1>4
    <2> QED
      BY <2>1, <2>2
  <1>6. arr = [i \in 1..m |-> arr[i]]
    BY <1>3
  <1>7. Entries(arr) /\ Len(arr) = m
    <2>1. ASSUME NEW i \in 1..m
          PROVE  /\ arr[i] = [key |-> arr[i].key, size |-> arr[i].size]
                 /\ arr[i].key \in Int /\ arr[i].size \in Nat \ {0}
      <3>1. r[i] \in Int /\ b[r[i]] \in Nat \ {0}
        BY <1>1, <1>5
      <3> QED
        BY <1>5, <3>1, Zenon
    <2>2. ASSUME NEW i \in 1..m, NEW j \in 1..m, i < j PROVE arr[i].key < arr[j].key
      <3>1. i \in 1..n /\ j \in 1..n /\ arr[i].key = r[i] /\ arr[j].key = r[j]
        BY <1>5, Zenon
      <3>2. r[i] < r[j]
        BY <1>1, <2>2, <3>1
      <3> QED
        BY <3>1, <3>2
    <2> QED
      BY <1>4, <1>6, <2>1, <2>2, EntriesFrom
  <1>8. ASSUME NEW i \in 1..m PROVE arr[i].key \in DOMAIN b /\ b[arr[i].key] = arr[i].size
    <2>1. i \in 1..n /\ arr[i].key = r[i] /\ arr[i].size = b[r[i]]
      BY <1>5, Zenon
    <2>2. r[i] \in DOMAIN b
      BY <1>1, <2>1
    <2> QED
      BY <2>1, <2>2
  <1>9. m # MaxLevels => \A k \in DOMAIN b : \E i \in 1..m : arr[i].key = k
    <2> SUFFICES ASSUME m # MaxLevels, NEW k \in DOMAIN b PROVE \E i \in 1..m : arr[i].key = k
      OBVIOUS
    <2>1. PICK i \in 1..n : r[i] = k
      BY <1>1
    <2>2. i \in 1..m /\ arr[i].key = r[i]
      BY <1>4, <1>5
    <2> QED
      BY <2>1, <2>2
  <1>10. Shows(arr, b, Len(arr) = MaxLevels)
    BY <1>7, <1>8, <1>9 DEF Shows
  <1> QED
    BY <1>7, <1>10 DEF arr, v

(* A side after a change of the market.                                    *)
MarketSide(side, b, change) ==
  LET kept == {k \in DOMAIN b : PriceOf(side, k) \notin DOMAIN change}
      set  == {Key(side, p) : p \in {q \in DOMAIN change : change[q] > 0}}
  IN  [k \in kept \cup set |-> IF k \in set THEN change[PriceOf(side, k)] ELSE b[k]]

LEMMA ChangesAre ==
  ASSUME NEW change \in Changes
  PROVE  /\ DOMAIN change \subseteq Prices /\ DOMAIN change \subseteq Int
         /\ \A p \in DOMAIN change : change[p] \in Nat /\ (change[p] > 0 => change[p] \in Sizes)
  <1>1. PICK ps \in SUBSET Prices : change \in [ps -> Sizes \cup {0}]
    BY DEF Changes
  <1>2. Prices \subseteq Int /\ Sizes \subseteq Nat
    BY FeedAssumption
  <1>3. DOMAIN change = ps
    BY <1>1
  <1>4. \A p \in ps : change[p] \in Sizes \cup {0}
    BY <1>1
  <1>5. Sizes \cup {0} \subseteq Nat
    BY <1>2
  <1>6. DOMAIN change \subseteq Prices /\ DOMAIN change \subseteq Int
    BY <1>2, <1>3
  <1>7. \A s \in Sizes \cup {0} : s > 0 => s \in Sizes
    OBVIOUS
  <1> QED
    BY <1>3, <1>4, <1>5, <1>6, <1>7

LEMMA DeltaAre ==
  ASSUME NEW side \in Sides, NEW change \in Changes
  PROVE  LET K == {Key(side, p) : p \in DOMAIN change}  r == Ranked(K)  v == DeltaOf(side, change).levels
         IN  /\ IsList(v) /\ Len(v) = Len(r) /\ Len(r) \in Nat
             /\ \A i \in 1..Len(r) : /\ r[i] \in K /\ Key(side, v[i].price) = r[i] /\ r[i] \in Int
                                     /\ v[i].size = change[PriceOf(side, r[i])] /\ v[i].size \in Nat
             /\ \A k \in K : \E i \in 1..Len(r) : r[i] = k
  <1> DEFINE K == {Key(side, p) : p \in DOMAIN change}
             r == Ranked(K)
             v == DeltaOf(side, change).levels
             n == Len(r)
  <1>1. DOMAIN change \subseteq Prices /\ \A p \in DOMAIN change : change[p] \in Nat
    BY ChangesAre
  <1>2. K \subseteq {Key(side, p) : p \in Prices}
    BY <1>1
  <1>3. ASSUME NEW k \in K PROVE PriceOf(side, k) \in DOMAIN change
    <2>1. PICK p \in DOMAIN change : k = Key(side, p)
      OBVIOUS
    <2>2. p \in Int
      BY ChangesAre
    <2> QED
      BY <2>1, <2>2, Keys
  <1>4. v = [i \in 1..n |-> v[i]]
        /\ \A i \in 1..n : v[i] = [price |-> PriceOf(side, r[i]), size |-> change[PriceOf(side, r[i])]]
    BY DEF DeltaOf
  <1> HIDE DEF K, v
  <1>5. K \subseteq Int /\ IsFiniteSet(K) /\ \A k \in K : Key(side, PriceOf(side, k)) = k
    BY <1>2, SideKeys
  <1>6. /\ n \in Nat
        /\ \A i \in 1..n : r[i] \in K
        /\ \A k \in K : \E i \in 1..n : r[i] = k
    BY <1>5, RankedIs
  <1> HIDE DEF r, n
  <1>7. IsList(v) /\ Len(v) = n
    BY <1>4, <1>6, ListOfFunction
  <1>8. ASSUME NEW i \in 1..n
        PROVE  /\ r[i] \in K /\ r[i] \in Int /\ Key(side, v[i].price) = r[i]
               /\ v[i].size = change[PriceOf(side, r[i])] /\ v[i].size \in Nat
    <2>1. r[i] \in K /\ v[i].price = PriceOf(side, r[i]) /\ v[i].size = change[PriceOf(side, r[i])]
      BY <1>4, <1>6
    <2> QED
      BY <1>1, <1>3, <1>5, <2>1
  <1> QED
    BY <1>6, <1>7, <1>8 DEF K, r, v, n

(* A delta makes of a book what the change made of the market's.           *)
LEMMA DeltaIs ==
  ASSUME NEW side \in Sides, NEW change \in Changes, NEW b, IsSide(side, b)
  PROVE  ApplyDelta(side, b, DeltaOf(side, change).levels) = MarketSide(side, b, change)
  <1> DEFINE K == {Key(side, p) : p \in DOMAIN change}
             r == Ranked(K)
             v == DeltaOf(side, change).levels
             n == Len(r)
             new(k) == change[PriceOf(side, k)]
  <1>1. /\ Len(v) = n /\ n \in Nat
        /\ \A i \in 1..n : /\ r[i] \in K /\ Key(side, v[i].price) = r[i]
                           /\ v[i].size = new(r[i]) /\ v[i].size \in Nat
        /\ \A k \in K : \E i \in 1..n : r[i] = k
    BY DeltaAre
  <1> HIDE DEF v, r, n, new
  <1>2. PICK f : /\ f[0] = b /\ f[Len(v)] = ApplyDelta(side, b, v)
                 /\ \A i \in 1..Len(v) : f[i] = Change(side, f[i - 1], v[i])
    <2>1. Len(v) \in Nat
      BY <1>1
    <2> QED
      BY <2>1, DeltaTurns
  <1> DEFINE Seen(i)  == {r[j] : j \in 1..i}
             There(i) == (DOMAIN b \ Seen(i)) \cup {k \in Seen(i) : new(k) > 0}
             Now(i)   == [k \in There(i) |-> IF k \in Seen(i) THEN new(k) ELSE b[k]]
             T == {i \in 0..n : f[i] = Now(i)}
  <1>3. 0 \in T
    <2>1. Seen(0) = {}
      OBVIOUS
    <2> HIDE DEF Seen
    <2>2. There(0) = DOMAIN b
      BY <2>1
    <2> HIDE DEF There
    <2>3. Now(0) = [k \in DOMAIN b |-> b[k]]
      BY <2>1, <2>2
    <2> HIDE DEF Now
    <2>4. Now(0) = b
      BY <2>3 DEF IsSide
    <2> QED
      BY <1>1, <1>2, <2>4
  <1>4. ASSUME NEW i \in 1..n, i - 1 \in T PROVE i \in T
    <2>1. f[i - 1] = Now(i - 1)
      BY <1>4
    <2>2. f[i] = Change(side, f[i - 1], v[i]) /\ Key(side, v[i].price) = r[i] /\ v[i].size = new(r[i])
          /\ new(r[i]) \in Nat
      BY <1>1, <1>2, <1>4
    <2>3. Seen(i) = Seen(i - 1) \cup {r[i]}
      <3>1. 1..i = (1..(i - 1)) \cup {i}
        BY <1>1, <1>4
      <3> QED
        BY <3>1
    <2> DEFINE g == f[i - 1]
    <2> HIDE DEF Seen
    <2>4. DOMAIN g = There(i - 1) /\ \A k \in There(i - 1) : g[k] = IF k \in Seen(i - 1) THEN new(k) ELSE b[k]
      BY <2>1
    <2> HIDE DEF g
    <2>5. CASE v[i].size = 0
      <3>1. f[i] = [k \in DOMAIN g \ {r[i]} |-> g[k]]
        <4>1. DOMAIN g \ {r[i]} \subseteq DOMAIN g
          OBVIOUS
        <4> QED
          BY <2>2, <2>5, <4>1 DEF Change, Restrict, g
      <3>2. There(i) = DOMAIN g \ {r[i]}
        <4>1. ~(new(r[i]) > 0)
          BY <2>2, <2>5
        <4>2. \A k \in There(i) : k \in There(i - 1) /\ k # r[i]
          BY <2>3, <4>1
        <4>3. \A k \in There(i - 1) : k # r[i] => k \in There(i)
          BY <2>3
        <4> QED
          BY <2>4, <4>2, <4>3
      <3>3. \A k \in There(i) : g[k] = IF k \in Seen(i) THEN new(k) ELSE b[k]
        BY <2>3, <2>4, <3>2
      <3> HIDE DEF There
      <3>4. f[i] = Now(i)
        BY <3>1, <3>2, <3>3
      <3> QED
        BY <1>4, <3>4
    <2>6. CASE v[i].size # 0
      <3>1. f[i] = [k \in DOMAIN g \cup {r[i]} |-> IF k = r[i] THEN new(r[i]) ELSE g[k]]
        BY <2>2, <2>6 DEF Change, Put, g
      <3>2. There(i) = DOMAIN g \cup {r[i]}
        BY <2>2, <2>3, <2>4, <2>6
      <3>3. \A k \in There(i) : (IF k = r[i] THEN new(r[i]) ELSE g[k])
                                = IF k \in Seen(i) THEN new(k) ELSE b[k]
        BY <2>3, <2>4, <3>2
      <3> HIDE DEF There
      <3>4. f[i] = Now(i)
        BY <3>1, <3>2, <3>3
      <3> QED
        BY <1>4, <3>4
    <2> QED
      BY <2>5, <2>6
  <1>5. Seen(n) = K
    <2>1. \A k \in Seen(n) : k \in K
      BY <1>1
    <2>2. \A k \in K : k \in Seen(n)
      BY <1>1
    <2> QED
      BY <2>1, <2>2
  <1> HIDE DEF T
  <1>6. n \in T
    <2>1. \A i \in 1..n : i - 1 \in T => i \in T
      BY <1>4
    <2>2. \A i \in 0..n : i \in T
      BY <1>1, <1>3, <2>1, Delta!Turns
    <2> QED
      BY <1>1, <2>2
  <1>7. f[n] = Now(n)
    BY <1>6 DEF T
  <1> DEFINE kept == {k \in DOMAIN b : PriceOf(side, k) \notin DOMAIN change}
             set  == {Key(side, p) : p \in {q \in DOMAIN change : change[q] > 0}}
  <1>8. \A k \in DOMAIN b : PriceOf(side, k) \in DOMAIN change <=> k \in K
    <2> TAKE k \in DOMAIN b
    <2>1. k \in Int /\ Key(side, PriceOf(side, k)) = k
      BY SideKeys DEF IsSide
    <2>2. ASSUME k \in K PROVE PriceOf(side, k) \in DOMAIN change
      <3>1. PICK p \in DOMAIN change : k = Key(side, p)
        BY <2>2
      <3>2. p \in Int
        BY ChangesAre
      <3> QED
        BY <3>1, <3>2, Keys
    <2> QED
      BY <2>1, <2>2
  <1>9. set = {k \in K : new(k) > 0} /\ set \subseteq K
    <2>1. \A p \in DOMAIN change : new(Key(side, p)) = change[p]
      BY ChangesAre, Keys DEF new
    <2> QED
      BY <2>1
  <1>10. kept = DOMAIN b \ K
    BY <1>8
  <1> HIDE DEF Seen, kept, set, K
  <1>11. There(n) = kept \cup set /\ \A k \in There(n) : k \in K <=> k \in set
    BY <1>5, <1>9, <1>10
  <1> HIDE DEF There
  <1>12. f[n] = [k \in kept \cup set |-> IF k \in set THEN new(k) ELSE b[k]]
    BY <1>5, <1>7, <1>11
  <1>13. f[n] = MarketSide(side, b, change)
    BY <1>12 DEF MarketSide, kept, set, new
  <1> QED
    BY <1>1, <1>2, <1>13 DEF v

LEMMA MarketIsSide ==
  ASSUME NEW side \in Sides, NEW change \in Changes, NEW b, IsSide(side, b)
  PROVE  IsSide(side, MarketSide(side, b, change))
  <1> DEFINE kept == {k \in DOMAIN b : PriceOf(side, k) \notin DOMAIN change}
             set  == {Key(side, p) : p \in {q \in DOMAIN change : change[q] > 0}}
             m    == MarketSide(side, b, change)
  <1>1. m = [k \in kept \cup set |-> IF k \in set THEN change[PriceOf(side, k)] ELSE b[k]]
    BY DEF MarketSide
  <1>2. kept \subseteq DOMAIN b
    OBVIOUS
  <1>3. set \subseteq {Key(side, p) : p \in Prices}
    BY ChangesAre
  <1>4. ASSUME NEW k \in set PROVE change[PriceOf(side, k)] \in Sizes
    <2>1. PICK p \in DOMAIN change : k = Key(side, p) /\ change[p] > 0
      OBVIOUS
    <2>2. p \in Int /\ change[p] \in Sizes
      BY <2>1, ChangesAre
    <2>3. PriceOf(side, k) = p
      BY <2>1, <2>2, Keys
    <2> QED
      BY <2>1, <2>2, <2>3
  <1> HIDE DEF kept, set, m
  <1> QED
    BY <1>1, <1>2, <1>3, <1>4 DEF IsSide, m

-----------------------------------------------------------------------------
(* What a message makes of both sides.                                     *)

IsBook(b) ==
  /\ b = [side \in Sides |-> b[side]]
  /\ \A side \in Sides : IsSide(side, b[side])

(* A message that the exchange sends.                                      *)
IsMessage(m) ==
  \/ \E b : IsBook(b) /\ m = SnapshotOf(b)
  \/ \E side \in Sides, change \in Changes : m = DeltaOf(side, change)

Changed(b, side, change) == [b EXCEPT ![side] = MarketSide(side, b[side], change)]

LEMMA NoBookIsBook == IsBook(NoBook)
  <1>1. \A side \in Sides : NoBook[side] = EmptySide
    BY DEF NoBook
  <1>2. NoBook = [side \in Sides |-> NoBook[side]]
    BY DEF NoBook
  <1>3. DOMAIN EmptySide = {} /\ EmptySide = [k \in DOMAIN EmptySide |-> EmptySide[k]]
    BY DEF EmptySide
  <1> QED
    BY <1>1, <1>2, <1>3 DEF IsBook, IsSide

LEMMA BookIsPresent ==
  ASSUME NEW b, IsBook(b)
  PROVE  b # Absent
  <1> DEFINE K == Prices \cup {-p : p \in Prices}
             F == UNION {[ks -> Sizes] : ks \in SUBSET K}
  <1>1. ASSUME NEW side \in Sides PROVE b[side] \in F
    <2>1. DOMAIN b[side] \subseteq {Key(side, p) : p \in Prices}
      BY DEF IsBook, IsSide
    <2>2. \A p \in Prices : Key(side, p) \in K
      BY DEF Key
    <2>3. DOMAIN b[side] \in SUBSET K
      BY <2>1, <2>2
    <2>4. b[side] \in [DOMAIN b[side] -> Sizes]
      BY DEF IsBook, IsSide
    <2> HIDE DEF K
    <2> QED
      BY <2>3, <2>4
  <1> HIDE DEF F
  <1>2. b \in [Sides -> F]
    BY <1>1 DEF IsBook
  <1>3. b \in Books
    BY <1>2 DEF Books, F
  <1> QED
    BY <1>3, FeedAssumption

LEMMA ChangedIsBook ==
  ASSUME NEW b, IsBook(b), NEW side \in Sides, NEW change \in Changes
  PROVE  IsBook(Changed(b, side, change))
  <1> DEFINE c == Changed(b, side, change)
             m == MarketSide(side, b[side], change)
  <1>1. IsSide(side, b[side])
    BY DEF IsBook
  <1>2. IsSide(side, m)
    BY <1>1, MarketIsSide
  <1>3. c = [b EXCEPT ![side] = m]
    BY DEF Changed
  <1> HIDE DEF m, c
  <1>4. DOMAIN b = Sides
    BY DEF IsBook
  <1>5. c = [s \in Sides |-> IF s = side THEN m ELSE b[s]]
    BY <1>3, <1>4
  <1>6. c = [s \in Sides |-> c[s]] /\ c[side] = m /\ \A s \in Sides : s # side => c[s] = b[s]
    BY <1>5
  <1>7. \A s \in Sides : IsSide(s, c[s])
    BY <1>2, <1>6 DEF IsBook
  <1> QED
    BY <1>6, <1>7 DEF IsBook, c

LEMMA AfterSnapshot ==
  ASSUME NEW v, NEW b, IsBook(b)
  PROVE  /\ After(v, SnapshotOf(b)) = b
         /\ SnapshotOf(b).kind = "snapshot"
         /\ \A side \in Sides : SnapshotOf(b).levels[side] = Levels(side, b[side])
  <1> DEFINE m == SnapshotOf(b)
  <1>1. m.kind = "snapshot" /\ \A side \in Sides : m.levels[side] = Levels(side, b[side])
    BY DEF SnapshotOf
  <1> HIDE DEF m
  <1>2. \A side \in Sides : FromSnapshot(side, m.levels[side]) = b[side]
    BY <1>1, SnapshotIs DEF IsBook
  <1>3. After(v, m) = [side \in Sides |-> FromSnapshot(side, m.levels[side])]
    BY <1>1 DEF After
  <1>4. [side \in Sides |-> FromSnapshot(side, m.levels[side])] = [side \in Sides |-> b[side]]
    BY <1>2
  <1>5. After(v, m) = b
    BY <1>3, <1>4 DEF IsBook
  <1> QED
    BY <1>1, <1>5 DEF m

LEMMA AfterDelta ==
  ASSUME NEW b, IsBook(b), NEW side \in Sides, NEW change \in Changes
  PROVE  /\ After(b, DeltaOf(side, change)) = Changed(b, side, change)
         /\ DeltaOf(side, change).kind = "delta" /\ DeltaOf(side, change).side = side
  <1> DEFINE m == DeltaOf(side, change)
  <1>1. m.kind = "delta" /\ m.side = side
    BY DEF DeltaOf
  <1>2. ApplyDelta(side, b[side], m.levels) = MarketSide(side, b[side], change)
    BY DeltaIs DEF IsBook
  <1> HIDE DEF m
  <1>3. After(b, m) = [b EXCEPT ![side] = ApplyDelta(side, b[side], m.levels)]
    BY <1>1 DEF After
  <1> QED
    BY <1>1, <1>2, <1>3 DEF Changed, m

LEMMA AfterIsBook ==
  ASSUME NEW b, IsBook(b), NEW m, IsMessage(m)
  PROVE  IsBook(After(b, m))
  <1>1. ASSUME NEW c, IsBook(c), m = SnapshotOf(c) PROVE IsBook(After(b, m))
    BY <1>1, AfterSnapshot
  <1>2. ASSUME NEW side \in Sides, NEW change \in Changes, m = DeltaOf(side, change)
        PROVE  IsBook(After(b, m))
    BY <1>2, AfterDelta, ChangedIsBook
  <1> QED
    BY <1>1, <1>2 DEF IsMessage

(* What the messages in flight lead to is what a client makes of them.     *)
LEMMA LeadsAfterwards ==
  ASSUME NEW v, NEW s, NEW w, Len(s) \in Nat, Leads(v, s, w)
  PROVE  Afterwards(v, s) = w
  <1> DEFINE l == Len(s)
             Steps(f) == f = [n \in 0..l |-> IF n = 0 THEN v ELSE After(f[n - 1], s[n])]
             r == CHOOSE f : Steps(f)
  <1>1. PICK h : IsLoop(h, v, s)
    BY LoopExists
  <1>2. Steps(h)
    <2>1. h = [n \in 0..l |-> h[n]] /\ h[0] = v
          /\ \A n \in 1..l : h[n] = After(h[n - 1], s[n])
      BY <1>1 DEF IsLoop
    <2>2. ASSUME NEW n \in 0..l
          PROVE  h[n] = IF n = 0 THEN v ELSE After(h[n - 1], s[n])
      BY <2>1, <2>2
    <2> QED
      BY <2>1, <2>2
  <1>3. Steps(r)
    BY <1>2
  <1>4. Afterwards(v, s) = r[l]
    BY DEF Afterwards
  <1> HIDE DEF r
  <1>5. \A n \in 0..l : r[n] = IF n = 0 THEN v ELSE After(r[n - 1], s[n])
    BY <1>3
  <1>6. r[0] = v /\ \A n \in 1..l : r[n] = After(r[n - 1], s[n])
    BY <1>5
  <1>7. PICK g : Path(g, v, s) /\ g[l] = w
    BY DEF Leads
  <1> DEFINE T == {n \in 0..l : r[n] = g[n]}
  <1>8. 0 \in T
    BY <1>6, <1>7 DEF Path
  <1>9. ASSUME NEW n \in 1..l, n - 1 \in T PROVE n \in T
    <2>1. r[n - 1] = g[n - 1] /\ r[n] = After(r[n - 1], s[n])
      BY <1>6, <1>9
    <2>2. g[n] = After(g[n - 1], s[n])
      BY <1>7 DEF Path
    <2> QED
      BY <1>9, <2>1, <2>2
  <1> HIDE DEF T
  <1>10. l \in T
    <2>1. \A n \in 1..l : n - 1 \in T => n \in T
      BY <1>9
    <2>2. l \in Nat
      OBVIOUS
    <2> HIDE DEF l
    <2>3. \A n \in 0..l : n \in T
      BY <1>8, <2>1, <2>2, Turns
    <2> QED
      BY <2>2, <2>3
  <1> QED
    BY <1>4, <1>7, <1>10 DEF T

-----------------------------------------------------------------------------
(* The invariant.                                                          *)

Sound ==
  /\ IsBook(exchange) /\ ~Crossed(exchange)
  /\ book # Absent => IsBook(book)
  /\ synced => book # Absent

InFlight ==
  /\ IsSeq(stream) /\ Len(stream) \in Nat
  /\ \A i \in 1..Len(stream) : IsMessage(stream[i])

(* There is a book that the messages in flight take to the exchange's, and *)
(* once a snapshot has been handled it is the client's.                    *)
Follows ==
  \E v : IsBook(v) /\ Leads(v, stream, exchange) /\ (synced => v = book)

Compiled ==
  /\ fast = [side \in Sides |-> fast[side]]
  /\ \A side \in Sides : Entries(fast[side])

Agrees ==
  synced => \A side \in Sides : Shows(fast[side], book[side], side \in wasFull)

FeedInv == Sound /\ InFlight /\ Follows /\ Compiled /\ Agrees

LEMMA FirstState == Init => FeedInv
  <1> SUFFICES ASSUME Init PROVE FeedInv
    OBVIOUS
  <1>1. Sound
    <2>1. ~Crossed(NoBook)
      BY DEF Crossed, NoBook, EmptySide, Sides
    <2> QED
      BY <2>1, NoBookIsBook DEF Init, Sound
  <1>2. InFlight
    <2>1. IsSeq(<<>>) /\ Len(<<>>) = 0
      BY LeadsFew
    <2> QED
      BY <2>1 DEF Init, InFlight
  <1>3. Follows
    <2>1. Leads(NoBook, <<>>, NoBook)
      BY LeadsFew
    <2> QED
      BY <2>1, NoBookIsBook DEF Init, Follows
  <1>4. Compiled
    <2>1. fast = [side \in Sides |-> <<>>]
      BY DEF Init
    <2>2. fast = [side \in Sides |-> fast[side]] /\ \A side \in Sides : fast[side] = <<>>
      BY <2>1
    <2>3. Entries(<<>>)
      <3>1. IsList(<<>>) /\ Len(<<>>) = 0 /\ 1..0 = {}
        BY DEF IsList
      <3>2. 0 <= MaxLevels
        BY MaxLevelsAssumption
      <3> HIDE DEF IsList
      <3> QED
        BY <3>1, <3>2 DEF Entries
    <2> QED
      BY <2>2, <2>3 DEF Compiled
  <1>5. Agrees
    BY DEF Init, Agrees
  <1> QED
    BY <1>1, <1>2, <1>3, <1>4, <1>5 DEF FeedInv

(* A message is appended behind what is in flight.                         *)
LEMMA Sent ==
  ASSUME InFlight, NEW m, IsMessage(m), stream' = Append(stream, m), NEW v, NEW w,
         Leads(v, stream, w)
  PROVE  InFlight' /\ Leads(v, stream', After(w, m))
  <1>1. IsSeq(<<m>>) /\ Leads(w, <<m>>, After(w, m))
    BY LeadsFew
  <1>2. PICK S : stream \in Seq(S)
    BY DEF InFlight, IsSeq
  <1>3. stream' = stream \o <<m>>
    <2> DEFINE T == S \cup {m}
    <2>1. stream \in Seq(T) /\ m \in T
      BY <1>2, SeqMonotonic
    <2> HIDE DEF T
    <2> QED
      BY <2>1, AppendIsConcat
  <1>4. /\ IsSeq(stream') /\ Len(stream) \in Nat /\ Len(stream') = Len(stream) + Len(<<m>>)
        /\ \A i \in 1..Len(stream) : stream'[i] = stream[i]
        /\ \A i \in 1..Len(<<m>>) : stream'[Len(stream) + i] = <<m>>[i]
    BY <1>1, <1>3, SeqConcat DEF InFlight
  <1>5. Len(<<m>>) = 1 /\ <<m>>[1] = m
    OBVIOUS
  <1>6. \A i \in 1..Len(stream') : IsMessage(stream'[i])
    <2> TAKE i \in 1..Len(stream')
    <2>1. CASE i \in 1..Len(stream)
      BY <1>4, <2>1 DEF InFlight
    <2>2. CASE i \notin 1..Len(stream)
      <3>1. i = Len(stream) + 1
        BY <1>4, <1>5, <2>2
      <3> QED
        BY <1>4, <1>5, <3>1
    <2> QED
      BY <2>1, <2>2
  <1>7. Leads(v, stream', After(w, m))
    BY <1>1, <1>3, LeadsConcat DEF InFlight
  <1>8. Len(stream') \in Nat
    BY <1>4, <1>5
  <1> QED
    BY <1>4, <1>6, <1>7, <1>8 DEF InFlight

(* The first message is taken.                                             *)
LEMMA Taken ==
  ASSUME InFlight, stream # <<>>, stream' = Tail(stream)
  PROVE  /\ InFlight' /\ IsMessage(Head(stream))
         /\ \A v, w : Leads(v, stream, w)
                        => Leads(After(v, Head(stream)), stream', w)
  <1>1. PICK S : stream \in Seq(S)
    BY DEF InFlight, IsSeq
  <1>2. /\ stream' \in Seq(S) /\ Len(stream') \in Nat /\ Len(stream) = Len(stream') + 1
        /\ Head(stream) = stream[1] /\ \A i \in 1..Len(stream') : stream'[i] = stream[i + 1]
    BY <1>1, HeadTailProperties, LenProperties
  <1>3. IsMessage(Head(stream)) /\ \A i \in 1..Len(stream') : IsMessage(stream'[i])
    BY <1>2 DEF InFlight
  <1>4. \A v, w : Leads(v, stream, w) => Leads(After(v, Head(stream)), stream', w)
    BY LeadsTail DEF InFlight
  <1> QED
    BY <1>2, <1>3, <1>4 DEF InFlight, IsSeq

(* Crossing is a matter of the keys alone.                                 *)
LEMMA MarketIs ==
  ASSUME NEW side, NEW change
  PROVE  Market(side, change) = Changed(exchange, side, change)
  BY DEF Market, Changed, MarketSide

LEMMA RequoteKeeps ==
  ASSUME FeedInv, NEW side \in Sides, NEW change \in Changes, Requote(side, change)
  PROVE  FeedInv'
  <1> DEFINE m == DeltaOf(side, change)
  <1>1. /\ exchange' = Market(side, change) /\ ~Crossed(Market(side, change))
        /\ stream' = Append(stream, m)
        /\ book' = book /\ fast' = fast /\ synced' = synced /\ wasFull' = wasFull
    BY DEF Requote
  <1>2. IsBook(exchange) /\ InFlight
    BY DEF FeedInv, Sound
  <1>3. exchange' = Changed(exchange, side, change)
    BY <1>1, MarketIs
  <1>4. exchange' = After(exchange, m) /\ IsBook(exchange')
    BY <1>2, <1>3, AfterDelta, ChangedIsBook
  <1>5. PICK v : IsBook(v) /\ Leads(v, stream, exchange) /\ (synced => v = book)
    BY DEF FeedInv, Follows
  <1>6. IsMessage(m)
    BY DEF IsMessage
  <1>7. InFlight' /\ Leads(v, stream', exchange')
    BY <1>1, <1>2, <1>4, <1>5, <1>6, Sent
  <1>8. Sound'
    BY <1>1, <1>4 DEF FeedInv, Sound
  <1>9. Follows'
    BY <1>1, <1>5, <1>7 DEF Follows
  <1>10. Compiled' /\ Agrees'
    BY <1>1 DEF FeedInv, Compiled, Agrees
  <1> QED
    BY <1>7, <1>8, <1>9, <1>10 DEF FeedInv

LEMMA SendSnapshotKeeps ==
  ASSUME FeedInv, SendSnapshot
  PROVE  FeedInv'
  <1> DEFINE m == SnapshotOf(exchange)
  <1>1. /\ exchange' = exchange /\ stream' = Append(stream, m)
        /\ book' = book /\ fast' = fast /\ synced' = synced /\ wasFull' = wasFull
    BY DEF SendSnapshot
  <1>2. IsBook(exchange) /\ InFlight
    BY DEF FeedInv, Sound
  <1>3. After(exchange, m) = exchange
    BY <1>2, AfterSnapshot
  <1>4. PICK v : IsBook(v) /\ Leads(v, stream, exchange) /\ (synced => v = book)
    BY DEF FeedInv, Follows
  <1>5. IsMessage(m)
    BY <1>2 DEF IsMessage
  <1>6. InFlight' /\ Leads(v, stream', exchange')
    BY <1>1, <1>2, <1>3, <1>4, <1>5, Sent
  <1>7. Sound' /\ Compiled' /\ Agrees'
    BY <1>1 DEF FeedInv, Sound, Compiled, Agrees
  <1>8. Follows'
    BY <1>1, <1>4, <1>6 DEF Follows
  <1> QED
    BY <1>6, <1>7, <1>8 DEF FeedInv

LEMMA ReconnectKeeps ==
  ASSUME FeedInv, Reconnect
  PROVE  FeedInv'
  <1>1. /\ exchange' = exchange /\ stream' = <<>> /\ synced' = FALSE
        /\ book' = book /\ fast' = fast /\ wasFull' = wasFull
    BY DEF Reconnect
  <1>2. InFlight'
    <2>1. IsSeq(<<>>) /\ Len(<<>>) = 0
      BY LeadsFew
    <2> QED
      BY <1>1, <2>1 DEF InFlight
  <1>3. Leads(exchange, <<>>, exchange)
    BY LeadsFew
  <1>4. Follows'
    BY <1>1, <1>3 DEF FeedInv, Sound, Follows
  <1>5. Sound' /\ Compiled' /\ Agrees'
    BY <1>1 DEF FeedInv, Sound, Compiled, Agrees
  <1> QED
    BY <1>2, <1>4, <1>5 DEF FeedInv

(* A snapshot makes the same of every book.                                *)
LEMMA HandleSnapshotKeeps ==
  ASSUME FeedInv, HandleSnapshot
  PROVE  FeedInv'
  <1> DEFINE m == Head(stream)
  <1>1. /\ stream # <<>> /\ m.kind = "snapshot" /\ stream' = Tail(stream) /\ exchange' = exchange
        /\ book' = [side \in Sides |-> FromSnapshot(side, m.levels[side])]
        /\ fast' = [side \in Sides |-> FastSnapshot(side, m.levels[side])]
        /\ synced' = TRUE /\ wasFull' = FullSides(fast')
    BY DEF HandleSnapshot
  <1>2. /\ InFlight' /\ IsMessage(m)
        /\ \A v, w : Leads(v, stream, w) => Leads(After(v, m), stream', w)
    BY <1>1, Taken DEF FeedInv
  <1> HIDE DEF m
  <1>3. PICK b : IsBook(b) /\ m = SnapshotOf(b)
    <2>1. ASSUME NEW side \in Sides, NEW change \in Changes, m = DeltaOf(side, change) PROVE FALSE
      BY <1>1, <2>1 DEF DeltaOf
    <2> QED
      BY <1>2, <2>1 DEF IsMessage
  <1>4. \A v : After(v, m) = b
    BY <1>3, AfterSnapshot
  <1>5. book' = b
    <2>1. After(exchange, m) = book'
      BY <1>1 DEF After
    <2> QED
      BY <1>4, <2>1
  <1>6. Follows'
    <2>1. PICK v : Leads(v, stream, exchange)
      BY DEF FeedInv, Follows
    <2>2. Leads(b, stream', exchange')
      BY <1>1, <1>2, <1>4, <2>1
    <2> QED
      BY <1>3, <1>5, <2>2 DEF Follows
  <1>7. Sound'
    BY <1>1, <1>3, <1>5, BookIsPresent DEF FeedInv, Sound
  <1>8. ASSUME NEW side \in Sides
        PROVE  Entries(fast'[side]) /\ Shows(fast'[side], book'[side], side \in wasFull')
    <2>1. fast'[side] = FastSnapshot(side, Levels(side, b[side]))
      BY <1>1, <1>3, AfterSnapshot
    <2> DEFINE arr == fast'[side]
    <2>2. Entries(arr) /\ Shows(arr, b[side], Len(arr) = MaxLevels)
      BY <1>3, <2>1, FastSnapshotIs DEF IsBook
    <2>3. side \in wasFull' <=> Len(arr) = MaxLevels
      BY <1>1 DEF FullSides
    <2> HIDE DEF arr
    <2>4. Shows(arr, b[side], side \in wasFull')
      BY <2>2, <2>3 DEF Shows
    <2> QED
      BY <1>5, <2>2, <2>4 DEF arr
  <1>9. Compiled'
    BY <1>1, <1>8 DEF Compiled
  <1>10. Agrees'
    BY <1>8 DEF Agrees
  <1> QED
    BY <1>2, <1>6, <1>7, <1>9, <1>10 DEF FeedInv

LEMMA HandleDeltaKeeps ==
  ASSUME FeedInv, HandleDelta
  PROVE  FeedInv'
  <1> DEFINE m == Head(stream)
  <1>1. /\ stream # <<>> /\ m.kind = "delta" /\ stream' = Tail(stream)
        /\ exchange' = exchange /\ synced' = synced
        /\ \/ book = Absent /\ book' = book
           \/ book # Absent /\ book' = [book EXCEPT ![m.side] = ApplyDelta(m.side, @, m.levels)]
        /\ fast' = [fast EXCEPT ![m.side] = FastDelta(m.side, @, m.levels)]
        /\ wasFull' = wasFull \cup Fills(m)
    BY DEF HandleDelta
  <1>2. /\ InFlight' /\ IsMessage(m)
        /\ \A v, w : Leads(v, stream, w) => Leads(After(v, m), stream', w)
    BY <1>1, Taken DEF FeedInv
  <1> HIDE DEF m
  <1>3. PICK side \in Sides, change \in Changes : m = DeltaOf(side, change)
    <2>1. ASSUME NEW b, IsBook(b), m = SnapshotOf(b) PROVE FALSE
      BY <1>1, <2>1, AfterSnapshot
    <2> QED
      BY <1>2, <2>1 DEF IsMessage
  <1>4. m.side = side
    BY <1>3 DEF DeltaOf
  <1>5. book # Absent => book' = After(book, m)
    BY <1>1 DEF After
  <1>6. Follows'
    <2>1. PICK v : IsBook(v) /\ Leads(v, stream, exchange) /\ (synced => v = book)
      BY DEF FeedInv, Follows
    <2>2. IsBook(After(v, m)) /\ Leads(After(v, m), stream', exchange')
      BY <1>1, <1>2, <2>1, AfterIsBook
    <2>3. synced' => After(v, m) = book'
      BY <1>1, <1>5, <2>1 DEF FeedInv, Sound
    <2> QED
      BY <2>2, <2>3 DEF Follows
  <1>7. Sound'
    <2>1. book # Absent => IsBook(book')
      BY <1>2, <1>5, AfterIsBook DEF FeedInv, Sound
    <2>2. book # Absent => book' # Absent
      BY <2>1, BookIsPresent
    <2> QED
      BY <1>1, <2>1, <2>2 DEF FeedInv, Sound
  <1> DEFINE v == m.levels
             arr == fast[side]
             f == FastSteps(side, arr, v)
  <1>8. Len(v) \in Nat /\ \A n \in 1..Len(v) : Key(side, v[n].price) \in Int /\ v[n].size \in Nat
    <2> DEFINE d == DeltaOf(side, change).levels
               r == Ranked({Key(side, p) : p \in DOMAIN change})
    <2>1. /\ Len(d) = Len(r) /\ Len(r) \in Nat
          /\ \A i \in 1..Len(r) : Key(side, d[i].price) = r[i] /\ r[i] \in Int /\ d[i].size \in Nat
      BY DeltaAre
    <2>2. v = d
      BY <1>3
    <2> HIDE DEF v, d, r
    <2> QED
      BY <2>1, <2>2
  <1>9. Entries(arr) /\ FastDelta(side, arr, v) = f[Len(v)]
    BY DEF FeedInv, Compiled, FastDelta
  <1>10. \A n \in 0..Len(v) : Entries(f[n])
    BY <1>8, <1>9, EntriesDelta
  <1>11. DOMAIN fast = Sides
    BY DEF FeedInv, Compiled
  <1>12. /\ fast' = [s \in Sides |-> fast'[s]]
         /\ fast'[side] = FastDelta(side, arr, v)
         /\ \A s \in Sides : s # side => fast'[s] = fast[s]
    BY <1>1, <1>4, <1>11
  <1>13. Compiled'
    <2>1. Entries(fast'[side])
      BY <1>8, <1>9, <1>10, <1>12
    <2>2. \A s \in Sides : Entries(fast'[s])
      BY <1>12, <2>1 DEF FeedInv, Compiled
    <2> QED
      BY <1>12, <2>2 DEF Compiled
  <1>14. Agrees'
    <2> SUFFICES ASSUME synced', NEW s \in Sides
                 PROVE  Shows(fast'[s], book'[s], s \in wasFull')
      BY DEF Agrees
    <2>1. /\ synced /\ book # Absent /\ IsBook(book)
          /\ book' = [book EXCEPT ![side] = ApplyDelta(side, book[side], v)]
      BY <1>1, <1>4 DEF FeedInv, Sound
    <2>2. DOMAIN book = Sides
      BY <2>1 DEF IsBook
    <2>3. Shows(fast[s], book[s], s \in wasFull)
      BY <2>1 DEF FeedInv, Agrees
    <2>4. CASE s # side
      <3>1. fast'[s] = fast[s] /\ book'[s] = book[s]
        BY <1>12, <2>1, <2>2, <2>4
      <3>2. s \in wasFull => s \in wasFull'
        BY <1>1
      <3> QED
        BY <2>3, <3>1, <3>2 DEF Shows
    <2>5. CASE s = side
      <3> DEFINE full == s \in wasFull'
      <3>1. fast'[s] = FastDelta(side, arr, v) /\ book'[s] = ApplyDelta(side, book[side], v)
        BY <1>12, <2>1, <2>2, <2>5
      <3>2. Shows(arr, book[side], full)
        BY <1>1, <2>3, <2>5 DEF Shows
      <3>3. (\E n \in 0..Len(v) : Len(f[n]) = MaxLevels) => full
        BY <1>1, <1>4, <2>5 DEF Fills
      <3> HIDE DEF full, v, arr
      <3>4. Shows(FastDelta(side, arr, v), ApplyDelta(side, book[side], v), full)
        BY <1>8, <1>9, <3>2, <3>3, ShowsDelta
      <3> QED
        BY <3>1, <3>4 DEF full
    <2> QED
      BY <2>4, <2>5
  <1> QED
    BY <1>2, <1>6, <1>7, <1>13, <1>14 DEF FeedInv

LEMMA FeedInductive == Spec => []FeedInv
  <1>1. Init => FeedInv
    BY FirstState
  <1>2. FeedInv /\ [Next]_vars => FeedInv'
    <2> SUFFICES ASSUME FeedInv, [Next]_vars PROVE FeedInv'
      OBVIOUS
    <2>1. CASE UNCHANGED vars
      BY <2>1 DEF vars, FeedInv, Sound, InFlight, Follows, Compiled, Agrees
    <2>2. ASSUME NEW side \in Sides, NEW change \in Changes, Requote(side, change) PROVE FeedInv'
      BY <2>2, RequoteKeeps
    <2>3. CASE SendSnapshot
      BY <2>3, SendSnapshotKeeps
    <2>4. CASE Reconnect
      BY <2>4, ReconnectKeeps
    <2>5. CASE HandleSnapshot
      BY <2>5, HandleSnapshotKeeps
    <2>6. CASE HandleDelta
      BY <2>6, HandleDeltaKeeps
    <2> QED
      BY <2>1, <2>2, <2>3, <2>4, <2>5, <2>6 DEF Next
  <1> QED
    BY <1>1, <1>2, PTL DEF Spec

-----------------------------------------------------------------------------
(* The best quotes.                                                        *)

LEMMA BestIs ==
  ASSUME NEW side \in Sides, NEW b, IsSide(side, b), b # EmptySide
  PROVE  /\ BestKey(b) \in DOMAIN b /\ BestKey(b) \in Int /\ b[BestKey(b)] \in Nat \ {0}
         /\ \A k \in DOMAIN b : k \in Int /\ BestKey(b) <= k
         /\ Key(side, PriceOf(side, BestKey(b))) = BestKey(b)
  <1>1. DOMAIN b # {}
    BY DEF IsSide, EmptySide
  <1>2. /\ DOMAIN b \subseteq Int /\ IsFiniteSet(DOMAIN b)
        /\ \A k \in DOMAIN b : Key(side, PriceOf(side, k)) = k
    BY SideKeys DEF IsSide
  <1>3. \A k \in DOMAIN b : b[k] \in Nat \ {0}
    BY FeedAssumption DEF IsSide
  <1>4. BestKey(b) \in DOMAIN b /\ \A k \in DOMAIN b : BestKey(b) <= k
    BY <1>1, <1>2, MinIs DEF BestKey
  <1> QED
    BY <1>2, <1>3, <1>4

(* The quote is the best level of the side it is applied to.               *)
LEMMA QuoteIsBest ==
  ASSUME NEW side \in Sides, NEW b, IsSide(side, b), NEW level,
         Key(side, level.price) \in Int, level.size \in Nat \ {0}
  PROVE  LET after == ApplyBbo(side, b, level)  best == Key(side, level.price)
         IN  /\ BestKey(after) = best
             /\ \A k \in DOMAIN after : k \in Int /\ k >= best
  <1> DEFINE best  == Key(side, level.price)
             kept  == {k \in DOMAIN b : k >= best}
             after == ApplyBbo(side, b, level)
  <1>1. DOMAIN after = kept \cup {best}
    <2>1. level.size > 0
      OBVIOUS
    <2>2. DOMAIN Restrict(b, kept) = kept
      BY DEF Restrict
    <2> QED
      BY <2>1, <2>2 DEF ApplyBbo, Put
  <1>2. kept \subseteq Int /\ IsFiniteSet(kept)
    <2>1. DOMAIN b \subseteq Int /\ IsFiniteSet(DOMAIN b)
      BY SideKeys DEF IsSide
    <2>2. kept \subseteq DOMAIN b
      OBVIOUS
    <2> HIDE DEF kept
    <2> QED
      BY <2>1, <2>2, FS_Subset
  <1>3. best \in Int /\ \A k \in kept : k >= best
    OBVIOUS
  <1> HIDE DEF kept, best, after
  <1> DEFINE K == DOMAIN after
  <1>4. K \subseteq Int /\ IsFiniteSet(K) /\ best \in K
    BY <1>1, <1>2, <1>3, FS_AddElement
  <1>5. ASSUME NEW k \in K PROVE k \in Int /\ k >= best
    <2>1. CASE k \in kept
      BY <1>2, <1>3, <2>1
    <2>2. CASE k = best
      BY <1>3, <2>2
    <2> QED
      BY <1>1, <2>1, <2>2
  <1> HIDE DEF K
  <1>6. Min(K) \in K /\ Min(K) <= best
    BY <1>4, MinIs
  <1>7. Min(K) = best
    <2>1. Min(K) \in Int /\ Min(K) >= best /\ best \in Int
      BY <1>3, <1>5, <1>6
    <2> HIDE DEF Min
    <2> QED
      BY <1>6, <2>1
  <1> QED
    BY <1>5, <1>7 DEF BestKey, K, after, best

LEMMA BboHolds == Sound => BboBecomesBest
  <1> SUFFICES ASSUME Sound, book # Absent, \A side \in Sides : exchange[side] # EmptySide
               PROVE  LET quote(side) == [price |-> PriceOf(side, BestKey(exchange[side])),
                                          size |-> exchange[side][BestKey(exchange[side])]]
                          after == [side \in Sides |-> ApplyBbo(side, book[side], quote(side))]
                      IN  /\ \A side \in Sides : BestKey(after[side]) = BestKey(exchange[side])
                          /\ ~Crossed(after)
    BY DEF BboBecomesBest
  <1> DEFINE best(side)  == BestKey(exchange[side])
             quote(side) == [price |-> PriceOf(side, best(side)), size |-> exchange[side][best(side)]]
             after == [side \in Sides |-> ApplyBbo(side, book[side], quote(side))]
  <1>1. ASSUME NEW side \in Sides
        PROVE  /\ best(side) \in DOMAIN exchange[side] /\ best(side) \in Int
               /\ BestKey(after[side]) = best(side)
               /\ \A k \in DOMAIN after[side] : k \in Int /\ k >= best(side)
    <2> DEFINE level == quote(side)
    <2>1. IsSide(side, exchange[side]) /\ IsSide(side, book[side])
      BY DEF Sound, IsBook
    <2>2. /\ best(side) \in DOMAIN exchange[side] /\ best(side) \in Int
          /\ exchange[side][best(side)] \in Nat \ {0}
          /\ Key(side, PriceOf(side, best(side))) = best(side)
      BY <2>1, BestIs
    <2>3. level.size \in Nat \ {0} /\ Key(side, level.price) = best(side)
      BY <2>2
    <2>4. after[side] = ApplyBbo(side, book[side], level)
      OBVIOUS
    <2> HIDE DEF level, after, best
    <2>5. /\ BestKey(ApplyBbo(side, book[side], level)) = Key(side, level.price)
          /\ \A k \in DOMAIN ApplyBbo(side, book[side], level) : k \in Int /\ k >= Key(side, level.price)
      BY <2>1, <2>2, <2>3, QuoteIsBest
    <2> QED
      BY <2>2, <2>3, <2>4, <2>5
  <1> HIDE DEF after, best
  <1>2. ~Crossed(after)
    <2> SUFFICES ASSUME NEW k \in DOMAIN after["bid"], NEW j \in DOMAIN after["ask"],
                        PriceOf("bid", k) >= j
                 PROVE  FALSE
      BY DEF Crossed
    <2>1. "bid" \in Sides /\ "ask" \in Sides
      BY DEF Sides
    <2>2. /\ best("bid") \in DOMAIN exchange["bid"] /\ best("bid") \in Int
          /\ k \in Int /\ k >= best("bid")
      BY <1>1, <2>1
    <2>3. /\ best("ask") \in DOMAIN exchange["ask"] /\ best("ask") \in Int
          /\ j \in Int /\ j >= best("ask")
      BY <1>1, <2>1
    <2>4. PriceOf("bid", best("bid")) = -best("bid") /\ PriceOf("bid", k) = -k
      BY DEF PriceOf
    <2>5. ~(PriceOf("bid", best("bid")) >= best("ask"))
      BY <2>2, <2>3 DEF Sound, Crossed
    <2> QED
      BY <2>2, <2>3, <2>4, <2>5
  <1> QED
    BY <1>1, <1>2 DEF after, best

-----------------------------------------------------------------------------
(* The queries of the compiled book.                                       *)

SizesOf(arr) == [i \in 1..Len(arr) |-> arr[i].size]

LEMMA SizesAre ==
  ASSUME NEW arr, Entries(arr)
  PROVE  /\ IsFiniteSet(1..Len(arr))
         /\ \A i \in 1..Len(arr) : SizesOf(arr)[i] = arr[i].size /\ SizesOf(arr)[i] \in Nat \ {0}
  <1>1. Len(arr) \in Nat /\ \A i \in 1..Len(arr) : arr[i].size \in Nat \ {0}
    BY EntriesAre
  <1>2. IsFiniteSet(1..Len(arr))
    BY <1>1, FS_Interval
  <1> QED
    BY <1>1, <1>2 DEF SizesOf

LEMMA KeysDiffer ==
  ASSUME NEW arr, Entries(arr), NEW i \in 1..Len(arr), NEW j \in 1..Len(arr),
         arr[i].key = arr[j].key
  PROVE  i = j
  <1>1. /\ Len(arr) \in Nat /\ arr[i].key \in Int /\ arr[j].key \in Int
        /\ i < j => arr[i].key < arr[j].key
        /\ j < i => arr[j].key < arr[i].key
    BY EntriesAre
  <1> QED
    BY <1>1

LEMMA MapSumIs ==
  ASSUME NEW arr, Entries(arr), NEW S \in SUBSET (1..Len(arr))
  PROVE  MapThenSumSet(LAMBDA i : arr[i].size, S) = SumFunctionOnSet(SizesOf(arr), S)
  <1> DEFINE f == SizesOf(arr)
             IsIt(t) == t = [s \in SUBSET S |->
                               IF s = {} THEN 0 ELSE arr[Choice(s)].size + t[s \ {Choice(s)}]]
             sum == CHOOSE t : IsIt(t)
  <1>1. MapThenSumSet(LAMBDA i : arr[i].size, S) = sum[S]
    BY DEF MapThenSumSet, MapThenFoldSet, Choice
  <1>2. IsFiniteSet(S) /\ \A s \in SUBSET S : s # {} => f[Choice(s)] = arr[Choice(s)].size
    BY SizesAre, FS_Subset, ChoiceIn
  <1>3. \A t : IsIt(t) <=> IsTotal(t, f, S)
    <2> HIDE DEF f
    <2> QED
      BY <1>2 DEF IsTotal
  <1>4. IsIt(sum)
    <2>1. PICK t : IsTotal(t, f, S)
      BY <1>2, TotalExists
    <2> HIDE DEF IsIt
    <2> QED
      BY <1>3, <2>1
  <1> HIDE DEF sum, IsIt
  <1>5. sum[S] = SumFunctionOnSet(f, S)
    BY <1>2, <1>3, <1>4, TotalIsSum
  <1> QED
    BY <1>1, <1>5

LEMMA SideOfIs ==
  ASSUME NEW arr, Entries(arr)
  PROVE  /\ DOMAIN SideOf(arr) = {arr[i].key : i \in 1..Len(arr)}
         /\ \A i \in 1..Len(arr) : SideOf(arr)[arr[i].key] = arr[i].size
  <1>1. Range(arr) = {arr[i] : i \in 1..Len(arr)}
    BY EntriesAre DEF Range
  <1>2. DOMAIN SideOf(arr) = {arr[i].key : i \in 1..Len(arr)}
    BY <1>1 DEF SideOf
  <1>3. ASSUME NEW i \in 1..Len(arr) PROVE SideOf(arr)[arr[i].key] = arr[i].size
    <2> DEFINE e == CHOOSE x \in Range(arr) : x.key = arr[i].key
    <2>1. e \in Range(arr) /\ e.key = arr[i].key
      BY <1>1
    <2>2. PICK j \in 1..Len(arr) : e = arr[j]
      BY <1>1, <2>1
    <2>3. j = i
      BY <2>1, <2>2, KeysDiffer
    <2>4. SideOf(arr)[arr[i].key] = e.size
      BY <1>1 DEF SideOf
    <2> QED
      BY <2>2, <2>3, <2>4
  <1> QED
    BY <1>2, <1>3

(* The total to a price, as one of the entries within it.                  *)
Within(arr, k) == {i \in 1..Len(arr) : arr[i].key <= k}

LEMMA TotalIsWithin ==
  ASSUME NEW arr, Entries(arr), NEW S \in SUBSET (1..Len(arr))
  PROVE  SumFunctionOnSet(SideOf(arr), {arr[i].key : i \in S}) = SumFunctionOnSet(SizesOf(arr), S)
  <1> DEFINE B == 1..Len(arr)
             k == [i \in B |-> arr[i].key]
             f == SideOf(arr)
             g == SizesOf(arr)
  <1>1. \A x \in B : k[x] = arr[x].key
    OBVIOUS
  <1> HIDE DEF k
  <1>2. IsFiniteSet(B) /\ \A x \in B : g[x] = f[k[x]] /\ g[x] \in Int
    <2>1. \A x \in B : g[x] = arr[x].size /\ g[x] \in Int
      BY SizesAre
    <2>2. \A x \in B : f[arr[x].key] = arr[x].size
      BY SideOfIs
    <2> QED
      BY <1>1, <2>1, <2>2, SizesAre
  <1>3. \A x, y \in B : k[x] = k[y] => x = y
    BY <1>1, KeysDiffer
  <1> HIDE DEF f, g
  <1>4. \A s \in SUBSET B : SumFunctionOnSet(f, {k[x] : x \in s}) = SumFunctionOnSet(g, s)
    <2> HIDE DEF B
    <2>1. /\ \A x, y \in B : k[x] = k[y] => x = y
          /\ \A x \in B : g[x] = f[k[x]] /\ g[x] \in Int
          /\ IsFiniteSet(B)
      BY <1>2, <1>3
    <2> QED
      BY <2>1, SumImage
  <1>5. {k[x] : x \in S} = {arr[x].key : x \in S}
    BY <1>1
  <1>6. SumFunctionOnSet(f, {arr[x].key : x \in S}) = SumFunctionOnSet(g, S)
    BY <1>4, <1>5
  <1> QED
    BY <1>6 DEF f, g

LEMMA TotalToIs ==
  ASSUME NEW side \in Sides, NEW arr, Entries(arr), NEW p \in Int
  PROVE  TotalTo(side, SideOf(arr), p) = SumFunctionOnSet(SizesOf(arr), Within(arr, Key(side, p)))
  <1>1. {k \in DOMAIN SideOf(arr) : k <= Key(side, p)} = {arr[i].key : i \in Within(arr, Key(side, p))}
    <2>1. DOMAIN SideOf(arr) = {arr[i].key : i \in 1..Len(arr)}
      BY SideOfIs
    <2> QED
      BY <2>1 DEF Within
  <1>2. Within(arr, Key(side, p)) \in SUBSET (1..Len(arr))
    BY DEF Within
  <1> QED
    BY <1>1, <1>2, TotalIsWithin DEF TotalTo

LEMMA FastDepthIs ==
  ASSUME NEW side \in Sides, NEW arr, Entries(arr), NEW p \in Int
  PROVE  FastDepth(side, arr, p) = TotalTo(side, SideOf(arr), p)
  <1> DEFINE In(i) == IF side = "bid" THEN PriceOf(side, arr[i].key) >= p
                                      ELSE PriceOf(side, arr[i].key) <= p
             walked == {i \in 1..Len(arr) : \A j \in 1..i : In(j)}
             K == Key(side, p)
  <1>1. FastDepth(side, arr, p) = MapThenSumSet(LAMBDA i : arr[i].size, walked)
    BY DEF FastDepth
  <1>2. \A i \in 1..Len(arr) : In(i) <=> arr[i].key <= K
    <2>1. \A i \in 1..Len(arr) : arr[i].key \in Int
      BY EntriesAre
    <2> QED
      BY <2>1 DEF PriceOf, Key, Sides
  <1>3. \A i, j \in 1..Len(arr) : i < j => arr[i].key < arr[j].key /\ arr[i].key \in Int /\ arr[j].key \in Int
    BY EntriesAre
  <1>4. K \in Int /\ Len(arr) \in Nat
    BY Keys, EntriesAre
  <1> HIDE DEF In, K
  <1>5. walked = Within(arr, K)
    <2>1. ASSUME NEW i \in 1..Len(arr), arr[i].key <= K, NEW j \in 1..i PROVE In(j)
      <3>1. j \in 1..Len(arr) /\ (j = i \/ j < i)
        BY <1>4
      <3>2. arr[j].key <= K
        BY <1>3, <1>4, <2>1, <3>1
      <3> QED
        BY <1>2, <3>1, <3>2
    <2>2. ASSUME NEW i \in 1..Len(arr), \A j \in 1..i : In(j) PROVE arr[i].key <= K
      <3>1. i \in 1..i
        BY <1>4
      <3> QED
        BY <1>2, <2>2, <3>1
    <2> QED
      BY <2>1, <2>2 DEF Within
  <1>6. walked \in SUBSET (1..Len(arr))
    OBVIOUS
  <1> HIDE DEF walked
  <1>7. MapThenSumSet(LAMBDA i : arr[i].size, walked) = SumFunctionOnSet(SizesOf(arr), walked)
    BY <1>6, MapSumIs
  <1> QED
    BY <1>1, <1>5, <1>7, TotalToIs DEF K

LEMMA MaxIs ==
  ASSUME NEW l \in Nat, NEW s \in SUBSET (1..l), s # {}
  PROVE  Max(s) \in s /\ \A k \in s : k <= Max(s)
  <1> DEFINE U == {m \in Nat : \A k \in s : k <= m}
  <1>1. U \in SUBSET Nat /\ l \in U
    OBVIOUS
  <1>2. PICK m \in U : \A k \in U : m <= k
    BY <1>1, Least
  <1>3. m \in s
    <2>1. PICK x \in s : TRUE
      OBVIOUS
    <2>2. x \in 1..l /\ x <= m /\ m \in Nat
      BY <2>1
    <2>3. ASSUME m \notin s PROVE FALSE
      <3>1. \A k \in s : k <= m - 1
        BY <2>3
      <3>2. m - 1 \in U
        BY <2>2, <3>1
      <3> QED
        BY <1>2, <2>2, <3>2
    <2> QED
      BY <2>3
  <1>4. \A k \in s : m >= k
    BY <1>2
  <1>5. \E x \in s : \A y \in s : x >= y
    BY <1>3, <1>4
  <1>6. Max(s) \in s /\ \A y \in s : Max(s) >= y
    BY <1>5 DEF Max
  <1> QED
    BY <1>6

(* A sum that is counted along a list.                                     *)
Counting(sum, e) == sum + e.size
Count == INSTANCE SharedLemmas WITH Effect <- Counting

LEMMA SizeSums ==
  ASSUME NEW arr, Entries(arr)
  PROVE  \A S \in SUBSET (1..Len(arr)) :
           /\ SumFunctionOnSet(SizesOf(arr), S) \in Int
           /\ S = {} => SumFunctionOnSet(SizesOf(arr), S) = 0
           /\ \A x \in S : SumFunctionOnSet(SizesOf(arr), S)
                              = arr[x].size + SumFunctionOnSet(SizesOf(arr), S \ {x})
  <1> DEFINE f == SizesOf(arr)
             B == 1..Len(arr)
  <1>1. IsFiniteSet(B) /\ \A x \in B : f[x] \in Int /\ f[x] = arr[x].size
    BY SizesAre
  <1> HIDE DEF f, B
  <1>2. \A S \in SUBSET B :
          /\ SumFunctionOnSet(f, S) \in Int
          /\ S = {} => SumFunctionOnSet(f, S) = 0
          /\ \A x \in S : SumFunctionOnSet(f, S) = f[x] + SumFunctionOnSet(f, S \ {x})
    BY <1>1, SumFacts
  <1>3. \A S \in SUBSET B : \A x \in S : f[x] = arr[x].size
    BY <1>1
  <1> QED
    BY <1>2, <1>3 DEF f, B

LEMMA CumulativeIs ==
  ASSUME NEW arr, Entries(arr), NEW i \in 1..Len(arr)
  PROVE  Cumulative(arr, i) = SumFunctionOnSet(SizesOf(arr), 1..i)
  <1> DEFINE sub == SubSeq(arr, 1, i)
             D == DOMAIN sub
             IsIt(t) == t = [s \in SUBSET D |->
                               IF s = {} THEN 0 ELSE t[s \ {Max(s)}] + sub[Max(s)].size]
             it == CHOOSE t : IsIt(t)
  <1>1. Cumulative(arr, i) = it[D]
    BY DEF Cumulative, FoldLeft, MapThenFoldSet
  <1>2. D = 1..i /\ \A j \in 1..i : sub[j] = arr[j]
    <2>1. arr \in Seq(Range(arr)) /\ Len(arr) \in Nat
      BY EntriesAre DEF Entries, IsList
    <2>2. 1 \in 1..Len(arr) + 1 /\ i \in 0..Len(arr) /\ i \in Nat
      BY <2>1
    <2> HIDE DEF sub
    <2>3. sub \in Seq(Range(arr)) /\ Len(sub) = i /\ \A j \in 1..i : sub[j] = arr[j]
      BY <2>1, <2>2, SubSeqProperties DEF sub
    <2> QED
      BY <2>3, LenProperties
  <1>3. i \in Nat /\ i \in 1..Len(arr) /\ Len(arr) \in Nat
    BY EntriesAre
  <1> HIDE DEF sub, D
  <1> DEFINE pick == [s \in SUBSET D |-> Max(s)]
  <1>4. \A s \in SUBSET D : pick[s] = Max(s) /\ (s # {} => pick[s] \in s /\ \A k \in s : k <= pick[s])
    BY <1>2, <1>3, MaxIs
  <1> HIDE DEF pick
  <1>5. \A t : IsIt(t) <=> Count!IsLeftFold(t, pick, 0, sub, i)
    <2>1. \A t : \A s \in SUBSET D :
            Counting(t[s \ {pick[s]}], sub[pick[s]]) = t[s \ {Max(s)}] + sub[Max(s)].size
      BY <1>4 DEF Counting
    <2> QED
      BY <1>2, <2>1 DEF Count!IsLeftFold
  <1>6. Count!PicksGreatest(pick, i)
    BY <1>2, <1>4 DEF Count!PicksGreatest
  <1>7. Count!IsLeftFold(it, pick, 0, sub, i)
    <2>1. PICK t : Count!IsLeftFold(t, pick, 0, sub, i)
      BY <1>3, <1>6, Count!LeftFoldExists
    <2>2. IsIt(t)
      BY <1>5, <2>1
    <2> HIDE DEF IsIt
    <2> QED
      BY <1>5, <2>2
  <1> HIDE DEF it, IsIt
  <1>8. it[1..0] = 0 /\ \A n \in 1..i : it[1..n] = Counting(it[1..(n - 1)], sub[n])
    <2>1. Count!Onward(it, 0, sub, i)
      BY <1>3, <1>6, <1>7, Count!LeftFold, Zenon
    <2> QED
      BY <2>1, Zenon DEF Count!Onward
  <1> DEFINE sum(s) == SumFunctionOnSet(SizesOf(arr), s)
             T == {n \in 0..i : it[1..n] = sum(1..n)}
  <1>9. \A s \in SUBSET (1..Len(arr)) :
          /\ sum(s) \in Int
          /\ s = {} => sum(s) = 0
          /\ \A x \in s : sum(s) = arr[x].size + sum(s \ {x})
    BY SizeSums
  <1> HIDE DEF sum
  <1>10. 0 \in T
    <2>1. sum(1..0) = 0
      BY <1>9
    <2>2. it[1..0] = sum(1..0)
      BY <1>8, <2>1
    <2> QED
      BY <1>3, <2>2
  <1>11. ASSUME NEW n \in 1..i, n - 1 \in T PROVE n \in T
    <2>1. n \in 1..n /\ 1..n \in SUBSET (1..Len(arr)) /\ (1..n) \ {n} = 1..(n - 1)
      BY <1>3
    <2>2. sum(1..n) = arr[n].size + sum(1..(n - 1)) /\ sum(1..(n - 1)) \in Int
      <3>1. sum(1..n) = arr[n].size + sum((1..n) \ {n}) /\ sum((1..n) \ {n}) \in Int
        BY <1>9, <2>1
      <3> QED
        BY <2>1, <3>1
    <2>3. it[1..n] = it[1..(n - 1)] + arr[n].size /\ it[1..(n - 1)] = sum(1..(n - 1))
      BY <1>2, <1>8, <1>11 DEF Counting
    <2>4. arr[n].size \in Int
      <3>1. n \in 1..Len(arr)
        BY <1>3
      <3>2. \A j \in 1..Len(arr) : arr[j].size \in Nat \ {0}
        BY EntriesAre
      <3> QED
        BY <3>1, <3>2
    <2>5. it[1..n] = sum(1..n)
      BY <2>2, <2>3, <2>4
    <2> QED
      BY <2>5
  <1> HIDE DEF T
  <1>12. \A n \in 0..i : n \in T
    BY <1>3, <1>10, <1>11, Turns
  <1>13. it[1..i] = sum(1..i)
    BY <1>3, <1>12 DEF T
  <1> QED
    BY <1>1, <1>2, <1>13 DEF sum

LEMMA TotalAtLevel ==
  ASSUME NEW side \in Sides, NEW arr, Entries(arr), NEW i \in 1..Len(arr)
  PROVE  /\ TotalTo(side, SideOf(arr), PriceOf(side, arr[i].key)) = Cumulative(arr, i)
         /\ Cumulative(arr, i) \in Int
         /\ Key(side, PriceOf(side, arr[i].key)) = arr[i].key
         /\ arr[i].key \in Int
  <1> DEFINE k == arr[i].key
  <1>1. Len(arr) \in Nat /\ \A j \in 1..Len(arr) : arr[j].key \in Int
    BY EntriesAre
  <1>2. \A h, j \in 1..Len(arr) : h < j => arr[h].key < arr[j].key
    BY EntriesAre
  <1>3. k \in Int /\ PriceOf(side, k) \in Int /\ Key(side, PriceOf(side, k)) = k
    BY <1>1, Keys
  <1>4. Within(arr, k) = 1..i
    <2>1. ASSUME NEW j \in 1..Len(arr) PROVE arr[j].key <= k <=> j <= i
      <3>1. j < i => arr[j].key < k
        BY <1>2
      <3>2. i < j => k < arr[j].key
        BY <1>2
      <3>3. j = i \/ j < i \/ i < j
        BY <1>1
      <3>4. arr[j].key \in Int
        BY <1>1
      <3> HIDE DEF k
      <3>5. j = i => arr[j].key = k
        BY DEF k
      <3> QED
        BY <1>1, <1>3, <3>1, <3>2, <3>3, <3>4, <3>5
    <2> HIDE DEF k
    <2> QED
      BY <1>1, <2>1 DEF Within
  <1> HIDE DEF k
  <1>5. TotalTo(side, SideOf(arr), PriceOf(side, k)) = SumFunctionOnSet(SizesOf(arr), 1..i)
    BY <1>3, <1>4, TotalToIs
  <1>6. Cumulative(arr, i) = SumFunctionOnSet(SizesOf(arr), 1..i)
    BY CumulativeIs
  <1>7. SumFunctionOnSet(SizesOf(arr), 1..i) \in Int
    <2>1. 1..i \in SUBSET (1..Len(arr))
      BY <1>1
    <2> QED
      BY <2>1, SizeSums
  <1> QED
    BY <1>3, <1>5, <1>6, <1>7 DEF k

LEMMA WholeIs ==
  ASSUME NEW arr, Entries(arr), arr # <<>>
  PROVE  /\ Len(arr) \in 1..Len(arr) /\ Len(arr) \in Nat
         /\ SumFunction(SideOf(arr)) = Cumulative(arr, Len(arr))
  <1>1. Len(arr) \in Nat /\ arr = [i \in 1..Len(arr) |-> arr[i]]
    BY EntriesAre
  <1>2. Len(arr) # 0
    BY <1>1, EmptySeq DEF Entries, IsList
  <1>3. Len(arr) \in 1..Len(arr)
    BY <1>1, <1>2
  <1>4. SumFunctionOnSet(SideOf(arr), {arr[i].key : i \in 1..Len(arr)})
          = SumFunctionOnSet(SizesOf(arr), 1..Len(arr))
    BY TotalIsWithin
  <1>5. DOMAIN SideOf(arr) = {arr[i].key : i \in 1..Len(arr)}
    BY SideOfIs
  <1>6. Cumulative(arr, Len(arr)) = SumFunctionOnSet(SizesOf(arr), 1..Len(arr))
    BY <1>3, CumulativeIs
  <1> QED
    BY <1>1, <1>3, <1>4, <1>5, <1>6 DEF SumFunction

LEMMA SweepIs ==
  ASSUME NEW side \in Sides, NEW arr, Entries(arr), arr # <<>>, NEW size \in Int
  PROVE  LET p     == SweepPrice(side, arr, size)
             whole == SumFunction(SideOf(arr))
         IN  /\ TotalTo(side, SideOf(arr), p) >= Min({size, whole})
             /\ \A e \in Range(arr) : e.key < Key(side, p)
                  => TotalTo(side, SideOf(arr), PriceOf(side, e.key)) < size
  <1> DEFINE n == Len(arr)
             cum(i) == Cumulative(arr, i)
             total(i) == TotalTo(side, SideOf(arr), PriceOf(side, arr[i].key))
             enough == {i \in 1..n : cum(i) >= size}
             last == IF enough = {} THEN n ELSE Min(enough)
             whole == SumFunction(SideOf(arr))
             p == SweepPrice(side, arr, size)
  <1>1. n \in Nat /\ n \in 1..n /\ whole = cum(n)
    BY WholeIs
  <1>2. p = PriceOf(side, arr[last].key)
    BY DEF SweepPrice
  <1>3. \A i \in 1..n : total(i) = cum(i) /\ cum(i) \in Int /\ arr[i].key \in Int
                        /\ Key(side, PriceOf(side, arr[i].key)) = arr[i].key
    BY TotalAtLevel
  <1> HIDE DEF cum, total, whole, p
  <1>4. enough # {} => Min(enough) \in enough /\ \A i \in enough : Min(enough) <= i
    <2>1. IsFiniteSet(1..n)
      BY <1>1, FS_Interval
    <2>2. enough \in SUBSET Int /\ IsFiniteSet(enough)
      BY <2>1, FS_Subset
    <2> HIDE DEF enough
    <2> QED
      BY <2>2, MinIs
  <1>5. last \in 1..n
    BY <1>1, <1>4
  <1>6. cum(last) >= Min({size, whole})
    <2>1. size \in Int /\ whole \in Int
      BY <1>1, <1>3
    <2>2. IsFiniteSet({size, whole})
      <3>1. IsFiniteSet({size}) /\ {size, whole} = {size} \cup {whole}
        BY FS_Singleton
      <3> QED
        BY <3>1, FS_AddElement
    <2>3. Min({size, whole}) <= size /\ Min({size, whole}) <= whole
          /\ Min({size, whole}) \in {size, whole}
      <3>1. {size, whole} \in SUBSET Int /\ {size, whole} # {}
        BY <2>1
      <3> QED
        BY <2>2, <3>1, MinIs
    <2> DEFINE least == Min({size, whole})
    <2> HIDE DEF least
    <2>4. least \in Int /\ least <= size /\ least <= whole
      BY <2>1, <2>3 DEF least
    <2>5. CASE enough = {}
      <3>1. cum(last) = whole
        BY <1>1, <2>5
      <3> QED
        BY <2>1, <2>4, <3>1 DEF least
    <2>6. CASE enough # {}
      <3>1. last \in enough
        BY <1>4, <2>6
      <3>2. cum(last) >= size /\ cum(last) \in Int
        BY <1>3, <3>1
      <3>3. cum(last) >= least
        BY <2>1, <2>4, <3>2
      <3> QED
        BY <3>3 DEF least
    <2> QED
      BY <2>5, <2>6
  <1>7. TotalTo(side, SideOf(arr), p) = cum(last)
    BY <1>2, <1>3, <1>5 DEF total
  <1>8. ASSUME NEW i \in 1..n, arr[i].key < Key(side, p) PROVE total(i) < size
    <2>1. arr[i].key < arr[last].key
      BY <1>2, <1>3, <1>5, <1>8
    <2>2. i < last
      <3>1. last < i => arr[last].key < arr[i].key
        BY <1>5, EntriesAre
      <3>2. arr[i].key \in Int /\ arr[last].key \in Int /\ last \in Int /\ i \in Int
        BY <1>1, <1>3, <1>5
      <3> HIDE DEF last
      <3> QED
        BY <2>1, <3>1, <3>2
    <2>3. i \notin enough
      BY <1>1, <1>4, <1>5, <2>2
    <2>4. cum(i) \in Int /\ ~(cum(i) >= size)
      BY <1>3, <2>3
    <2>5. cum(i) < size
      BY <2>4
    <2> QED
      BY <1>3, <2>5
  <1>9. ASSUME NEW e \in Range(arr), e.key < Key(side, p)
        PROVE  TotalTo(side, SideOf(arr), PriceOf(side, e.key)) < size
    <2>1. PICK i \in 1..n : e = arr[i]
      BY EntriesAre DEF Range
    <2> QED
      BY <1>8, <1>9, <2>1 DEF total
  <1> QED
    BY <1>6, <1>7, <1>9 DEF p, whole

(* get_depth of the sorted book, for asks.                                 *)
LEMMA AskDepth == Sound => AskDepthIsTotal
  <1> SUFFICES ASSUME Sound, book # Absent, NEW p \in Prices
               PROVE  GetDepth("ask", book["ask"], p) = TotalTo("ask", book["ask"], p)
    BY DEF AskDepthIsTotal
  <1> DEFINE b == book["ask"]
             S == {k \in DOMAIN b : \A j \in DOMAIN b : j <= k => j <= p}
             R == {k \in DOMAIN b : k <= Key("ask", p)}
  <1>1. DOMAIN b \subseteq Int /\ p \in Int
    <2>1. "ask" \in Sides /\ DOMAIN b \subseteq {Key("ask", q) : q \in Prices}
      BY DEF Sound, IsBook, IsSide, Sides
    <2>2. DOMAIN b \subseteq Int
      BY <2>1, SideKeys
    <2> QED
      BY <2>2, FeedAssumption
  <1>2. GetDepth("ask", b, p) = SumFunctionOnSet(b, S)
    BY DEF GetDepth, SumWhile
  <1>3. TotalTo("ask", b, p) = SumFunctionOnSet(b, R)
    BY DEF TotalTo
  <1> HIDE DEF b
  <1>4. S = R
    BY <1>1 DEF Key
  <1> QED
    BY <1>2, <1>3, <1>4 DEF b

-----------------------------------------------------------------------------
(* Aggregation.                                                            *)

(* The key of a bucket is the key of the level, rounded up.                *)
RoundedUp(k, tick) == -(((-k) \div tick) * tick)

LEMMA BucketKey ==
  ASSUME NEW side \in Sides, NEW k \in Int, NEW tick \in {1, 2, 4}
  PROVE  /\ Bucket(side, PriceOf(side, k), tick) \in Int
         /\ Key(side, Bucket(side, PriceOf(side, k), tick)) = RoundedUp(k, tick)
         /\ k <= RoundedUp(k, tick)
  <1>1. CASE tick = 1
    BY <1>1 DEF Bucket, PriceOf, Key, RoundedUp, Sides
  <1>2. CASE tick = 2
    BY <1>2 DEF Bucket, PriceOf, Key, RoundedUp, Sides
  <1>3. CASE tick = 4
    BY <1>3 DEF Bucket, PriceOf, Key, RoundedUp, Sides
  <1> QED
    BY <1>1, <1>2, <1>3

(* A coarse tick is a multiple of the fine one.                            *)
LEMMA BucketsAscend ==
  ASSUME NEW k \in Int, NEW j \in Int, k < j
  PROVE  /\ RoundedUp(k, 1) <= RoundedUp(j, 1) /\ RoundedUp(k, 1) <= RoundedUp(j, 2)
         /\ RoundedUp(k, 2) <= RoundedUp(j, 2) /\ RoundedUp(k, 2) <= RoundedUp(j, 4)
         /\ RoundedUp(k, 4) <= RoundedUp(j, 4)
  BY DEF RoundedUp

LEMMA BucketsOrdered ==
  ASSUME NEW side \in Sides, NEW arr, Entries(arr), NEW ticks \in {<<1, 2>>, <<2, 4>>},
         NEW nFine \in Nat
  PROVE  LET at(i) == BucketAt(side, arr, i, ticks[1], ticks[2], nFine)
         IN  /\ \A i \in 1..Len(arr) : at(i) \in Int /\ Key(side, at(i)) >= arr[i].key
             /\ \A i, j \in 1..Len(arr) : i < j => Key(side, at(i)) <= Key(side, at(j))
  <1> DEFINE fine == ticks[1]
             coarse == ticks[2]
             tick(i) == IF i > nFine THEN coarse ELSE fine
             at(i) == BucketAt(side, arr, i, fine, coarse, nFine)
  <1>1. fine \in {1, 2} /\ coarse = 2 * fine
    OBVIOUS
  <1>2. Len(arr) \in Nat /\ \A i \in 1..Len(arr) : arr[i].key \in Int
    BY EntriesAre
  <1> HIDE DEF fine, coarse
  <1>3. ASSUME NEW i \in 1..Len(arr)
        PROVE  /\ at(i) \in Int /\ Key(side, at(i)) = RoundedUp(arr[i].key, tick(i))
               /\ Key(side, at(i)) >= arr[i].key
    <2>1. tick(i) \in {1, 2, 4} /\ arr[i].key \in Int
      BY <1>1, <1>2
    <2>2. at(i) = Bucket(side, PriceOf(side, arr[i].key), tick(i))
      BY DEF BucketAt
    <2> HIDE DEF at, tick
    <2>3. at(i) \in Int /\ Key(side, at(i)) = RoundedUp(arr[i].key, tick(i))
          /\ arr[i].key <= RoundedUp(arr[i].key, tick(i))
      BY <2>1, <2>2, BucketKey
    <2>4. Key(side, at(i)) \in Int
      BY <2>3, Keys
    <2> QED
      BY <2>1, <2>3, <2>4
  <1>4. ASSUME NEW i \in 1..Len(arr), NEW j \in 1..Len(arr), i < j
        PROVE  Key(side, at(i)) <= Key(side, at(j))
    <2>1. arr[i].key < arr[j].key
      BY <1>4, EntriesAre
    <2>2. \/ tick(i) = fine /\ tick(j) \in {fine, coarse}
          \/ tick(i) = coarse /\ tick(j) = coarse
      BY <1>2, <1>4
    <2>3. <<tick(i), tick(j)>> \in {<<1, 1>>, <<1, 2>>, <<2, 2>>, <<2, 4>>, <<4, 4>>}
      BY <1>1, <2>2
    <2> HIDE DEF at, tick
    <2>4. RoundedUp(arr[i].key, tick(i)) <= RoundedUp(arr[j].key, tick(j))
      BY <1>2, <2>1, <2>3, BucketsAscend
    <2> QED
      BY <1>3, <2>4
  <1> QED
    BY <1>3, <1>4 DEF fine, coarse

Merging(out, m) ==
  IF out # <<>> /\ Last(out).price = m.price
  THEN ReplaceAt(out, Len(out), [price |-> m.price, size |-> Last(out).size + m.size])
  ELSE Append(out, [price |-> m.price, size |-> m.size])
Merge == INSTANCE SharedLemmas WITH Effect <- Merging

(* The aggregation is a loop over the levels with their buckets.           *)
Aggregating(h, side, arr, fine, coarse, nFine) ==
  /\ h[0] = <<>>
  /\ \A n \in 1..Len(arr) :
       h[n] = Merging(h[n - 1], [price |-> BucketAt(side, arr, n, fine, coarse, nFine),
                                 size |-> arr[n].size])
  /\ AggregateDual(side, arr, fine, coarse, nFine) = h[Len(arr)]

LEMMA AggregateLoop ==
  ASSUME NEW side, NEW arr, Entries(arr), NEW fine, NEW coarse, NEW nFine
  PROVE  \E h : Aggregating(h, side, arr, fine, coarse, nFine)
  <1> DEFINE l == Len(arr)
             at(i) == BucketAt(side, arr, i, fine, coarse, nFine)
             msg(i) == [price |-> at(i), size |-> arr[i].size]
             msgs == [i \in 1..l |-> msg(i)]
             idx == [i \in DOMAIN arr |-> i]
             Turn(out, i) ==
               IF out # <<>> /\ Last(out).price = at(i)
               THEN ReplaceAt(out, Len(out), [price |-> at(i), size |-> Last(out).size + arr[i].size])
               ELSE Append(out, [price |-> at(i), size |-> arr[i].size])
             IsIt(t) == t = [s \in SUBSET (DOMAIN idx) |->
                               IF s = {} THEN <<>> ELSE Turn(t[s \ {Max(s)}], idx[Max(s)])]
             it == CHOOSE t : IsIt(t)
  <1>1. AggregateDual(side, arr, fine, coarse, nFine) = it[DOMAIN idx]
    BY DEF AggregateDual, FoldLeftDomain, FoldLeft, MapThenFoldSet
  <1>2. l \in Nat /\ DOMAIN arr = 1..l /\ DOMAIN idx = 1..l /\ \A i \in 1..l : idx[i] = i
    BY EntriesAre
  <1>3. \A i \in 1..l : msgs[i] = msg(i)
    OBVIOUS
  <1>4. \A out : \A i \in 1..l : Turn(out, idx[i]) = Merging(out, msgs[i])
    BY <1>2 DEF Merging
  <1> HIDE DEF idx, Turn, msgs
  <1> DEFINE pick == [s \in SUBSET (1..l) |-> Max(s)]
  <1>5. \A s \in SUBSET (1..l) :
          pick[s] = Max(s) /\ (s # {} => pick[s] \in s /\ \A k \in s : k <= pick[s])
    BY <1>2, MaxIs
  <1> HIDE DEF pick
  <1>6. \A t : IsIt(t) <=> Merge!IsLeftFold(t, pick, <<>>, msgs, l)
    <2> DEFINE A(t, s) == IF s = {} THEN <<>> ELSE Turn(t[s \ {Max(s)}], idx[Max(s)])
               B(t, s) == IF s = {} THEN <<>> ELSE Merging(t[s \ {pick[s]}], msgs[pick[s]])
    <2>1. ASSUME NEW t, NEW s \in SUBSET (1..l) PROVE A(t, s) = B(t, s)
      <3>1. CASE s = {}
        BY <3>1
      <3>2. CASE s # {}
        <4>1. pick[s] \in 1..l /\ pick[s] = Max(s)
          BY <1>5, <3>2
        <4>2. Turn(t[s \ {pick[s]}], idx[pick[s]]) = Merging(t[s \ {pick[s]}], msgs[pick[s]])
          BY <1>4, <4>1
        <4> QED
          BY <3>2, <4>1, <4>2
      <3> QED
        BY <3>1, <3>2
    <2>2. ASSUME NEW t
          PROVE  t = [s \in SUBSET (1..l) |-> A(t, s)] <=> t = [s \in SUBSET (1..l) |-> B(t, s)]
      <3> HIDE DEF A, B
      <3>1. [s \in SUBSET (1..l) |-> A(t, s)] = [s \in SUBSET (1..l) |-> B(t, s)]
        BY <2>1
      <3> QED
        BY <3>1
    <2> QED
      BY <1>2, <2>2 DEF Merge!IsLeftFold
  <1>7. Merge!PicksGreatest(pick, l)
    BY <1>5 DEF Merge!PicksGreatest
  <1>8. Merge!IsLeftFold(it, pick, <<>>, msgs, l)
    <2>1. PICK t : Merge!IsLeftFold(t, pick, <<>>, msgs, l)
      BY <1>2, <1>7, Merge!LeftFoldExists
    <2>2. IsIt(t)
      BY <1>6, <2>1
    <2> HIDE DEF IsIt
    <2> QED
      BY <1>6, <2>2
  <1> HIDE DEF it, IsIt, l
  <1>9. it[1..0] = <<>> /\ \A n \in 1..l : it[1..n] = Merging(it[1..(n - 1)], msgs[n])
    BY <1>2, <1>7, <1>8, Merge!LeftFold DEF Merge!Onward
  <1> DEFINE h == [n \in 0..l |-> it[1..n]]
  <1>10. h[0] = <<>> /\ h[l] = it[1..l]
    BY <1>2, <1>9
  <1>11. ASSUME NEW n \in 1..l PROVE h[n] = Merging(h[n - 1], msg(n))
    <2>1. h[n] = it[1..n] /\ h[n - 1] = it[1..(n - 1)]
      BY <1>2
    <2> QED
      BY <1>3, <1>9, <2>1
  <1> HIDE DEF h
  <1> QED
    BY <1>1, <1>2, <1>10, <1>11 DEF l, Aggregating

LEMMA ListAppend ==
  ASSUME NEW s, IsList(s), NEW e
  PROVE  LET t == Append(s, e)
         IN  /\ IsList(t) /\ Len(t) = Len(s) + 1 /\ Len(s) \in Nat
             /\ \A m \in 1..Len(s) : t[m] = s[m]
             /\ t[Len(s) + 1] = e
  <1> DEFINE T == Range(s) \cup {e}
             t == Append(s, e)
  <1>1. s \in Seq(Range(s)) /\ Len(s) \in Nat
    BY ListFacts DEF IsList
  <1>2. s \in Seq(T) /\ e \in T
    BY <1>1, SeqMonotonic
  <1> HIDE DEF T, t
  <1>3. /\ t \in Seq(T) /\ Len(t) = Len(s) + 1
        /\ \A m \in 1..Len(s) : t[m] = s[m]
        /\ t[Len(s) + 1] = e
    BY <1>2, AppendProperties DEF t
  <1>4. IsList(t)
    <2> DEFINE l == Len(t)
    <2>1. t \in [1..l -> T] /\ l \in Nat
      BY <1>3, LenProperties
    <2> HIDE DEF l
    <2>2. t = [m \in 1..l |-> t[m]]
      BY <2>1
    <2> QED
      BY <2>1, <2>2, ListOfFunction
  <1> QED
    BY <1>1, <1>3, <1>4 DEF t

LEMMA ListReplace ==
  ASSUME NEW s, IsList(s), Len(s) # 0, NEW e
  PROVE  LET t == ReplaceAt(s, Len(s), e)
         IN  /\ IsList(t) /\ Len(t) = Len(s) /\ Len(s) \in Nat
             /\ \A m \in 1..Len(s) : t[m] = IF m = Len(s) THEN e ELSE s[m]
  <1> DEFINE t == ReplaceAt(s, Len(s), e)
  <1>1. Len(s) \in Nat /\ DOMAIN s = 1..Len(s)
    BY ListFacts
  <1>2. t = [m \in 1..Len(s) |-> IF m = Len(s) THEN e ELSE s[m]]
    BY <1>1 DEF ReplaceAt
  <1> HIDE DEF t
  <1>3. \A m \in 1..Len(s) : t[m] = IF m = Len(s) THEN e ELSE s[m]
    BY <1>2
  <1>4. t = [m \in 1..Len(s) |-> t[m]]
    BY <1>2
  <1>5. IsList(t) /\ Len(t) = Len(s)
    BY <1>1, <1>4, ListOfFunction
  <1> QED
    BY <1>1, <1>3, <1>5 DEF t

(* The levels up to n whose bucket has the price.                          *)
Bucketed(at, n, price) == {j \in 1..n : at[j] = price}

(* out has the groups of the first n levels.                               *)
Grouped(side, arr, at, out, n) ==
  /\ IsList(out)
  /\ \A m \in 1..Len(out) :
       out[m] = [price |-> out[m].price,
                 size |-> SumFunctionOnSet(SizesOf(arr), Bucketed(at, n, out[m].price))]
  /\ \A m \in 1..Len(out) : \E i \in 1..n : at[i] = out[m].price
  /\ \A i \in 1..n : \E m \in 1..Len(out) : at[i] = out[m].price
  /\ \A m, o \in 1..Len(out) : m < o => Key(side, out[m].price) < Key(side, out[o].price)
  /\ n # 0 => Len(out) # 0 /\ out[Len(out)].price = at[n]

(* The prices of the buckets and their order.                              *)
Ascending(side, arr, at) ==
  /\ \A i \in 1..Len(arr) : at[i] \in Int
  /\ \A i, j \in 1..Len(arr) : i < j => Key(side, at[i]) <= Key(side, at[j])

LEMMA BucketedNext ==
  ASSUME NEW arr, Entries(arr), NEW at, NEW n \in 1..Len(arr), NEW p
  PROVE  LET sum(k) == SumFunctionOnSet(SizesOf(arr), Bucketed(at, k, p))
         IN  /\ at[n] # p => Bucketed(at, n, p) = Bucketed(at, n - 1, p)
             /\ at[n] = p => sum(n) = arr[n].size + sum(n - 1) /\ sum(n - 1) \in Int
             /\ Bucketed(at, n - 1, p) = {} => sum(n - 1) = 0
  <1>1. Len(arr) \in Nat
    BY EntriesAre
  <1>2. Bucketed(at, n, p) \in SUBSET (1..Len(arr)) /\ Bucketed(at, n - 1, p) \in SUBSET (1..Len(arr))
    BY <1>1 DEF Bucketed
  <1>3. ASSUME at[n] # p PROVE Bucketed(at, n, p) = Bucketed(at, n - 1, p)
    BY <1>1, <1>3 DEF Bucketed
  <1>4. ASSUME at[n] = p
        PROVE  n \in Bucketed(at, n, p) /\ Bucketed(at, n, p) \ {n} = Bucketed(at, n - 1, p)
    BY <1>1, <1>4 DEF Bucketed
  <1> QED
    BY <1>2, <1>3, <1>4, SizeSums

LEMMA GroupedNext ==
  ASSUME NEW side \in Sides, NEW arr, Entries(arr), NEW at, Ascending(side, arr, at),
         NEW n \in 1..Len(arr), NEW out, Grouped(side, arr, at, out, n - 1)
  PROVE  Grouped(side, arr, at, Merging(out, [price |-> at[n], size |-> arr[n].size]), n)
  <1> DEFINE b == at[n]
             size == arr[n].size
             l == Len(out)
             new == Merging(out, [price |-> b, size |-> size])
             sum(k, p) == SumFunctionOnSet(SizesOf(arr), Bucketed(at, k, p))
  <1>1. /\ n \in Nat \ {0} /\ n - 1 \in Nat /\ n \in 1..n /\ Len(arr) \in Nat
        /\ \A i \in 1..(n - 1) : i \in 1..n /\ i \in 1..Len(arr) /\ i < n
        /\ \A i \in 1..n : i = n \/ i \in 1..(n - 1)
    BY EntriesAre
  <1>2. size \in Nat \ {0}
    BY EntriesAre
  <1>3. IsList(out) /\ l \in Nat /\ (out # <<>> <=> l # 0)
    <2>1. IsList(out)
      BY DEF Grouped
    <2> QED
      BY <2>1, EmptySeq, ListFacts DEF IsList
  <1>4. \A i \in 1..Len(arr) : at[i] \in Int /\ Key(side, at[i]) \in Int
    BY Keys DEF Ascending
  <1>5. \A i \in 1..(n - 1) : Key(side, at[i]) <= Key(side, b)
    BY <1>1 DEF Ascending
  <1>6. /\ \A p : b # p => sum(n, p) = sum(n - 1, p)
        /\ sum(n, b) = size + sum(n - 1, b) /\ sum(n - 1, b) \in Int
        /\ Bucketed(at, n - 1, b) = {} => sum(n - 1, b) = 0
    <2>1. ASSUME NEW p, b # p PROVE sum(n, p) = sum(n - 1, p)
      <3>1. Bucketed(at, n, p) = Bucketed(at, n - 1, p)
        BY <2>1, BucketedNext
      <3> QED
        BY <3>1
    <2>2. LET total(k) == SumFunctionOnSet(SizesOf(arr), Bucketed(at, k, b))
          IN  /\ at[n] = b => total(n) = arr[n].size + total(n - 1) /\ total(n - 1) \in Int
              /\ Bucketed(at, n - 1, b) = {} => total(n - 1) = 0
      BY BucketedNext
    <2>3. at[n] = b
      OBVIOUS
    <2> HIDE DEF b
    <2> QED
      BY <2>1, <2>2, <2>3
  <1>7. /\ \A m \in 1..l : out[m] = [price |-> out[m].price, size |-> sum(n - 1, out[m].price)]
        /\ \A m \in 1..l : \E i \in 1..(n - 1) : at[i] = out[m].price
        /\ \A i \in 1..(n - 1) : \E m \in 1..l : at[i] = out[m].price
        /\ \A m, o \in 1..l : m < o => Key(side, out[m].price) < Key(side, out[o].price)
        /\ n - 1 # 0 => l # 0 /\ out[l].price = at[n - 1]
    BY DEF Grouped
  <1>8. \A m \in 1..l : out[m].price \in Int /\ Key(side, out[m].price) \in Int
    BY <1>1, <1>4, <1>7
  <1> HIDE DEF sum, l, new, size, b
  <1>9. CASE l # 0 /\ out[l].price = b
    <2> DEFINE e == [price |-> b, size |-> out[l].size + size]
    <2>1. new = ReplaceAt(out, l, e)
      BY <1>3, <1>9 DEF new, Merging, Last, l
    <2>2. IsList(new) /\ Len(new) = l /\ \A m \in 1..l : new[m] = IF m = l THEN e ELSE out[m]
      BY <1>3, <1>9, <2>1, ListReplace DEF l
    <2>3. l \in 1..l /\ out[l].size = sum(n - 1, b)
      <3>1. l \in 1..l
        BY <1>3, <1>9
      <3>2. out[l] = [price |-> out[l].price, size |-> sum(n - 1, out[l].price)]
        BY <1>7, <3>1
      <3>3. out[l].size = sum(n - 1, out[l].price)
        BY <3>2
      <3> QED
        BY <1>9, <3>1, <3>3
    <2>4. e = [price |-> b, size |-> sum(n, b)]
      BY <1>2, <1>6, <2>3
    <2>5. \A m \in 1..l : new[m].price = out[m].price
      BY <1>9, <2>2
    <2> HIDE DEF e
    <2>6. ASSUME NEW m \in 1..l PROVE new[m] = [price |-> new[m].price, size |-> sum(n, new[m].price)]
      <3>1. CASE m = l
        BY <2>2, <2>4, <3>1
      <3>2. CASE m # l
        <4>1. m < l
          BY <1>3, <3>2
        <4>2. Key(side, out[m].price) < Key(side, out[l].price)
          BY <1>7, <2>3, <4>1
        <4>3. out[m].price # b
          BY <1>8, <1>9, <2>3, <4>2
        <4>4. sum(n, out[m].price) = sum(n - 1, out[m].price)
          BY <1>6, <4>3
        <4>5. out[m] = [price |-> out[m].price, size |-> sum(n - 1, out[m].price)]
          BY <1>7
        <4>6. new[m] = out[m]
          BY <2>2, <3>2
        <4> QED
          BY <4>4, <4>5, <4>6
      <3> QED
        BY <3>1, <3>2
    <2>7. \A m \in 1..l : \E i \in 1..n : at[i] = new[m].price
      BY <1>1, <1>7, <2>5
    <2>8. ASSUME NEW i \in 1..n PROVE \E m \in 1..l : at[i] = new[m].price
      <3>1. CASE i = n
        BY <1>9, <2>3, <2>5, <3>1 DEF b
      <3>2. CASE i \in 1..(n - 1)
        BY <1>7, <2>5, <3>2
      <3> QED
        BY <1>1, <3>1, <3>2
    <2>9. \A m, o \in 1..l : m < o => Key(side, new[m].price) < Key(side, new[o].price)
      BY <1>7, <2>5
    <2>10. l # 0 /\ new[l].price = at[n]
      BY <1>9, <2>3, <2>5 DEF b
    <2>11. Grouped(side, arr, at, new, n)
      BY <2>2, <2>6, <2>7, <2>8, <2>9, <2>10 DEF Grouped, sum
    <2> QED
      BY <2>11 DEF new, b, size
  <1>10. CASE ~(l # 0 /\ out[l].price = b)
    <2> DEFINE e == [price |-> b, size |-> size]
    <2>1. new = Append(out, e)
      BY <1>3, <1>10 DEF new, Merging, Last, l
    <2>2. /\ IsList(new) /\ Len(new) = l + 1
          /\ \A m \in 1..l : new[m] = out[m]
          /\ new[l + 1] = e
      BY <1>3, <2>1, ListAppend DEF l
    <2> HIDE DEF e
    <2>3. ASSUME NEW m \in 1..l PROVE Key(side, out[m].price) < Key(side, b)
      <3>1. l \in 1..l /\ l # 0
        BY <1>3
      <3>2. Key(side, out[m].price) <= Key(side, out[l].price)
        <4>1. m = l \/ m < l
          BY <1>3
        <4>2. Key(side, out[m].price) \in Int /\ Key(side, out[l].price) \in Int
          BY <1>8, <3>1
        <4>3. m < l => Key(side, out[m].price) < Key(side, out[l].price)
          BY <1>7, <3>1
        <4> HIDE DEF Grouped, Ascending
        <4> QED
          BY <4>1, <4>2, <4>3
      <3>3. PICK i \in 1..(n - 1) : at[i] = out[l].price
        BY <1>7, <3>1
      <3>4. Key(side, out[l].price) <= Key(side, b)
        BY <1>5, <3>3
      <3>5. out[l].price # b /\ out[l].price \in Int /\ b \in Int
        BY <1>4, <1>8, <1>10, <3>1 DEF b
      <3>6. Key(side, out[l].price) # Key(side, b)
        BY <3>5 DEF Key
      <3>7. Key(side, b) \in Int
        BY <3>5, Keys
      <3> QED
        BY <1>8, <3>1, <3>2, <3>4, <3>6, <3>7
    <2>4. \A m \in 1..l : out[m].price # b
      <3>1. b \in Int /\ Key(side, b) \in Int
        BY <1>4 DEF b
      <3> QED
        BY <2>3, <3>1
    <2>5. Bucketed(at, n - 1, b) = {}
      <3>1. \A i \in 1..(n - 1) : at[i] # b
        BY <1>7, <2>4
      <3> QED
        BY <3>1 DEF Bucketed
    <2>6. e = [price |-> b, size |-> sum(n, b)]
      BY <1>2, <1>6, <2>5 DEF e
    <2>7. /\ \A m \in 1..l : m \in 1..(l + 1)
          /\ \A m \in 1..(l + 1) : m = l + 1 \/ m \in 1..l
          /\ l + 1 \in 1..(l + 1) /\ l + 1 # 0
      BY <1>3
    <2>8. new[l + 1].price = b /\ \A m \in 1..l : new[m].price = out[m].price
      BY <2>2, <2>6
    <2>9. ASSUME NEW m \in 1..(l + 1)
          PROVE  new[m] = [price |-> new[m].price, size |-> sum(n, new[m].price)]
      <3>1. CASE m = l + 1
        BY <2>2, <2>6, <3>1
      <3>2. CASE m \in 1..l
        <4>1. sum(n, out[m].price) = sum(n - 1, out[m].price)
          BY <1>6, <2>4, <3>2
        <4> QED
          BY <1>7, <2>2, <3>2, <4>1
      <3> QED
        BY <2>7, <3>1, <3>2
    <2>10. ASSUME NEW m \in 1..(l + 1) PROVE \E i \in 1..n : at[i] = new[m].price
      <3>1. CASE m = l + 1
        BY <1>1, <2>8, <3>1 DEF b
      <3>2. CASE m \in 1..l
        BY <1>1, <1>7, <2>8, <3>2
      <3> QED
        BY <2>7, <3>1, <3>2
    <2>11. ASSUME NEW i \in 1..n PROVE \E m \in 1..(l + 1) : at[i] = new[m].price
      <3>1. CASE i = n
        BY <2>7, <2>8, <3>1 DEF b
      <3>2. CASE i \in 1..(n - 1)
        BY <1>7, <2>7, <2>8, <3>2
      <3> QED
        BY <1>1, <3>1, <3>2
    <2>12. ASSUME NEW m \in 1..(l + 1), NEW o \in 1..(l + 1), m < o
           PROVE  Key(side, new[m].price) < Key(side, new[o].price)
      <3>1. m \in 1..l /\ (o \in 1..l \/ o = l + 1)
        BY <1>3, <2>12
      <3>2. CASE o \in 1..l
        BY <1>7, <2>8, <2>12, <3>1, <3>2
      <3>3. CASE o = l + 1
        BY <2>3, <2>8, <3>1, <3>3
      <3> QED
        BY <3>1, <3>2, <3>3
    <2>13. Grouped(side, arr, at, new, n)
      BY <2>2, <2>7, <2>8, <2>9, <2>10, <2>11, <2>12 DEF Grouped, sum, b
    <2> QED
      BY <2>13 DEF new, b, size
  <1> QED
    BY <1>9, <1>10

(* After the last level the groups are complete, each of them once.        *)
LEMMA GroupsAre ==
  ASSUME NEW side \in Sides, NEW arr, Entries(arr), NEW at, Ascending(side, arr, at),
         NEW out, Grouped(side, arr, at, out, Len(arr))
  PROVE  LET groups == {[price |-> at[i],
                         size |-> SumFunctionOnSet(SizesOf(arr), Bucketed(at, Len(arr), at[i]))]
                          : i \in 1..Len(arr)}
         IN  Range(out) = groups /\ Len(out) = Cardinality(groups)
  <1> DEFINE n == Len(arr)
             l == Len(out)
             sum(p) == SumFunctionOnSet(SizesOf(arr), Bucketed(at, n, p))
             group(i) == [price |-> at[i], size |-> sum(at[i])]
             groups == {group(i) : i \in 1..n}
  <1>1. IsList(out) /\ l \in Nat /\ DOMAIN out = 1..l /\ out = [m \in 1..l |-> out[m]]
    <2>1. IsList(out)
      BY DEF Grouped
    <2> QED
      BY <2>1, ListFacts
  <1>2. /\ \A m \in 1..l : out[m] = [price |-> out[m].price, size |-> sum(out[m].price)]
        /\ \A m \in 1..l : \E i \in 1..n : at[i] = out[m].price
        /\ \A i \in 1..n : \E m \in 1..l : at[i] = out[m].price
        /\ \A m, o \in 1..l : m < o => Key(side, out[m].price) < Key(side, out[o].price)
    BY DEF Grouped
  <1> HIDE DEF n, l, sum
  <1>3. ASSUME NEW m \in 1..l PROVE out[m] \in groups
    <2>1. PICK i \in 1..n : at[i] = out[m].price
      BY <1>2
    <2>2. out[m] = [price |-> out[m].price, size |-> sum(out[m].price)]
      BY <1>2
    <2>3. out[m] = group(i)
      BY <2>1, <2>2
    <2> QED
      BY <2>3
  <1>4. ASSUME NEW i \in 1..n PROVE group(i) \in Range(out)
    <2>1. PICK m \in 1..l : at[i] = out[m].price
      BY <1>2
    <2>2. out[m] = [price |-> out[m].price, size |-> sum(out[m].price)]
      BY <1>2
    <2>3. out[m] = group(i)
      BY <2>1, <2>2
    <2> QED
      BY <1>1, <2>3 DEF Range
  <1>5. Range(out) = groups
    <2>1. \A g \in Range(out) : g \in groups
      BY <1>1, <1>3 DEF Range
    <2>2. \A g \in groups : g \in Range(out)
      BY <1>4
    <2> QED
      BY <2>1, <2>2
  <1>6. \A m, o \in 1..l : out[m] = out[o] => m = o
    <2>1. \A m \in 1..l : Key(side, out[m].price) \in Int
      <3>1. ASSUME NEW m \in 1..l PROVE Key(side, out[m].price) \in Int
        <4>1. PICK i \in 1..n : at[i] = out[m].price
          BY <1>2
        <4>2. at[i] \in Int
          BY DEF Ascending, n
        <4> QED
          BY <4>1, <4>2, Keys
      <3> QED
        BY <3>1
    <2>2. ASSUME NEW m \in 1..l, NEW o \in 1..l, m < o PROVE out[m] # out[o]
      <3>1. Key(side, out[m].price) < Key(side, out[o].price)
        BY <1>2, <2>2
      <3> QED
        BY <2>1, <3>1
    <2>3. \A m, o \in 1..l : m = o \/ m < o \/ o < m
      BY <1>1
    <2> QED
      BY <2>2, <2>3
  <1>7. IsFiniteSet(1..l) /\ Cardinality(1..l) = l
    <2>1. l \in Nat /\ l \in Int /\ 1 \in Int
      BY <1>1
    <2>2. /\ IsFiniteSet(1..l)
          /\ Cardinality(1..l) = IF 1 > l THEN 0 ELSE l - 1 + 1
      BY <2>1, FS_Interval
    <2> QED
      BY <2>1, <2>2
  <1>8. out \in Surjection(1..l, groups) /\ out \in Injection(1..l, groups)
    <2>1. out \in [1..l -> groups]
      BY <1>1, <1>3
    <2>2. \A g \in groups : \E m \in 1..l : out[m] = g
      BY <1>1, <1>5 DEF Range
    <2> HIDE DEF groups
    <2> QED
      BY <1>6, <2>1, <2>2 DEF Surjection, Injection, IsInjective
  <1> HIDE DEF groups
  <1>9. Cardinality(groups) = l
    BY <1>7, <1>8, FS_Surjection
  <1> QED
    BY <1>5, <1>9 DEF groups, l, n, sum

LEMMA AggregateGroups ==
  ASSUME NEW side \in Sides, NEW arr, Entries(arr), NEW fine, NEW coarse, NEW nFine,
         NEW at, at = [i \in 1..Len(arr) |-> BucketAt(side, arr, i, fine, coarse, nFine)],
         Ascending(side, arr, at)
  PROVE  Grouped(side, arr, at, AggregateDual(side, arr, fine, coarse, nFine), Len(arr))
  <1> DEFINE l == Len(arr)
  <1>1. l \in Nat
    BY EntriesAre
  <1>2. PICK h : Aggregating(h, side, arr, fine, coarse, nFine)
    BY AggregateLoop
  <1> HIDE DEF l
  <1> DEFINE T == {n \in 0..l : Grouped(side, arr, at, h[n], n)}
  <1>3. 0 \in T
    <2>1. IsList(<<>>) /\ Len(<<>>) = 0
      BY EmptySeq DEF IsList
    <2>2. Grouped(side, arr, at, <<>>, 0)
      BY <2>1 DEF Grouped
    <2> QED
      BY <1>1, <1>2, <2>2 DEF Aggregating
  <1>4. ASSUME NEW n \in 1..l, n - 1 \in T PROVE n \in T
    <2>1. at[n] = BucketAt(side, arr, n, fine, coarse, nFine)
      BY DEF l
    <2>2. h[n] = Merging(h[n - 1], [price |-> at[n], size |-> arr[n].size])
      BY <1>2, <2>1 DEF l, Aggregating
    <2>3. Grouped(side, arr, at, h[n - 1], n - 1)
      BY <1>4
    <2>4. n \in 1..Len(arr)
      BY DEF l
    <2>5. Grouped(side, arr, at, h[n], n)
      BY <2>2, <2>3, <2>4, GroupedNext
    <2> QED
      BY <1>1, <2>5
  <1> HIDE DEF T
  <1>5. \A n \in 0..l : n \in T
    BY <1>1, <1>3, <1>4, Merge!Turns
  <1>6. Grouped(side, arr, at, h[l], l)
    BY <1>1, <1>5 DEF T
  <1> QED
    BY <1>2, <1>6 DEF l, Aggregating

(* What the property says of a side and its ticks.                         *)
GroupBy(side, arr, ticks, nFine) ==
  LET at(i)  == BucketAt(side, arr, i, ticks[1], ticks[2], nFine)
      out    == AggregateDual(side, arr, ticks[1], ticks[2], nFine)
      groups == {[price |-> at(i),
                  size |-> MapThenSumSet(LAMBDA j : arr[j].size,
                                         {j \in 1..Len(arr) : at(j) = at(i)})] : i \in 1..Len(arr)}
  IN  /\ Range(out) = groups /\ Len(out) = Cardinality(groups)
      /\ \A i \in 1..Len(arr) : Key(side, at(i)) >= arr[i].key

LEMMA AggregateIs ==
  ASSUME NEW side \in Sides, NEW arr, Entries(arr), NEW ticks \in {<<1, 2>>, <<2, 4>>},
         NEW nFine \in Nat
  PROVE  GroupBy(side, arr, ticks, nFine)
  <1> DEFINE l == Len(arr)
             bucket(i) == BucketAt(side, arr, i, ticks[1], ticks[2], nFine)
             at == [i \in 1..l |-> bucket(i)]
             out == AggregateDual(side, arr, ticks[1], ticks[2], nFine)
             mapped(S) == MapThenSumSet(LAMBDA j : arr[j].size, S)
             groups == {[price |-> bucket(i), size |-> mapped({j \in 1..l : bucket(j) = bucket(i)})]
                          : i \in 1..l}
             sums == {[price |-> at[i],
                       size |-> SumFunctionOnSet(SizesOf(arr), Bucketed(at, l, at[i]))] : i \in 1..l}
  <1>1. /\ \A i \in 1..l : bucket(i) \in Int /\ Key(side, bucket(i)) >= arr[i].key
        /\ \A i, j \in 1..l : i < j => Key(side, bucket(i)) <= Key(side, bucket(j))
    BY BucketsOrdered
  <1> HIDE DEF bucket
  <1>2. Ascending(side, arr, at)
    BY <1>1 DEF Ascending
  <1>3. at = [i \in 1..Len(arr) |-> BucketAt(side, arr, i, ticks[1], ticks[2], nFine)]
    BY DEF bucket
  <1>4. \A i \in 1..l : at[i] = bucket(i)
    OBVIOUS
  <1> HIDE DEF at
  <1>5. Grouped(side, arr, at, out, Len(arr))
    BY <1>2, <1>3, AggregateGroups
  <1>6. Range(out) = sums /\ Len(out) = Cardinality(sums)
    BY <1>2, <1>5, GroupsAre
  <1>7. ASSUME NEW i \in 1..l
        PROVE  mapped({j \in 1..l : bucket(j) = bucket(i)})
                 = SumFunctionOnSet(SizesOf(arr), Bucketed(at, l, at[i]))
    <2> DEFINE S == {j \in 1..l : bucket(j) = bucket(i)}
    <2>1. S = Bucketed(at, l, at[i])
      BY <1>4 DEF Bucketed
    <2>2. S \in SUBSET (1..Len(arr))
      OBVIOUS
    <2> HIDE DEF S
    <2>3. mapped(S) = SumFunctionOnSet(SizesOf(arr), S)
      BY <2>2, MapSumIs
    <2> HIDE DEF mapped
    <2>4. mapped(S) = SumFunctionOnSet(SizesOf(arr), Bucketed(at, l, at[i]))
      BY <2>1, <2>3
    <2> QED
      BY <2>4 DEF S
  <1> HIDE DEF mapped
  <1>8. groups = sums
    BY <1>4, <1>7
  <1> HIDE DEF out, groups, sums
  <1>9. /\ Range(out) = groups /\ Len(out) = Cardinality(groups)
        /\ \A i \in 1..l : Key(side, bucket(i)) >= arr[i].key
    BY <1>1, <1>6, <1>8
  <1> QED
    BY <1>9, Zenon DEF out, groups, mapped, bucket, GroupBy

-----------------------------------------------------------------------------
(* For every instance: once a snapshot of the connection has been handled, *)
(* what is in flight takes the client's book to the exchange's; a quote    *)
(* makes the best levels those of the exchange and leaves no cross.        *)
THEOREM BookFollows == Spec => []BookFollowsExchange
  <1>1. FeedInv => BookFollowsExchange
    <2> SUFFICES ASSUME FeedInv PROVE BookFollowsExchange
      OBVIOUS
    <2>1. BboBecomesBest
      BY BboHolds DEF FeedInv
    <2>2. ASSUME synced PROVE Afterwards(book, stream) = exchange
      <3>1. Leads(book, stream, exchange) /\ Len(stream) \in Nat
        BY <2>2 DEF FeedInv, Follows, InFlight
      <3> QED
        BY <3>1, LeadsAfterwards
    <2> QED
      BY <2>1, <2>2 DEF BookFollowsExchange
  <1> QED
    BY <1>1, FeedInductive, PTL

LEMMA SortedWhileCompiled == FeedInv => FastSorted
  <1> SUFFICES ASSUME FeedInv, NEW side \in Sides, NEW i \in 1..Len(fast[side]) - 1
               PROVE  fast[side][i].key < fast[side][i + 1].key
    BY DEF FastSorted
  <1>1. Entries(fast[side])
    BY DEF FeedInv, Compiled
  <1> DEFINE arr == fast[side]
  <1> HIDE DEF arr
  <1>2. Len(arr) \in Nat /\ \A h, j \in 1..Len(arr) : h < j => arr[h].key < arr[j].key
    BY <1>1, EntriesAre DEF arr
  <1>3. i \in 1..Len(arr) /\ i + 1 \in 1..Len(arr) /\ i < i + 1
    BY <1>2 DEF arr
  <1> QED
    BY <1>2, <1>3 DEF arr

(* For arrays of any length: the compiled book stays strictly ordered,     *)
(* through insertions into full arrays and deltas that were missed.        *)
THEOREM FastStaysSorted == Spec => []FastSorted
  BY SortedWhileCompiled, FeedInductive, PTL

(* For arrays of any length: the compiled book shows only levels of the    *)
(* client's book, and all of them unless the arrays have been full.        *)
THEOREM FastFollows == Spec => []FastAgrees
  <1>1. FeedInv => FastAgrees
    <2> SUFFICES ASSUME FeedInv, synced, NEW side \in Sides
                 PROVE  LET entries == {<<e.key, e.size>> : e \in Range(fast[side])}
                            levels  == {<<k, book[side][k]>> : k \in DOMAIN book[side]}
                        IN  entries \subseteq levels /\ (side \notin wasFull => entries = levels)
      BY SortedWhileCompiled DEF FastAgrees
    <2> DEFINE arr == fast[side]
               b == book[side]
               entries == {<<e.key, e.size>> : e \in Range(arr)}
               levels  == {<<k, b[k]>> : k \in DOMAIN b}
    <2>1. Entries(arr) /\ Shows(arr, b, side \in wasFull)
      BY DEF FeedInv, Compiled, Agrees
    <2> HIDE DEF arr, b
    <2>2. DOMAIN arr = 1..Len(arr)
      BY <2>1, EntriesAre
    <2>3. entries = {<<arr[i].key, arr[i].size>> : i \in 1..Len(arr)}
      BY <2>2 DEF Range
    <2> HIDE DEF entries
    <2>4. entries \subseteq levels
      BY <2>1, <2>3 DEF Shows
    <2>5. ASSUME side \notin wasFull PROVE levels \subseteq entries
      <3> SUFFICES ASSUME NEW k \in DOMAIN b PROVE <<k, b[k]>> \in entries
        OBVIOUS
      <3>1. PICK i \in 1..Len(arr) : arr[i].key = k
        BY <2>1, <2>5 DEF Shows
      <3>2. b[k] = arr[i].size
        BY <2>1, <3>1 DEF Shows
      <3> QED
        BY <2>3, <3>1, <3>2
    <2> QED
      BY <2>4, <2>5 DEF entries, arr, b
  <1> QED
    BY <1>1, FeedInductive, PTL

(* For arrays of any length: depth and sweep of the compiled book are the  *)
(* total to a price and the best price at which it reaches the size, and   *)
(* the depth of the asks of the client's book is their total.              *)
THEOREM SweepHolds == Spec => []SweepMatchesDepth
  <1>1. FeedInv => SweepMatchesDepth
    <2> SUFFICES ASSUME FeedInv PROVE SweepMatchesDepth
      OBVIOUS
    <2>1. AskDepthIsTotal
      BY AskDepth DEF FeedInv
    <2>2. \A side \in Sides : Entries(fast[side])
      BY DEF FeedInv, Compiled
    <2>3. ASSUME NEW side \in Sides, NEW p \in Prices
          PROVE  FastDepth(side, fast[side], p) = TotalTo(side, SideOf(fast[side]), p)
      BY <2>2, FastDepthIs, FeedAssumption
    <2>4. ASSUME NEW side \in Sides, fast[side] # <<>>,
                 NEW size \in 1..SumFunction(SideOf(fast[side])) + 1
          PROVE  LET p == SweepPrice(side, fast[side], size)
                 IN  /\ TotalTo(side, SideOf(fast[side]), p)
                          >= Min({size, SumFunction(SideOf(fast[side]))})
                     /\ \A e \in Range(fast[side]) : e.key < Key(side, p)
                          => TotalTo(side, SideOf(fast[side]), PriceOf(side, e.key)) < size
      <3> DEFINE arr == fast[side]
      <3>1. Entries(arr) /\ arr # <<>>
        BY <2>2, <2>4
      <3> HIDE DEF arr
      <3>2. SumFunction(SideOf(arr)) \in Int
        BY <3>1, WholeIs, TotalAtLevel
      <3>3. size \in Int
        BY <2>4, <3>2 DEF arr
      <3> QED
        BY <3>1, <3>3, SweepIs DEF arr
    <2> QED
      BY <2>1, <2>3, <2>4 DEF SweepMatchesDepth
  <1> QED
    BY <1>1, FeedInductive, PTL

(* For arrays of any length: what the aggregation of a side returns is the *)
(* grouping of all its levels by their rounded prices, every group once,   *)
(* and a rounded price is never better than the level's.                   *)
THEOREM AggregateHolds == Spec => []AggregateIsGroupBy
  <1>1. FeedInv => AggregateIsGroupBy
    <2>1. ASSUME FeedInv, NEW side \in Sides, NEW ticks \in {<<1, 2>>, <<2, 4>>}, NEW nFine \in 0..2
          PROVE  GroupBy(side, fast[side], ticks, nFine)
      <3>1. Entries(fast[side]) /\ nFine \in Nat
        BY <2>1 DEF FeedInv, Compiled
      <3> QED
        BY <3>1, AggregateIs
    <2> QED
      BY <2>1, Zenon DEF AggregateIsGroupBy, GroupBy
  <1> QED
    BY <1>1, FeedInductive, PTL
=============================================================================
