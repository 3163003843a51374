---------------------------- MODULE SharedLemmas ----------------------------
(***************************************************************************)
(* What a client will make of the messages in flight, for proofs that its  *)
(* copy of something follows the original, and what a loop over a message  *)
(* makes of what it updates.  A client that handles messages one after the *)
(* other goes through a path of views; a copy follows when the last view   *)
(* of the path agrees with the original.  Sending extends the path at its  *)
(* end, handling shortens it at its beginning.  Below: loops, what the     *)
(* folds of the library compute over a finite set, and totals.             *)
(***************************************************************************)
EXTENDS Integers, Sequences, FiniteSetsExt, SequenceTheorems, FiniteSetTheorems,
        WellFoundedInduction, TLAPS

CONSTANT Effect(_, _)   \* the view after a message, from the view before it

IsSeq(s) == \E S : s \in Seq(S)

(* h[i] is the view once i of the messages are handled.                    *)
Path(h, v, msgs) ==
  /\ h[0] = v
  /\ \A i \in 1..Len(msgs) : h[i] = Effect(h[i - 1], msgs[i])

(* The messages take the view v to the view w.                             *)
Leads(v, msgs, w) == \E h : Path(h, v, msgs) /\ h[Len(msgs)] = w

LEMMA SeqConcat ==
  ASSUME NEW s, NEW t, IsSeq(s), IsSeq(t)
  PROVE  /\ IsSeq(s \o t)
         /\ Len(s) \in Nat /\ Len(t) \in Nat /\ Len(s \o t) = Len(s) + Len(t)
         /\ \A i \in 1..Len(s) : (s \o t)[i] = s[i]
         /\ \A i \in 1..Len(t) : (s \o t)[Len(s) + i] = t[i]
  <1>1. PICK S1 : s \in Seq(S1)
    BY DEF IsSeq
  <1>2. PICK S2 : t \in Seq(S2)
    BY DEF IsSeq
  <1> DEFINE T == S1 \cup S2
  <1>3. s \in Seq(T) /\ t \in Seq(T)
    BY <1>1, <1>2, SeqMonotonic
  <1> HIDE DEF T
  <1>4. s \o t \in Seq(T)
    BY <1>3
  <1>5. Len(s) \in Nat /\ Len(t) \in Nat /\ Len(s \o t) = Len(s) + Len(t)
    BY <1>3, ConcatProperties, LenProperties
  <1>6. \A i \in 1..Len(s \o t) : (s \o t)[i] = IF i <= Len(s) THEN s[i] ELSE t[i - Len(s)]
    BY <1>3, ConcatProperties
  <1> QED
    BY <1>4, <1>5, <1>6 DEF IsSeq

(* Further messages in flight are further steps of the path.               *)
LEMMA LeadsConcat ==
  ASSUME NEW s, NEW t, IsSeq(s), IsSeq(t), NEW v, NEW w, NEW x, Leads(v, s, w), Leads(w, t, x)
  PROVE  Leads(v, s \o t, x)
  <1>1. PICK h : Path(h, v, s) /\ h[Len(s)] = w
    BY DEF Leads
  <1>2. PICK g : Path(g, w, t) /\ g[Len(t)] = x
    BY DEF Leads
  <1> DEFINE n == Len(s)
             l == Len(t)
             u == s \o t
             k == [i \in 0..(n + l) |-> IF i <= n THEN h[i] ELSE g[i - n]]
  <1>3. /\ n \in Nat /\ l \in Nat /\ Len(u) = n + l
        /\ \A i \in 1..n : u[i] = s[i]
        /\ \A i \in 1..l : u[n + i] = t[i]
    BY SeqConcat
  <1> HIDE DEF u, n, l
  <1>4. \A i \in 0..l : k[n + i] = g[i]
    <2>1. g[0] = h[n]
      BY <1>1, <1>2 DEF Path, n
    <2> QED
      BY <1>3, <2>1
  <1>5. \A i \in 0..n : k[i] = h[i]
    BY <1>3
  <1> HIDE DEF k
  <1>6. k[0] = v /\ k[n + l] = x
    BY <1>1, <1>2, <1>3, <1>4, <1>5 DEF Path, l
  <1>7. ASSUME NEW i \in 1..(n + l) PROVE k[i] = Effect(k[i - 1], u[i])
    <2>1. CASE i \in 1..n
      <3>1. k[i] = h[i] /\ k[i - 1] = h[i - 1] /\ u[i] = s[i]
        BY <1>3, <1>5, <2>1
      <3>2. h[i] = Effect(h[i - 1], s[i])
        BY <1>1, <2>1 DEF Path, n
      <3> QED
        BY <3>1, <3>2
    <2>2. CASE i \notin 1..n
      <3> DEFINE j == i - n
      <3>1. j \in 1..l /\ j - 1 \in 0..l /\ n + j = i /\ n + (j - 1) = i - 1
        BY <1>3, <2>2
      <3> HIDE DEF j
      <3>2. k[i] = g[j] /\ k[i - 1] = g[j - 1] /\ u[i] = t[j]
        BY <1>3, <1>4, <3>1
      <3>3. g[j] = Effect(g[j - 1], t[j])
        BY <1>2, <3>1 DEF Path, l
      <3> QED
        BY <3>2, <3>3
    <2> QED
      BY <2>1, <2>2
  <1>8. Path(k, v, u) /\ k[Len(u)] = x
    BY <1>3, <1>6, <1>7 DEF Path
  <1> QED
    BY <1>8 DEF Leads, u

(* The path of a few messages.                                             *)
LEMMA LeadsFew ==
  ASSUME NEW w, NEW a, NEW b
  PROVE  /\ Leads(w, <<>>, w) /\ IsSeq(<<>>)
         /\ Leads(w, <<a>>, Effect(w, a)) /\ IsSeq(<<a>>)
         /\ Leads(w, <<a, b>>, Effect(Effect(w, a), b)) /\ IsSeq(<<a, b>>)
  <1> DEFINE T == {a, b}
             w1 == Effect(w, a)
             w2 == Effect(w1, b)
             h == [i \in 0..2 |-> IF i = 0 THEN w ELSE IF i = 1 THEN w1 ELSE w2]
  <1>1. <<>> \in Seq(T) /\ <<a>> \in Seq(T) /\ <<a, b>> \in Seq(T)
    OBVIOUS
  <1>2. h[0] = w /\ h[1] = w1 /\ h[2] = w2
    OBVIOUS
  <1>3. h[1] = Effect(h[0], a) /\ h[2] = Effect(h[1], b)
    BY <1>2
  <1> HIDE DEF h, w1, w2
  <1>4. Path(h, w, <<>>) /\ Len(<<>>) = 0
    BY <1>2 DEF Path
  <1>5. Path(h, w, <<a>>) /\ Len(<<a>>) = 1
    BY <1>2, <1>3 DEF Path
  <1>6. Path(h, w, <<a, b>>) /\ Len(<<a, b>>) = 2
    BY <1>2, <1>3 DEF Path
  <1>7. Leads(w, <<>>, w) /\ Leads(w, <<a>>, w1) /\ Leads(w, <<a, b>>, w2)
    BY <1>2, <1>4, <1>5, <1>6 DEF Leads
  <1> QED
    BY <1>1, <1>7 DEF IsSeq, w1, w2

(* The first message handled is the first step of the path taken.          *)
LEMMA LeadsTail ==
  ASSUME NEW v, NEW s, NEW w, IsSeq(s), s # <<>>, Leads(v, s, w)
  PROVE  IsSeq(Tail(s)) /\ Leads(Effect(v, Head(s)), Tail(s), w)
  <1>1. PICK S : s \in Seq(S)
    BY DEF IsSeq
  <1>2. PICK h : Path(h, v, s) /\ h[Len(s)] = w
    BY DEF Leads
  <1> DEFINE t == Tail(s)
             n == Len(t)
             k == [i \in 0..n |-> h[i + 1]]
  <1>3. /\ t \in Seq(S) /\ n \in Nat /\ Len(s) = n + 1 /\ Head(s) = s[1]
        /\ \A i \in 1..n : t[i] = s[i + 1]
    BY <1>1, HeadTailProperties, LenProperties
  <1> HIDE DEF t
  <1>4. k[0] = Effect(v, Head(s)) /\ k[n] = w
    <2>1. h[1] = Effect(h[1 - 1], s[1]) /\ h[0] = v
      BY <1>2, <1>3 DEF Path
    <2> QED
      BY <1>2, <1>3, <2>1
  <1>5. ASSUME NEW i \in 1..n PROVE k[i] = Effect(k[i - 1], t[i])
    <2>1. k[i] = h[i + 1] /\ k[i - 1] = h[i] /\ t[i] = s[i + 1]
      BY <1>3
    <2>2. h[i + 1] = Effect(h[(i + 1) - 1], s[i + 1])
      BY <1>2, <1>3 DEF Path
    <2> QED
      BY <2>1, <2>2
  <1> HIDE DEF k
  <1>6. Path(k, Effect(v, Head(s)), t)
    BY <1>4, <1>5 DEF Path
  <1> QED
    BY <1>3, <1>4, <1>6 DEF Leads, IsSeq, t

(* Without messages the view stays as it is.                               *)
LEMMA LeadsNowhere == \A v, w : Leads(v, <<>>, w) => w = v
  BY DEF Leads, Path

-----------------------------------------------------------------------------
(* Loops.                                                                  *)

LEMMA Least ==
  ASSUME NEW T \in SUBSET Nat, T # {}
  PROVE  \E m \in T : \A k \in T : m <= k
  <1> DEFINE R == OpToRel(<, Nat)
  <1>1. IsWellFoundedOn(R, Nat)
    BY NatLessThanWellFounded
  <1>2. \A x, y \in Nat : x < y => <<x, y>> \in R
    BY DEF OpToRel
  <1> HIDE DEF R
  <1>3. PICK m \in T : \A y \in T : ~(<<y, m>> \in R)
    BY <1>1, WFMin
  <1>4. ASSUME NEW k \in T PROVE m <= k
    <2>1. ~(k < m)
      BY <1>2, <1>3
    <2> QED
      BY <2>1
  <1> QED
    BY <1>4

(* What holds at first and after every turn holds after all of them.       *)
LEMMA Turns ==
  ASSUME NEW l \in Nat, NEW T, 0 \in T, \A n \in 1..l : n - 1 \in T => n \in T
  PROVE  \A n \in 0..l : n \in T
  <1> DEFINE U == {n \in 0..l : n \notin T}
  <1>1. CASE U = {}
    BY <1>1
  <1>2. CASE U # {}
    <2>1. U \in SUBSET Nat
      OBVIOUS
    <2>2. PICK m \in U : \A k \in U : m <= k
      BY <1>2, <2>1, Least
    <2>3. m \in 1..l /\ m - 1 \in 0..l /\ m - 1 \notin U
      BY <2>2
    <2> QED
      BY <2>2, <2>3
  <1> QED
    BY <1>1, <1>2

(* h[n] is what a loop over s, begun with v, has after n turns.            *)
IsLoop(h, v, s) ==
  /\ h = [n \in 0..Len(s) |-> h[n]]
  /\ h[0] = v
  /\ \A n \in 1..Len(s) : h[n] = Effect(h[n - 1], s[n])

LEMMA LoopExists ==
  ASSUME NEW v, NEW s, Len(s) \in Nat
  PROVE  \E h : IsLoop(h, v, s)
  <1> DEFINE Steps(h, l) == h = [n \in 0..l |-> IF n = 0 THEN v ELSE Effect(h[n - 1], s[n])]
             Possible(l) == \E h : Steps(h, l)
             T == {l \in Nat : ~Possible(l)}
  <1>1. ASSUME T = {} PROVE Possible(Len(s))
    BY <1>1
  <1>2. ASSUME T # {} PROVE FALSE
    <2>1. PICK m \in T : \A k \in T : m <= k
      BY <1>2, Least
    <2>2. CASE m = 0
      <3> DEFINE h == [n \in 0..0 |-> v]
      <3>1. Steps(h, 0)
        OBVIOUS
      <3> HIDE DEF h
      <3> QED
        BY <2>1, <2>2, <3>1
    <2>3. CASE m # 0
      <3>1. m - 1 \in Nat /\ Possible(m - 1)
        <4> HIDE DEF Possible
        <4> QED
          BY <2>1, <2>3
      <3>2. PICK g : Steps(g, m - 1)
        BY <3>1
      <3> DEFINE h == [n \in 0..m |-> IF n = m THEN Effect(g[m - 1], s[m]) ELSE g[n]]
      <3>3. \A n \in 0..(m - 1) : h[n] = g[n]
        BY <3>1
      <3>4. h[m] = Effect(h[m - 1], s[m])
        BY <3>1, <3>3
      <3>5. ASSUME NEW n \in 0..m PROVE h[n] = IF n = 0 THEN v ELSE Effect(h[n - 1], s[n])
        <4>1. CASE n = m
          BY <2>3, <3>4, <4>1
        <4>2. CASE n # m
          <5>1. n \in 0..(m - 1)
            BY <3>1, <4>2
          <5>2. g[n] = IF n = 0 THEN v ELSE Effect(g[n - 1], s[n])
            BY <3>2, <5>1
          <5> QED
            BY <3>3, <5>1, <5>2
        <4> QED
          BY <4>1, <4>2
      <3>6. DOMAIN h = 0..m /\ h = [n \in 0..m |-> h[n]]
        OBVIOUS
      <3> HIDE DEF h
      <3>7. Steps(h, m)
        BY <3>5, <3>6
      <3> QED
        BY <2>1, <3>7
    <2> QED
      BY <2>2, <2>3
  <1>3. PICK h : Steps(h, Len(s))
    BY <1>1, <1>2
  <1>4. h = [n \in 0..Len(s) |-> h[n]]
        /\ \A n \in 0..Len(s) : h[n] = IF n = 0 THEN v ELSE Effect(h[n - 1], s[n])
    BY <1>3
  <1>5. h[0] = v /\ \A n \in 1..Len(s) : h[n] = Effect(h[n - 1], s[n])
    BY <1>4
  <1> QED
    BY <1>4, <1>5 DEF IsLoop
-----------------------------------------------------------------------------
(* Folds over finite sets.                                                 *)

LEMMA SubsetFacts ==
  ASSUME NEW B, IsFiniteSet(B), NEW s \in SUBSET B
  PROVE  /\ IsFiniteSet(s)
         /\ Cardinality(s) \in Nat /\ Cardinality(s) <= Cardinality(B)
         /\ Cardinality(s) = 0 <=> s = {}
         /\ \A x \in s : s \ {x} \in SUBSET B /\ Cardinality(s \ {x}) = Cardinality(s) - 1
  <1>1. IsFiniteSet(s) /\ Cardinality(s) <= Cardinality(B)
    BY FS_Subset
  <1>2. Cardinality(s) \in Nat
    BY <1>1, FS_CardinalityType
  <1>3. Cardinality(s) = 0 <=> s = {}
    BY <1>1, FS_EmptySet
  <1>4. \A x \in s : Cardinality(s \ {x}) = Cardinality(s) - 1
    BY <1>1, FS_RemoveElement
  <1> QED
    BY <1>1, <1>2, <1>3, <1>4

(* What holds for a set when it holds for the set without any one of its   *)
(* elements holds for every subset of a finite set.                        *)
LEMMA Subsets ==
  ASSUME NEW B, IsFiniteSet(B), NEW T,
         \A s \in SUBSET B : (\A x \in s : s \ {x} \in T) => s \in T
  PROVE  \A s \in SUBSET B : s \in T
  <1> DEFINE U == {s \in SUBSET B : s \notin T}
             N == {Cardinality(s) : s \in U}
  <1>1. CASE U = {}
    BY <1>1
  <1>2. CASE U # {}
    <2>1. N \in SUBSET Nat /\ N # {}
      BY <1>2, SubsetFacts
    <2>2. PICK m \in N : \A k \in N : m <= k
      BY <2>1, Least
    <2>3. PICK s \in U : m = Cardinality(s)
      BY <2>2
    <2>4. ASSUME NEW x \in s PROVE s \ {x} \in T
      <3>1. s \ {x} \in SUBSET B /\ Cardinality(s \ {x}) = m - 1 /\ m \in Nat
        BY <2>3, SubsetFacts
      <3>2. m - 1 \notin N
        <4> HIDE DEF N
        <4> QED
          BY <2>2, <3>1
      <3> QED
        BY <3>1, <3>2
    <2> QED
      BY <2>3, <2>4
  <1> QED
    BY <1>1, <1>2

(* A fold adds numbers up, or takes a view through messages.               *)
Folded(adds, v, m) == IF adds THEN m + v ELSE Effect(v, m)

(* it[s] is what the fold has made of the elements of s, the last of them  *)
(* pick[s].                                                                *)
IsFold(it, pick, adds, v, msgs, B) ==
  it = [s \in SUBSET B |->
          IF s = {} THEN v ELSE Folded(adds, it[s \ {pick[s]}], msgs[pick[s]])]

LEMMA FoldExists ==
  ASSUME NEW B, IsFiniteSet(B), NEW adds, NEW v, NEW msgs, NEW pick,
         \A s \in SUBSET B : s # {} => pick[s] \in s
  PROVE  \E it : IsFold(it, pick, adds, v, msgs, B)
  <1> DEFINE Small(n) == {s \in SUBSET B : Cardinality(s) <= n}
             Turn(h, s) == IF s = {} THEN v ELSE Folded(adds, h[s \ {pick[s]}], msgs[pick[s]])
             UpTo(h, n) == h = [s \in Small(n) |-> Turn(h, s)]
             T == {n \in Nat : \E h : UpTo(h, n)}
             l == Cardinality(B)
  <1>1. l \in Nat
    BY FS_CardinalityType
  <1>2. 0 \in T
    <2> DEFINE h == [s \in Small(0) |-> v]
    <2>1. ASSUME NEW s \in Small(0) PROVE Turn(h, s) = v
      <3>1. s = {}
        BY SubsetFacts
      <3> QED
        BY <3>1
    <2>2. UpTo(h, 0)
      BY <2>1
    <2> QED
      BY <2>2
  <1>3. ASSUME NEW n \in 1..l, n - 1 \in T PROVE n \in T
    <2>1. PICK h : UpTo(h, n - 1)
      BY <1>3
    <2> DEFINE g == [s \in Small(n) |-> IF s \in Small(n - 1) THEN h[s] ELSE Turn(h, s)]
    <2>2. ASSUME NEW s \in Small(n) PROVE g[s] = Turn(g, s)
      <3>1. ASSUME s # {} PROVE s \ {pick[s]} \in Small(n - 1) /\ s \ {pick[s]} \in Small(n)
        <4>1. s \in SUBSET B /\ pick[s] \in s /\ Cardinality(s) <= n
          BY <3>1
        <4>2. s \ {pick[s]} \in SUBSET B /\ Cardinality(s \ {pick[s]}) = Cardinality(s) - 1
              /\ Cardinality(s) \in Nat
          BY <4>1, SubsetFacts
        <4> QED
          BY <4>1, <4>2
      <3>2. ASSUME s # {} PROVE g[s \ {pick[s]}] = h[s \ {pick[s]}]
        BY <3>1, <3>2
      <3>3. Turn(g, s) = Turn(h, s)
        BY <3>2
      <3>4. ASSUME s \in Small(n - 1) PROVE h[s] = Turn(h, s)
        BY <2>1, <3>4
      <3> QED
        BY <3>3, <3>4
    <2>3. g = [s \in Small(n) |-> g[s]]
      OBVIOUS
    <2> HIDE DEF g
    <2>4. UpTo(g, n)
      BY <2>2, <2>3
    <2>5. n \in Nat
      BY <1>1
    <2> HIDE DEF UpTo
    <2> QED
      BY <2>4, <2>5
  <1>4. l \in T
    <2> HIDE DEF T, l
    <2>1. \A n \in 0..l : n \in T
      BY <1>1, <1>2, <1>3, Turns
    <2> QED
      BY <1>1, <2>1
  <1>5. Small(l) = SUBSET B
    BY SubsetFacts
  <1>6. PICK h : UpTo(h, l)
    BY <1>4
  <1>7. h = [s \in SUBSET B |-> Turn(h, s)]
    BY <1>5, <1>6
  <1> QED
    BY <1>7 DEF IsFold

(* A fold of messages that takes the greatest of the numbers 1..l last is  *)
(* a loop over them.                                                       *)
IsLeftFold(it, pick, v, msgs, l) ==
  it = [s \in SUBSET (1..l) |->
          IF s = {} THEN v ELSE Effect(it[s \ {pick[s]}], msgs[pick[s]])]

PicksGreatest(pick, l) ==
  \A s \in SUBSET (1..l) : s # {} => pick[s] \in s /\ \A k \in s : k <= pick[s]

(* What it has made of the first n messages.                               *)
Onward(it, v, msgs, l) ==
  /\ it[1..0] = v
  /\ \A n \in 1..l : it[1..n] = Effect(it[1..(n - 1)], msgs[n])

LEMMA LeftFoldExists ==
  ASSUME NEW l \in Nat, NEW pick, NEW v, NEW msgs, PicksGreatest(pick, l)
  PROVE  \E it : IsLeftFold(it, pick, v, msgs, l)
  <1>1. IsFiniteSet(1..l) /\ \A s \in SUBSET (1..l) : s # {} => pick[s] \in s
    <2>1. 1 \in Int /\ l \in Int
      OBVIOUS
    <2>2. IsFiniteSet(1..l)
      BY <2>1, FS_Interval, Zenon
    <2>3. \A s \in SUBSET (1..l) : s # {} => pick[s] \in s
      BY Zenon DEF PicksGreatest
    <2> QED
      BY <2>2, <2>3
  <1>2. PICK it : IsFold(it, pick, FALSE, v, msgs, 1..l)
    BY <1>1, FoldExists
  <1>3. IsLeftFold(it, pick, v, msgs, l)
    BY <1>2 DEF IsFold, Folded, IsLeftFold
  <1> QED
    BY <1>3

LEMMA LeftFold ==
  ASSUME NEW l \in Nat, NEW pick, NEW v, NEW msgs, PicksGreatest(pick, l),
         NEW it, IsLeftFold(it, pick, v, msgs, l)
  PROVE  Onward(it, v, msgs, l)
  <1>1. \A s \in SUBSET (1..l) :
          it[s] = IF s = {} THEN v ELSE Effect(it[s \ {pick[s]}], msgs[pick[s]])
    BY DEF IsLeftFold
  <1>2. it[1..0] = v
    <2>1. it[{}] = v
      BY <1>1
    <2>2. 1..0 = {}
      OBVIOUS
    <2> QED
      BY <2>1, <2>2
  <1>3. ASSUME NEW n \in 1..l PROVE it[1..n] = Effect(it[1..(n - 1)], msgs[n])
    <2>1. 1..n \in SUBSET (1..l) /\ 1..n # {} /\ n \in 1..n
      OBVIOUS
    <2>2. pick[1..n] = n
      <3>1. pick[1..n] \in 1..n /\ n <= pick[1..n]
        BY <2>1 DEF PicksGreatest
      <3> QED
        BY <3>1
    <2>3. (1..n) \ {n} = 1..(n - 1)
      OBVIOUS
    <2> QED
      BY <1>1, <2>1, <2>2, <2>3
  <1> QED
    BY <1>2, <1>3 DEF Onward

-----------------------------------------------------------------------------
(* Totals.                                                                 *)

Choice(s) == CHOOSE x \in s : TRUE

(* t[s] is the total of f over s, for the subsets s of B.                  *)
IsTotal(t, f, B) ==
  t = [s \in SUBSET B |-> IF s = {} THEN 0 ELSE f[Choice(s)] + t[s \ {Choice(s)}]]

LEMMA ChoiceIn == \A s : s # {} => Choice(s) \in s
  BY DEF Choice

LEMMA TotalExists ==
  ASSUME NEW B, IsFiniteSet(B), NEW f
  PROVE  \E t : IsTotal(t, f, B)
  <1> DEFINE pick == [s \in SUBSET B |-> Choice(s)]
  <1>1. \A s \in SUBSET B : pick[s] = Choice(s)
    OBVIOUS
  <1> HIDE DEF pick
  <1>2. \A s \in SUBSET B : s # {} => pick[s] \in s
    BY <1>1, ChoiceIn
  <1>3. PICK t : IsFold(t, pick, TRUE, 0, f, B)
    BY <1>2, FoldExists
  <1>4. \A s \in SUBSET B : s # {} =>
          Folded(TRUE, t[s \ {pick[s]}], f[pick[s]]) = f[Choice(s)] + t[s \ {Choice(s)}]
    BY <1>1 DEF Folded
  <1>5. t = [s \in SUBSET B |-> t[s]]
    BY <1>3 DEF IsFold
  <1>6. ASSUME NEW s \in SUBSET B
        PROVE  t[s] = IF s = {} THEN 0 ELSE f[Choice(s)] + t[s \ {Choice(s)}]
    <2>1. t[s] = IF s = {} THEN 0 ELSE Folded(TRUE, t[s \ {pick[s]}], f[pick[s]])
      BY <1>3 DEF IsFold
    <2> QED
      BY <1>4, <2>1
  <1> QED
    BY <1>5, <1>6 DEF IsTotal

LEMMA SumIsTotal ==
  ASSUME NEW B, IsFiniteSet(B), NEW f
  PROVE  \E t : IsTotal(t, f, B) /\ SumFunctionOnSet(f, B) = t[B]
  <1> DEFINE IsIt(t) == t = [s \in SUBSET B |->
                                 IF s = {} THEN 0 ELSE f[Choice(s)] + t[s \ {Choice(s)}]]
             sum == CHOOSE t : IsIt(t)
  <1>1. SumFunctionOnSet(f, B) = sum[B]
    BY DEF SumFunctionOnSet, FoldFunctionOnSet, MapThenFoldSet, Choice
  <1>2. PICK t : IsTotal(t, f, B)
    BY TotalExists
  <1>3. IsIt(t)
    BY <1>2 DEF IsTotal
  <1>4. IsTotal(sum, f, B)
    <2> HIDE DEF IsIt
    <2>1. IsIt(sum)
      BY <1>3
    <2> QED
      BY <2>1 DEF IsTotal, IsIt
  <1> QED
    BY <1>1, <1>4

LEMMA TotalsAgree ==
  ASSUME NEW B, NEW C, NEW S, IsFiniteSet(S), S \subseteq B, S \subseteq C,
         NEW t, NEW u, NEW f, NEW g, IsTotal(t, f, B), IsTotal(u, g, C),
         \A x \in S : f[x] = g[x]
  PROVE  t[S] = u[S]
  <1> DEFINE T == {s \in SUBSET S : t[s] = u[s]}
  <1>1. ASSUME NEW s \in SUBSET S, \A x \in s : s \ {x} \in T PROVE s \in T
    <2>1. /\ t[s] = IF s = {} THEN 0 ELSE f[Choice(s)] + t[s \ {Choice(s)}]
          /\ u[s] = IF s = {} THEN 0 ELSE g[Choice(s)] + u[s \ {Choice(s)}]
      BY DEF IsTotal
    <2>2. CASE s = {}
      BY <2>1, <2>2
    <2>3. CASE s # {}
      <3>1. Choice(s) \in s
        BY <2>3, ChoiceIn
      <3>2. f[Choice(s)] = g[Choice(s)] /\ t[s \ {Choice(s)}] = u[s \ {Choice(s)}]
        BY <1>1, <3>1
      <3> QED
        BY <2>1, <3>2
    <2> QED
      BY <2>2, <2>3
  <1> HIDE DEF T
  <1>2. \A s \in SUBSET S : s \in T
    BY <1>1, Subsets
  <1> QED
    BY <1>2 DEF T

(* A total over S is the sum.                                              *)
LEMMA TotalIsSum ==
  ASSUME NEW B, NEW S, IsFiniteSet(S), S \subseteq B,
         NEW t, NEW f, NEW g, IsTotal(t, f, B), \A x \in S : f[x] = g[x]
  PROVE  t[S] = SumFunctionOnSet(g, S)
  <1>1. PICK u : IsTotal(u, g, S) /\ SumFunctionOnSet(g, S) = u[S]
    BY SumIsTotal
  <1>2. t[S] = u[S]
    BY <1>1, TotalsAgree
  <1> QED
    BY <1>1, <1>2

LEMMA SumEqual ==
  ASSUME NEW S, IsFiniteSet(S), NEW f, NEW g, \A x \in S : f[x] = g[x]
  PROVE  SumFunctionOnSet(f, S) = SumFunctionOnSet(g, S)
  <1>1. PICK t : IsTotal(t, f, S) /\ SumFunctionOnSet(f, S) = t[S]
    BY SumIsTotal
  <1>2. t[S] = SumFunctionOnSet(g, S)
    BY <1>1, TotalIsSum
  <1> QED
    BY <1>1, <1>2

(* The sum of numbers is a number, and any of them may be taken first.     *)
LEMMA SumFacts ==
  ASSUME NEW B, IsFiniteSet(B), NEW f, \A x \in B : f[x] \in Int
  PROVE  \A S \in SUBSET B :
           /\ SumFunctionOnSet(f, S) \in Int
           /\ S = {} => SumFunctionOnSet(f, S) = 0
           /\ \A x \in S : SumFunctionOnSet(f, S) = f[x] + SumFunctionOnSet(f, S \ {x})
  <1> DEFINE sum(S) == SumFunctionOnSet(f, S)
             N == {S \in SUBSET B : sum(S) \in Int}
             T == {S \in SUBSET B : \A x \in S : sum(S) = f[x] + sum(S \ {x})}
  <1>1. PICK t : IsTotal(t, f, B)
    BY TotalExists
  <1>2. ASSUME NEW s \in SUBSET B PROVE t[s] = sum(s)
    <2>1. IsFiniteSet(s)
      BY SubsetFacts
    <2> QED
      BY <1>1, <2>1, TotalIsSum
  <1>3. ASSUME NEW s \in SUBSET B
        PROVE  sum(s) = IF s = {} THEN 0 ELSE f[Choice(s)] + sum(s \ {Choice(s)})
    <2>1. t[s] = IF s = {} THEN 0 ELSE f[Choice(s)] + t[s \ {Choice(s)}]
      BY <1>1 DEF IsTotal
    <2> QED
      BY <1>2, <2>1
  <1> HIDE DEF sum
  <1>4. \A s \in SUBSET B : sum(s) \in Int
    <2>1. ASSUME NEW s \in SUBSET B, \A x \in s : s \ {x} \in N PROVE s \in N
      <3>1. CASE s = {}
        <4>1. sum(s) = 0
          BY <1>3, <3>1
        <4> QED
          BY <4>1
      <3>2. CASE s # {}
        <4>1. Choice(s) \in s
          BY <3>2, ChoiceIn
        <4>2. f[Choice(s)] \in Int /\ sum(s \ {Choice(s)}) \in Int
          BY <2>1, <4>1
        <4>3. sum(s) \in Int
          BY <1>3, <3>2, <4>2
        <4> QED
          BY <4>3
      <3> QED
        BY <3>1, <3>2
    <2> HIDE DEF N
    <2>2. \A s \in SUBSET B : s \in N
      BY <2>1, Subsets
    <2> QED
      BY <2>2 DEF N
  <1>5. ASSUME NEW s \in SUBSET B, \A x \in s : s \ {x} \in T PROVE s \in T
    <2> SUFFICES ASSUME NEW x \in s PROVE sum(s) = f[x] + sum(s \ {x})
      OBVIOUS
    <2> DEFINE c == Choice(s)
    <2>1. c \in s /\ sum(s) = f[c] + sum(s \ {c})
      BY <1>3, ChoiceIn
    <2> HIDE DEF c
    <2>2. CASE x = c
      BY <2>1, <2>2
    <2>3. CASE x # c
      <3>1. sum(s \ {c}) = f[x] + sum((s \ {c}) \ {x})
        BY <1>5, <2>1, <2>3
      <3>2. sum(s \ {x}) = f[c] + sum((s \ {x}) \ {c})
        BY <1>5, <2>1, <2>3
      <3>3. (s \ {c}) \ {x} = (s \ {x}) \ {c}
        OBVIOUS
      <3> DEFINE rest == sum((s \ {x}) \ {c})
      <3>4. rest \in Int /\ f[x] \in Int /\ f[c] \in Int
        BY <1>4, <2>1
      <3>5. sum(s) = f[c] + (f[x] + rest) /\ sum(s \ {x}) = f[c] + rest
        BY <2>1, <3>1, <3>2, <3>3
      <3> HIDE DEF rest
      <3> QED
        BY <3>4, <3>5
    <2> QED
      BY <2>2, <2>3
  <1> HIDE DEF T
  <1>6. \A s \in SUBSET B : s \in T
    BY <1>5, Subsets
  <1>7. \A s \in SUBSET B : s = {} => sum(s) = 0
    BY <1>3
  <1> QED
    BY <1>4, <1>6, <1>7 DEF T, sum

LEMMA SumUnion ==
  ASSUME NEW B, IsFiniteSet(B), NEW f, \A x \in B : f[x] \in Int,
         NEW S \in SUBSET B, NEW R \in SUBSET B, S \cap R = {}
  PROVE  SumFunctionOnSet(f, S \cup R) = SumFunctionOnSet(f, S) + SumFunctionOnSet(f, R)
  <1> DEFINE sum(s) == SumFunctionOnSet(f, s)
             T == {s \in SUBSET R : sum(S \cup s) = sum(S) + sum(s)}
  <1>1. \A s \in SUBSET B : /\ sum(s) \in Int
                            /\ s = {} => sum(s) = 0
                            /\ \A x \in s : sum(s) = f[x] + sum(s \ {x})
    BY SumFacts
  <1>2. IsFiniteSet(R)
    BY SubsetFacts
  <1> HIDE DEF sum
  <1>3. ASSUME NEW s \in SUBSET R, \A x \in s : s \ {x} \in T PROVE s \in T
    <2>1. CASE s = {}
      <3>1. S \cup s = S /\ sum(s) = 0 /\ sum(S) \in Int
        BY <1>1, <2>1
      <3>2. sum(S \cup s) = sum(S)
        BY <3>1
      <3>3. sum(S \cup s) = sum(S) + sum(s)
        BY <3>1, <3>2
      <3> QED
        BY <3>3
    <2>2. CASE s # {}
      <3>1. PICK x \in s : TRUE
        BY <2>2
      <3>2. sum(s) = f[x] + sum(s \ {x}) /\ sum(s \ {x}) \in Int
        BY <1>1, <3>1
      <3>3. x \in S \cup s /\ (S \cup s) \ {x} = S \cup (s \ {x}) /\ S \cup s \in SUBSET B
        BY <3>1
      <3>4. sum(S \cup s) = f[x] + sum(S \cup (s \ {x}))
        BY <1>1, <3>3
      <3>5. sum(S \cup (s \ {x})) = sum(S) + sum(s \ {x})
        BY <1>3, <3>1
      <3>6. f[x] \in Int /\ sum(S) \in Int
        BY <1>1, <3>1
      <3>7. sum(S \cup s) = sum(S) + sum(s)
        BY <3>2, <3>4, <3>5, <3>6
      <3> QED
        BY <3>7
    <2> QED
      BY <2>1, <2>2
  <1> HIDE DEF T
  <1>4. \A s \in SUBSET R : s \in T
    BY <1>2, <1>3, Subsets
  <1> QED
    BY <1>4 DEF T, sum

(* The same numbers under other names.                                     *)
LEMMA SumImage ==
  ASSUME NEW B, IsFiniteSet(B), NEW k, \A x, y \in B : k[x] = k[y] => x = y,
         NEW f, NEW g, \A x \in B : g[x] = f[k[x]] /\ g[x] \in Int
  PROVE  \A S \in SUBSET B :
           SumFunctionOnSet(f, {k[x] : x \in S}) = SumFunctionOnSet(g, S)
  <1> DEFINE K == {k[x] : x \in B}
             Image(s) == {k[x] : x \in s}
             sum(s) == SumFunctionOnSet(f, s)
             tot(s) == SumFunctionOnSet(g, s)
             T == {s \in SUBSET B : sum(Image(s)) = tot(s)}
  <1>1. IsFiniteSet(K)
    <2> DEFINE m == [x \in B |-> k[x]]
    <2>1. m \in Surjection(B, K)
      BY DEF Surjection
    <2> QED
      BY <2>1, FS_Surjection
  <1>2. \A z \in K : f[z] \in Int
    OBVIOUS
  <1>3. \A s \in SUBSET B : Image(s) \in SUBSET K
    OBVIOUS
  <1> HIDE DEF K
  <1>4. \A s \in SUBSET K : /\ s = {} => sum(s) = 0
                            /\ \A z \in s : sum(s) = f[z] + sum(s \ {z})
    BY <1>1, <1>2, SumFacts
  <1>5. \A s \in SUBSET B : /\ s = {} => tot(s) = 0
                            /\ \A x \in s : tot(s) = g[x] + tot(s \ {x})
    BY SumFacts
  <1> HIDE DEF sum, tot
  <1>6. ASSUME NEW s \in SUBSET B, \A x \in s : s \ {x} \in T PROVE s \in T
    <2>1. CASE s = {}
      <3>1. Image(s) = {}
        BY <2>1
      <3>2. sum(Image(s)) = tot(s)
        BY <1>4, <1>5, <2>1, <3>1
      <3> QED
        BY <3>2
    <2>2. CASE s # {}
      <3>1. PICK x \in s : TRUE
        BY <2>2
      <3>2. k[x] \in Image(s) /\ Image(s) \ {k[x]} = Image(s \ {x})
        BY <3>1
      <3>3. sum(Image(s \ {x})) = tot(s \ {x})
        BY <1>6, <3>1
      <3> HIDE DEF Image
      <3> DEFINE z == k[x]
      <3>4. sum(Image(s)) = f[z] + sum(Image(s) \ {z})
        BY <1>4, <1>3, <3>2
      <3>5. sum(Image(s) \ {z}) = tot(s \ {x})
        BY <3>2, <3>3
      <3>6. tot(s) = g[x] + tot(s \ {x}) /\ g[x] = f[z]
        BY <1>5, <3>1
      <3>7. sum(Image(s)) = tot(s)
        BY <3>4, <3>5, <3>6
      <3> QED
        BY <3>7
    <2> QED
      BY <2>1, <2>2
  <1> HIDE DEF T
  <1>7. \A s \in SUBSET B : s \in T
    BY <1>6, Subsets
  <1> QED
    BY <1>7 DEF T, sum, tot

LEMMA SumMinus ==
  ASSUME NEW B, IsFiniteSet(B), NEW f, NEW g, NEW d,
         \A x \in B : f[x] \in Int /\ g[x] \in Int /\ d[x] = f[x] - g[x]
  PROVE  SumFunctionOnSet(d, B) = SumFunctionOnSet(f, B) - SumFunctionOnSet(g, B)
  <1> DEFINE sf(s) == SumFunctionOnSet(f, s)
             sg(s) == SumFunctionOnSet(g, s)
             sd(s) == SumFunctionOnSet(d, s)
             T == {s \in SUBSET B : sd(s) = sf(s) - sg(s)}
  <1>1. \A x \in B : f[x] \in Int /\ g[x] \in Int /\ d[x] \in Int
    OBVIOUS
  <1>2. \A s \in SUBSET B : /\ sf(s) \in Int /\ (s = {} => sf(s) = 0)
                            /\ \A x \in s : sf(s) = f[x] + sf(s \ {x})
    BY SumFacts
  <1>3. \A s \in SUBSET B : /\ sg(s) \in Int /\ (s = {} => sg(s) = 0)
                            /\ \A x \in s : sg(s) = g[x] + sg(s \ {x})
    BY SumFacts
  <1>4. \A s \in SUBSET B : /\ sd(s) \in Int /\ (s = {} => sd(s) = 0)
                            /\ \A x \in s : sd(s) = d[x] + sd(s \ {x})
    BY <1>1, SumFacts
  <1> HIDE DEF sf, sg, sd
  <1>5. ASSUME NEW s \in SUBSET B, \A x \in s : s \ {x} \in T PROVE s \in T
    <2>1. CASE s = {}
      <3>1. sd(s) = sf(s) - sg(s)
        BY <1>2, <1>3, <1>4, <2>1
      <3> QED
        BY <3>1
    <2>2. CASE s # {}
      <3>1. PICK x \in s : TRUE
        BY <2>2
      <3>2. sd(s \ {x}) = sf(s \ {x}) - sg(s \ {x})
        BY <1>5, <3>1
      <3>3. sf(s \ {x}) \in Int /\ sg(s \ {x}) \in Int
        BY <1>2, <1>3
      <3>4. /\ sf(s) = f[x] + sf(s \ {x}) /\ sg(s) = g[x] + sg(s \ {x})
            /\ sd(s) = d[x] + sd(s \ {x})
        BY <1>2, <1>3, <1>4, <3>1
      <3>5. sd(s) = sf(s) - sg(s)
        BY <1>1, <3>1, <3>2, <3>3, <3>4
      <3> QED
        BY <3>5
    <2> QED
      BY <2>1, <2>2
  <1> HIDE DEF T
  <1>6. \A s \in SUBSET B : s \in T
    BY <1>5, Subsets
  <1> QED
    BY <1>6 DEF T, sf, sg, sd

LEMMA SumZero ==
  ASSUME NEW B, IsFiniteSet(B), NEW f, \A x \in B : f[x] = 0
  PROVE  SumFunctionOnSet(f, B) = 0
  <1>1. \A x \in B : f[x] \in Int /\ f[x] = f[x] - f[x]
    OBVIOUS
  <1>2. SumFunctionOnSet(f, B) = SumFunctionOnSet(f, B) - SumFunctionOnSet(f, B)
    BY <1>1, SumMinus
  <1>3. SumFunctionOnSet(f, B) \in Int
    BY <1>1, SumFacts
  <1> QED
    BY <1>2, <1>3

(* A change of one of the numbers is the change of the sum.                *)
LEMMA SumChange ==
  ASSUME NEW B, IsFiniteSet(B), NEW f, NEW g, NEW x \in B,
         \A y \in B : f[y] \in Int /\ g[y] \in Int /\ (y # x => f[y] = g[y])
  PROVE  /\ SumFunctionOnSet(f, B) \in Int
         /\ SumFunctionOnSet(g, B) = SumFunctionOnSet(f, B) + (g[x] - f[x])
  <1> DEFINE rest == B \ {x}
  <1>1. IsFiniteSet(rest) /\ rest \in SUBSET B
    BY SubsetFacts
  <1>2. SumFunctionOnSet(f, rest) = SumFunctionOnSet(g, rest)
    BY <1>1, SumEqual
  <1>3. /\ SumFunctionOnSet(f, B) = f[x] + SumFunctionOnSet(f, rest)
        /\ SumFunctionOnSet(f, B) \in Int /\ SumFunctionOnSet(f, rest) \in Int
    BY <1>1, SumFacts
  <1>4. SumFunctionOnSet(g, B) = g[x] + SumFunctionOnSet(g, rest)
    BY SumFacts
  <1> QED
    BY <1>2, <1>3, <1>4
=============================================================================
