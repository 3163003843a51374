--------------------------- MODULE BulkCliProofs ---------------------------
(***************************************************************************)
(* For every set of command lines, whatever the network, the chain and the *)
(* clock do and however often the user runs it.  wrap_admin_actions loses, *)
(* repeats and reorders nothing and every action goes through the multisig *)
(* it belongs to; a run has its transaction executed at most once and      *)
(* makes at most one transfer, and only what the user saw and agreed to; a *)
(* market comes up suspended; the server's own error is given only when    *)
(* all of it was read; and what is reported is what happened.              *)
(***************************************************************************)
EXTENDS BulkCli, SequenceTheorems, WellFoundedInduction, TLAPS

(* WellWrapped, of any list of actions.                                    *)
WellWrappedOf(list, actions) ==
  /\ \A k \in DOMAIN list : \A j \in DOMAIN list[k].at :
       BelongsTo(actions[list[k].at[j]], list[k].multisig)
  /\ \A k \in DOMAIN list : list[k].multisig = "none" => Len(list[k].at) = 1
  /\ \A k \in 1..(Len(list) - 1) :
       list[k].multisig # "none" => list[k + 1].multisig # list[k].multisig

Wraps(list, actions, n) == InOrder(list, n) /\ WellWrappedOf(list, actions)

(* The multisigs are any values, the positions are numbers.                *)
Proposals(M) == [multisig : M, at : Seq(Nat)]

-----------------------------------------------------------------------------
(* The list that is built grows by a proposal of its own or by an action   *)
(* in the last proposal.                                                   *)

(* A position before the last one.                                         *)
LEMMA NotLast ==
  ASSUME NEW n \in Nat, NEW k \in 1..n, k # n
  PROVE  k \in 1..(n - 1) /\ k + 1 \in 1..n
  OBVIOUS

(* What Append makes of a sequence.                                        *)
LEMMA AppendFacts ==
  ASSUME NEW S, NEW s \in Seq(S), NEW x \in S
  PROVE  /\ Append(s, x) \in Seq(S) /\ Append(s, x) # <<>>
         /\ Len(s) \in Nat /\ DOMAIN s = 1..Len(s)
         /\ Len(Append(s, x)) = Len(s) + 1 /\ DOMAIN Append(s, x) = 1..(Len(s) + 1)
         /\ \A i \in 1..Len(s) : Append(s, x)[i] = s[i]
         /\ Append(s, x)[Len(s) + 1] = x
  BY AppendProperties, LenProperties

(* Nothing is wrapped at first.                                            *)
LEMMA WrapsNothing == ASSUME NEW actions PROVE Wraps(<<>>, actions, 0)
  BY DEF Wraps, InOrder, WellWrappedOf

(* A single action in a proposal of its own, or as it is.                  *)
LEMMA WrapsAlone ==
  ASSUME NEW M, NEW actions, NEW list \in Seq(Proposals(M)), NEW n \in Nat, NEW m \in M,
         Wraps(list, actions, n),
         BelongsTo(actions[n + 1], m),
         list # <<>> /\ m # "none" => list[Len(list)].multisig # m
  PROVE  Wraps(Append(list, [multisig |-> m, at |-> <<n + 1>>]), actions, n + 1)
  <1> DEFINE p == [multisig |-> m, at |-> <<n + 1>>]
             new == Append(list, p)
  <1>1. p \in Proposals(M) /\ p.multisig = m /\ Len(p.at) = 1 /\ p.at[1] = n + 1 /\ p.at # <<>>
        /\ DOMAIN p.at = {1}
    BY DEF Proposals
  <1>2. /\ new \in Seq(Proposals(M)) /\ Len(new) = Len(list) + 1 /\ Len(list) \in Nat
        /\ DOMAIN new = 1..(Len(list) + 1) /\ DOMAIN list = 1..Len(list)
        /\ \A i \in 1..Len(list) : new[i] = list[i]
        /\ new[Len(list) + 1] = p
        /\ new # <<>>
    BY <1>1, AppendFacts
  <1> HIDE DEF new, p
  <1>5. Len(new) - 1 = Len(list)
    BY <1>2
  <1>3. InOrder(new, n + 1)
    <2>1. ASSUME NEW k \in DOMAIN new
          PROVE  /\ new[k].at # <<>>
                 /\ \A j \in 1..(Len(new[k].at) - 1) : new[k].at[j + 1] = new[k].at[j] + 1
      <3>1. CASE k \in 1..Len(list)
        BY <1>2, <3>1 DEF Wraps, InOrder
      <3>2. CASE k = Len(list) + 1
        BY <1>1, <1>2, <3>2
      <3> QED
        BY <1>2, <3>1, <3>2
    <2>2. ASSUME NEW k \in 1..Len(list)
          PROVE  new[k + 1].at[1] = Last(new[k].at) + 1
      <3>1. CASE k = Len(list)
        <4>1. list # <<>> /\ Last(list) = list[k]
          BY <1>2, <3>1 DEF Last
        <4>2. Last(Last(list).at) = n
          BY <4>1 DEF Wraps, InOrder
        <4> QED
          BY <1>1, <1>2, <3>1, <4>1, <4>2
      <3>2. CASE k # Len(list)
        <4>1. k \in 1..(Len(list) - 1) /\ k \in 1..Len(list) /\ k + 1 \in 1..Len(list)
          BY <1>2, <3>2, NotLast
        <4>2. list[k + 1].at[1] = Last(list[k].at) + 1
          BY <4>1 DEF Wraps, InOrder
        <4> QED
          BY <1>2, <4>1, <4>2
      <3> QED
        BY <3>1, <3>2
    <2>3. new[1].at[1] = 1 /\ Last(Last(new).at) = n + 1
      <3>1. Last(new) = p /\ Last(p.at) = n + 1
        BY <1>1, <1>2 DEF Last
      <3>2. CASE list = <<>>
        BY <1>1, <1>2, <3>1, <3>2 DEF Wraps, InOrder
      <3>3. CASE list # <<>>
        <4>1. list[1].at[1] = 1
          BY <3>3 DEF Wraps, InOrder
        <4>2. 1 \in 1..Len(list)
          BY <1>2, <3>3, EmptySeq
        <4> QED
          BY <1>2, <3>1, <4>1, <4>2
      <3> QED
        BY <3>2, <3>3
    <2> QED
      BY <1>2, <1>5, <2>1, <2>2, <2>3 DEF InOrder
  <1>4. WellWrappedOf(new, actions)
    <2>1. ASSUME NEW k \in DOMAIN new, NEW j \in DOMAIN new[k].at
          PROVE  BelongsTo(actions[new[k].at[j]], new[k].multisig)
      <3>1. CASE k \in 1..Len(list)
        BY <1>2, <3>1 DEF Wraps, WellWrappedOf
      <3>2. CASE k = Len(list) + 1
        BY <1>1, <1>2, <3>2
      <3> QED
        BY <1>2, <3>1, <3>2
    <2>2. ASSUME NEW k \in DOMAIN new, new[k].multisig = "none"
          PROVE  Len(new[k].at) = 1
      <3>1. CASE k \in 1..Len(list)
        BY <1>2, <2>2, <3>1 DEF Wraps, WellWrappedOf
      <3>2. CASE k = Len(list) + 1
        BY <1>1, <1>2, <3>2
      <3> QED
        BY <1>2, <3>1, <3>2
    <2>3. ASSUME NEW k \in 1..Len(list), new[k].multisig # "none"
          PROVE  new[k + 1].multisig # new[k].multisig
      <3>1. CASE k = Len(list)
        <4>1. list # <<>>
          BY <1>2, <3>1
        <4> QED
          BY <1>1, <1>2, <2>3, <3>1, <4>1
      <3>2. CASE k # Len(list)
        <4>1. k \in 1..(Len(list) - 1) /\ k \in 1..Len(list) /\ k + 1 \in 1..Len(list)
          BY <1>2, <3>2, NotLast
        <4> QED
          BY <1>2, <2>3, <4>1 DEF Wraps, WellWrappedOf
      <3> QED
        BY <3>1, <3>2
    <2> QED
      BY <1>5, <2>1, <2>2, <2>3 DEF WellWrappedOf
  <1> QED
    BY <1>3, <1>4 DEF Wraps, new, p

(* One more action in the last proposal.                                   *)
LEMMA WrapsMore ==
  ASSUME NEW M, NEW actions, NEW list \in Seq(Proposals(M)), NEW n \in Nat,
         NEW p \in Proposals(M),
         p.multisig # "none", p.at # <<>>,
         Wraps(Append(list, p), actions, n),
         BelongsTo(actions[n + 1], p.multisig)
  PROVE  Wraps(Append(list, [p EXCEPT !.at = Append(@, n + 1)]), actions, n + 1)
  <1> DEFINE q == [p EXCEPT !.at = Append(@, n + 1)]
             old == Append(list, p)
             new == Append(list, q)
             l == Len(p.at)
  <1>0. p.at \in Seq(Nat) /\ l \in Nat /\ l # 0
    BY DEF Proposals
  <1>1. q.at = Append(p.at, n + 1) /\ q.multisig = p.multisig /\ q \in Proposals(M)
    <2>1. Append(p.at, n + 1) \in Seq(Nat)
      BY <1>0, AppendFacts
    <2> QED
      BY <2>1 DEF Proposals
  <1>2. /\ Len(q.at) = l + 1 /\ DOMAIN q.at = 1..(l + 1)
        /\ \A i \in 1..l : q.at[i] = p.at[i]
        /\ q.at[l + 1] = n + 1
        /\ q.at # <<>>
        /\ DOMAIN p.at = 1..l
    <2> DEFINE s == p.at
               x == n + 1
    <2>1. s \in Seq(Nat) /\ x \in Nat /\ l = Len(s) /\ q.at = Append(s, x)
      BY <1>0, <1>1
    <2> HIDE DEF s, x, l, q
    <2>2. /\ Len(q.at) = Len(s) + 1 /\ DOMAIN q.at = 1..(Len(s) + 1)
          /\ \A i \in 1..Len(s) : q.at[i] = s[i]
          /\ q.at[Len(s) + 1] = x /\ q.at # <<>> /\ DOMAIN s = 1..Len(s)
      <3>1. /\ Append(s, x) # <<>> /\ DOMAIN s = 1..Len(s)
            /\ Len(Append(s, x)) = Len(s) + 1 /\ DOMAIN Append(s, x) = 1..(Len(s) + 1)
            /\ \A i \in 1..Len(s) : Append(s, x)[i] = s[i]
            /\ Append(s, x)[Len(s) + 1] = x
        BY <2>1, AppendFacts, Z3
      <3> QED
        BY <2>1, <3>1
    <2> QED
      BY <2>1, <2>2 DEF s, x
  <1>3. /\ Len(new) = Len(list) + 1 /\ Len(list) \in Nat
        /\ DOMAIN new = 1..(Len(list) + 1) /\ DOMAIN list = 1..Len(list)
        /\ \A i \in 1..Len(list) : new[i] = list[i]
        /\ new[Len(list) + 1] = q
        /\ new # <<>>
    BY <1>1, AppendFacts
  <1>4. /\ Len(old) = Len(list) + 1
        /\ DOMAIN old = 1..(Len(list) + 1)
        /\ \A i \in 1..Len(list) : old[i] = list[i]
        /\ old[Len(list) + 1] = p
        /\ old # <<>>
    BY AppendFacts
  <1>5. Wraps(old, actions, n)
    OBVIOUS
  <1> HIDE DEF old, new, q
  <1>9. Len(new) - 1 = Len(list) /\ Len(old) - 1 = Len(list)
    BY <1>3, <1>4
  <1>6. Last(p.at) = n /\ p.at[l] = n
    <2>1. Last(Last(old).at) = n /\ Last(old) = p
      BY <1>3, <1>4, <1>5 DEF Wraps, InOrder, Last
    <2> QED
      BY <2>1 DEF Last
  <1>7. InOrder(new, n + 1)
    <2>1. ASSUME NEW k \in DOMAIN new
          PROVE  /\ new[k].at # <<>>
                 /\ \A j \in 1..(Len(new[k].at) - 1) : new[k].at[j + 1] = new[k].at[j] + 1
      <3>1. CASE k \in 1..Len(list)
        BY <1>3, <1>4, <1>5, <3>1 DEF Wraps, InOrder
      <3>2. CASE k = Len(list) + 1
        <4>1. \A j \in 1..(l - 1) : p.at[j + 1] = p.at[j] + 1
          <5>1. k \in DOMAIN old /\ old[k] = p
            BY <1>3, <1>4, <3>2
          <5> QED
            BY <1>5, <5>1 DEF Wraps, InOrder
        <4>2. ASSUME NEW j \in 1..l
              PROVE  q.at[j + 1] = q.at[j] + 1
          <5>1. CASE j = l
            BY <1>0, <1>2, <1>6, <5>1
          <5>2. CASE j # l
            <6>1. j \in 1..(l - 1) /\ j + 1 \in 1..l
              BY <1>0, <5>2
            <6> QED
              BY <1>2, <4>1, <6>1
          <5> QED
            BY <5>1, <5>2
        <4>3. new[k] = q /\ Len(q.at) - 1 = l
          BY <1>0, <1>2, <1>3, <3>2
        <4> QED
          BY <1>2, <4>2, <4>3
      <3> QED
        BY <1>3, <3>1, <3>2
    <2>2. ASSUME NEW k \in 1..Len(list)
          PROVE  new[k + 1].at[1] = Last(new[k].at) + 1
      <3>1. old[k + 1].at[1] = Last(old[k].at) + 1
        BY <1>3, <1>4, <1>5, <1>9 DEF Wraps, InOrder
      <3>2. new[k + 1].at[1] = old[k + 1].at[1]
        <4>1. CASE k = Len(list)
          BY <1>0, <1>2, <1>3, <1>4, <4>1
        <4>2. CASE k # Len(list)
          <5>1. k + 1 \in 1..Len(list)
            BY <1>3, <4>2, NotLast
          <5> QED
            BY <1>3, <1>4, <5>1
        <4> QED
          BY <4>1, <4>2
      <3> QED
        BY <1>3, <1>4, <3>1, <3>2
    <2>3. new[1].at[1] = 1
      <3>1. old[1].at[1] = 1
        BY <1>4, <1>5 DEF Wraps, InOrder
      <3>2. CASE Len(list) = 0
        BY <1>0, <1>2, <1>3, <1>4, <3>1, <3>2
      <3>3. CASE Len(list) # 0
        BY <1>3, <1>4, <3>1, <3>3
      <3> QED
        BY <3>2, <3>3
    <2>4. Last(Last(new).at) = n + 1
      BY <1>2, <1>3 DEF Last
    <2> QED
      BY <1>3, <1>9, <2>1, <2>2, <2>3, <2>4 DEF InOrder
  <1>8. WellWrappedOf(new, actions)
    <2>1. ASSUME NEW k \in DOMAIN new, NEW j \in DOMAIN new[k].at
          PROVE  BelongsTo(actions[new[k].at[j]], new[k].multisig)
      <3>1. CASE k \in 1..Len(list)
        BY <1>3, <1>4, <1>5, <3>1 DEF Wraps, WellWrappedOf
      <3>2. CASE k = Len(list) + 1 /\ j # l + 1
        <4>1. j \in 1..l /\ new[k] = q /\ old[k] = p /\ k \in DOMAIN old /\ j \in DOMAIN p.at
          <5>1. new[k] = q /\ old[k] = p /\ k \in DOMAIN old
            BY <1>3, <1>4, <3>2
          <5>2. j \in 1..(l + 1)
            BY <1>2, <5>1
          <5>3. j \in 1..l
            <6> HIDE DEF l
            <6> QED
              BY <1>0, <3>2, <5>2
          <5> QED
            BY <1>2, <5>1, <5>3
        <4>2. BelongsTo(actions[p.at[j]], p.multisig)
          BY <1>5, <4>1 DEF Wraps, WellWrappedOf
        <4> QED
          BY <1>1, <1>2, <4>1, <4>2
      <3>3. CASE k = Len(list) + 1 /\ j = l + 1
        BY <1>1, <1>2, <1>3, <3>3
      <3> QED
        BY <1>3, <3>1, <3>2, <3>3
    <2>2. ASSUME NEW k \in DOMAIN new, new[k].multisig = "none"
          PROVE  Len(new[k].at) = 1
      <3>1. CASE k \in 1..Len(list)
        BY <1>3, <1>4, <1>5, <2>2, <3>1 DEF Wraps, WellWrappedOf
      <3>2. CASE k = Len(list) + 1
        BY <1>1, <1>3, <2>2, <3>2
      <3> QED
        BY <1>3, <3>1, <3>2
    <2>3. ASSUME NEW k \in 1..Len(list), new[k].multisig # "none"
          PROVE  new[k + 1].multisig # new[k].multisig
      <3>2. old[k].multisig # "none" => old[k + 1].multisig # old[k].multisig
        BY <1>5, <1>9 DEF Wraps, WellWrappedOf
      <3>3. new[k] = old[k]
        BY <1>3, <1>4
      <3>4. new[k + 1].multisig = old[k + 1].multisig
        <4>1. CASE k = Len(list)
          BY <1>1, <1>3, <1>4, <4>1
        <4>2. CASE k # Len(list)
          <5>1. k + 1 \in 1..Len(list)
            BY <1>3, <4>2, NotLast
          <5> QED
            BY <1>3, <1>4, <5>1
        <4> QED
          BY <4>1, <4>2
      <3> QED
        BY <2>3, <3>2, <3>3, <3>4
    <2> QED
      BY <1>9, <2>1, <2>2, <2>3 DEF WellWrappedOf
  <1> QED
    BY <1>7, <1>8 DEF Wraps, new, q

-----------------------------------------------------------------------------
(* Lists of anything.                                                      *)
IsList(s) == s \in Seq(Range(s))

(* A sequence over any set is a list.                                      *)
LEMMA ListOfSeq ==
  ASSUME NEW S, NEW s \in Seq(S) PROVE IsList(s)
  BY SeqDef, LenProperties DEF IsList, Range

(* So is a function over 1..n.                                             *)
LEMMA ListOfFunction ==
  ASSUME NEW n \in Nat, NEW s, s = [i \in 1..n |-> s[i]]
  PROVE  IsList(s) /\ Len(s) = n
  <1>1. s \in [1..n -> Range(s)]
    BY DEF Range
  <1>2. s \in Seq(Range(s))
    BY <1>1, SeqDef
  <1>3. DOMAIN s = 1..n /\ DOMAIN s = 1..Len(s) /\ Len(s) \in Nat
    BY <1>1, <1>2, LenProperties
  <1> QED
    BY <1>2, <1>3 DEF IsList

LEMMA ListFacts ==
  ASSUME NEW s, IsList(s)
  PROVE  Len(s) \in Nat /\ DOMAIN s = 1..Len(s) /\ s = [i \in 1..Len(s) |-> s[i]]
  BY LenProperties DEF IsList

LEMMA ListAppend ==
  ASSUME NEW s, IsList(s), NEW x
  PROVE  /\ IsList(Append(s, x)) /\ Len(s) \in Nat /\ DOMAIN s = 1..Len(s)
         /\ Len(Append(s, x)) = Len(s) + 1 /\ DOMAIN Append(s, x) = 1..(Len(s) + 1)
         /\ \A i \in 1..Len(s) : Append(s, x)[i] = s[i]
         /\ Append(s, x)[Len(s) + 1] = x
  <1> DEFINE S == Range(s) \cup {x}
  <1>1. s \in Seq(S) /\ x \in S
    BY SeqMonotonic DEF IsList
  <1> HIDE DEF S
  <1>2. /\ Append(s, x) \in Seq(S) /\ Len(s) \in Nat /\ DOMAIN s = 1..Len(s)
        /\ Len(Append(s, x)) = Len(s) + 1 /\ DOMAIN Append(s, x) = 1..(Len(s) + 1)
        /\ \A i \in 1..Len(s) : Append(s, x)[i] = s[i]
        /\ Append(s, x)[Len(s) + 1] = x
    BY <1>1, AppendFacts
  <1>3. IsList(Append(s, x))
    BY <1>2, ListOfSeq
  <1> QED
    BY <1>2, <1>3

LEMMA ListConcat ==
  ASSUME NEW s, IsList(s), NEW t, IsList(t)
  PROVE  /\ IsList(s \o t) /\ Len(s) \in Nat /\ Len(t) \in Nat
         /\ Len(s \o t) = Len(s) + Len(t)
         /\ \A i \in 1..Len(s) : (s \o t)[i] = s[i]
         /\ \A i \in 1..Len(t) : (s \o t)[Len(s) + i] = t[i]
  <1> DEFINE S == Range(s) \cup Range(t)
  <1>1. s \in Seq(S) /\ t \in Seq(S)
    BY SeqMonotonic DEF IsList
  <1> HIDE DEF S
  <1>2. Len(s) \in Nat /\ Len(t) \in Nat /\ s \o t \in Seq(S) /\ Len(s \o t) = Len(s) + Len(t)
    BY <1>1, LenProperties, ConcatProperties
  <1>3. \A i \in 1..Len(s) + Len(t) : (s \o t)[i] = IF i <= Len(s) THEN s[i] ELSE t[i - Len(s)]
    BY <1>1, ConcatProperties
  <1>4. \A i \in 1..Len(s) : (s \o t)[i] = s[i]
    BY <1>2, <1>3
  <1>5. ASSUME NEW i \in 1..Len(t)
        PROVE  (s \o t)[Len(s) + i] = t[i]
    <2>1. Len(s) + i \in 1..Len(s) + Len(t) /\ ~(Len(s) + i <= Len(s)) /\ (Len(s) + i) - Len(s) = i
      BY <1>2
    <2> QED
      BY <1>3, <2>1
  <1> QED
    BY <1>2, <1>4, <1>5, ListOfSeq

(* A changed entry leaves a list a list.                                   *)
LEMMA ListExcept ==
  ASSUME NEW s, IsList(s), NEW n, NEW t,
         t = [i \in DOMAIN s |-> IF i = n THEN t[i] ELSE s[i]]
  PROVE  /\ IsList(t) /\ Len(t) = Len(s) /\ Len(s) \in Nat
         /\ \A i \in 1..Len(s) : i # n => t[i] = s[i]
  <1>1. t = [i \in 1..Len(s) |-> t[i]] /\ Len(s) \in Nat
    BY ListFacts
  <1> QED
    BY <1>1, ListOfFunction, ListFacts

-----------------------------------------------------------------------------
(* The lists of actions that the commands make.                            *)

(* bulk-sdk: a list that is not empty, of actions of the admin multisig.   *)
AllAdmin(actions) == \A i \in DOMAIN actions : BelongsTo(actions[i], "ADM1N")

LEMMA ConcatAdmin ==
  ASSUME NEW s, IsList(s), AllAdmin(s), NEW t, IsList(t), AllAdmin(t)
  PROVE  IsList(s \o t) /\ AllAdmin(s \o t) /\ (t # <<>> => s \o t # <<>>)
  <1>1. DOMAIN s = 1..Len(s) /\ DOMAIN t = 1..Len(t) /\ Len(s) \in Nat /\ Len(t) \in Nat
    BY ListFacts
  <1>2. /\ IsList(s \o t) /\ Len(s \o t) = Len(s) + Len(t)
        /\ \A i \in 1..Len(s) : (s \o t)[i] = s[i]
        /\ \A i \in 1..Len(t) : (s \o t)[Len(s) + i] = t[i]
    BY ListConcat
  <1>3. DOMAIN (s \o t) = 1..Len(s) + Len(t)
    BY <1>2, ListFacts
  <1>4. ASSUME NEW i \in DOMAIN (s \o t)
        PROVE  BelongsTo((s \o t)[i], "ADM1N")
    <2>1. CASE i \in 1..Len(s)
      BY <1>1, <1>2, <2>1 DEF AllAdmin
    <2>2. CASE i \notin 1..Len(s)
      <3> DEFINE j == i - Len(s)
      <3>1. j \in 1..Len(t) /\ Len(s) + j = i
        BY <1>1, <1>3, <2>2
      <3> HIDE DEF j
      <3> QED
        BY <1>1, <1>2, <3>1 DEF AllAdmin
    <2> QED
      BY <2>1, <2>2
  <1>5. t # <<>> => s \o t # <<>>
    <2>1. t # <<>> => Len(t) # 0
      BY EmptySeq DEF IsList
    <2>2. s \o t = <<>> => Len(s \o t) = 0
      OBVIOUS
    <2> QED
      BY <1>1, <1>2, <2>1, <2>2
  <1> QED
    BY <1>2, <1>4, <1>5 DEF AllAdmin

LEMMA AdminBelongs ==
  ASSUME NEW a, IsAdmin(a.kind) PROVE BelongsTo(a, "ADM1N")
  BY DEF IsAdmin, IsFeeAdmin, BelongsTo

LEMMA BuiltKind ==
  ASSUME NEW kind, NEW args, NEW fixed PROVE Built(kind, args, fixed).kind = kind
  BY DEF Built

LEMMA OneBuilt ==
  ASSUME NEW kind, NEW args, NEW fixed, IsAdmin(kind)
  PROVE  LET s == <<Built(kind, args, fixed)>> IN IsList(s) /\ AllAdmin(s) /\ s # <<>>
  <1> DEFINE b == Built(kind, args, fixed)
  <1>1. BelongsTo(b, "ADM1N")
    BY AdminBelongs, BuiltKind
  <1> HIDE DEF b
  <1>2. <<b>> \in Seq({b}) /\ <<b>> # <<>> /\ DOMAIN <<b>> = {1} /\ <<b>>[1] = b
    OBVIOUS
  <1>3. IsList(<<b>>) /\ AllAdmin(<<b>>) /\ <<b>> # <<>>
    BY <1>1, <1>2, ListOfSeq DEF AllAdmin
  <1> QED
    BY <1>3 DEF b

LEMMA OneForEach ==
  ASSUME NEW list, IsList(list), NEW s, s = [i \in DOMAIN list |-> s[i]],
         \A i \in DOMAIN s : IsAdmin(s[i].kind)
  PROVE  IsList(s) /\ AllAdmin(s) /\ (list # <<>> => s # <<>>)
  <1>1. DOMAIN list = 1..Len(list) /\ Len(list) \in Nat
    BY ListFacts
  <1>2. IsList(s) /\ Len(s) = Len(list)
    BY <1>1, ListOfFunction
  <1>3. AllAdmin(s)
    BY AdminBelongs DEF AllAdmin
  <1>4. list # <<>> => s # <<>>
    <2>1. list # <<>> => Len(list) # 0
      BY EmptySeq DEF IsList
    <2> QED
      BY <1>2, <2>1
  <1> QED
    BY <1>2, <1>3, <1>4

(* The kinds that bulk-sdk builds.                                         *)
LEMMA SdkKinds ==
  \A kind \in MarketConfiguration \cup {"AddMarket", "ConfigSecurity", "MarketAdmin",
                                        "UpdateLiquidatorConfig"} : IsAdmin(kind)
  BY DEF MarketConfiguration, IsAdmin

LEMMA Securities ==
  ASSUME NEW plan, IsList(plan), NEW s, s = [i \in DOMAIN plan |-> Opaque("ConfigSecurity", plan[i].name)]
  PROVE  IsList(s) /\ AllAdmin(s)
  <1>1. IsAdmin("ConfigSecurity")
    BY SdkKinds
  <1>2. \A i \in DOMAIN s : s[i].kind = "ConfigSecurity"
    BY BuiltKind DEF Opaque
  <1>3. s = [i \in DOMAIN plan |-> s[i]]
    OBVIOUS
  <1> QED
    BY <1>1, <1>2, <1>3, OneForEach

(* The actions of a new market, to its addition.                           *)
LEMMA MarketActions ==
  ASSUME NEW plan, IsList(plan), NEW symbol, NEW funding
  PROVE  LET s == BuildMarketActions(plan, symbol, funding) IN
         IsList(s) /\ AllAdmin(s) /\ s # <<>>
  <1> DEFINE s == [i \in DOMAIN plan |-> Opaque("ConfigSecurity", plan[i].name)]
             t == <<Opaque("ConfigVolatility", symbol), Opaque("ConfigFairPrice", symbol),
                    Opaque("ConfigRegime", symbol), Opaque("ConfigRisk", symbol),
                    FundingAction(Pair(symbol), funding),
                    Built("AddMarket", [symbol |-> Pair(symbol)], NothingFixed)>>
  <1>1. IsList(s) /\ AllAdmin(s)
    BY Securities
  <1>2. /\ IsAdmin(t[1].kind) /\ IsAdmin(t[2].kind) /\ IsAdmin(t[3].kind)
        /\ IsAdmin(t[4].kind) /\ IsAdmin(t[5].kind) /\ IsAdmin(t[6].kind)
    BY BuiltKind, SdkKinds DEF Opaque, FundingAction, MarketConfiguration
  <1>3. IsList(t) /\ AllAdmin(t) /\ t # <<>>
    <2>1. t = [i \in 1..6 |-> t[i]] /\ t # <<>> /\ DOMAIN t = 1..6
      OBVIOUS
    <2> HIDE DEF t
    <2>2. \A i \in 1..6 : i = 1 \/ i = 2 \/ i = 3 \/ i = 4 \/ i = 5 \/ i = 6
      OBVIOUS
    <2> QED
      BY <1>2, <2>1, <2>2, ListOfFunction, AdminBelongs DEF AllAdmin
  <1> HIDE DEF s, t
  <1>4. IsList(s \o t) /\ AllAdmin(s \o t) /\ s \o t # <<>>
    BY <1>1, <1>3, ConcatAdmin
  <1> QED
    BY <1>4 DEF BuildMarketActions, s, t

(* What the definitions select is a list of at most one.                   *)
LEMMA PlanIsList ==
  ASSUME NEW files, NEW args PROVE IsList(ReadMarketPlan(files, args))
  <1>1. \A definitions, name, type :
          IsList(SelectSecurityDefinition(definitions, name, type))
    <2> SUFFICES ASSUME NEW definitions, NEW name, NEW type
                 PROVE  IsList(SelectSecurityDefinition(definitions, name, type))
      OBVIOUS
    <2> DEFINE named == SelectSeq(definitions, LAMBDA d : d.name = name)
               one == <<named[1]>>
    <2>1. one \in Seq({named[1]}) /\ <<>> \in Seq({})
      OBVIOUS
    <2>2. IsList(one) /\ IsList(<<>>)
      BY <2>1, ListOfSeq
    <2>3. SelectSecurityDefinition(definitions, name, type) \in {one, <<>>}
      BY DEF SelectSecurityDefinition
    <2> QED
      BY <2>2, <2>3
  <1>2. IsList(<<>>)
    BY ListOfSeq, EmptySeq
  <1> DEFINE currency == SelectSecurityDefinition(files.currencies, args.symbol, "Currency")
             perpetual == SelectSecurityDefinition(files.perpetuals, Pair(args.symbol), "Perpetual")
  <1>3. IsList(currency) /\ IsList(perpetual)
    BY <1>1
  <1>4. ReadMarketPlan(files, args) \in {currency \o perpetual, <<>> \o perpetual, <<>>}
    BY DEF ReadMarketPlan
  <1> HIDE DEF currency, perpetual
  <1>5. IsList(currency \o perpetual) /\ IsList(<<>> \o perpetual)
    BY <1>2, <1>3, ListConcat
  <1> QED
    BY <1>2, <1>4, <1>5

(* All that bulk-sdk builds belongs to the admin multisig.                 *)
LEMMA SdkBuildsAdmin ==
  ASSUME NEW c \in CommandLines, c.program = "sdk", SdkDispatch(c).ok
  PROVE  /\ IsList(SdkDispatch(c).actions) /\ AllAdmin(SdkDispatch(c).actions)
         /\ SdkDispatch(c).actions # <<>>
  <1> DEFINE Good(r) == r.ok => IsList(r.actions) /\ AllAdmin(r.actions) /\ r.actions # <<>>
  <1>1. Good(Refused)
    BY DEF Refused
  <1>2. \A s : IsList(s) /\ AllAdmin(s) /\ s # <<>> => Good(Does(s))
    BY DEF Does
  <1>3. \A args : Good(ConfigRiskAction(args))
    <2> TAKE args
    <2>1. IsAdmin("ConfigRisk")
      BY SdkKinds DEF MarketConfiguration
    <2>2. Good(Does(<<Opaque("ConfigRisk", args.csv)>>))
      BY <1>2, <2>1, OneBuilt DEF Opaque
    <2> HIDE DEF Good
    <2> QED
      BY <1>1, <2>2 DEF ConfigRiskAction
  <1>4. \A args : IsList(args.definitions) => Good(ConfigSecurityActions(args))
    <2> SUFFICES ASSUME NEW args, IsList(args.definitions)
                 PROVE  Good(ConfigSecurityActions(args))
      OBVIOUS
    <2> DEFINE s == [i \in DOMAIN args.definitions |-> Opaque("ConfigSecurity", args.definitions[i])]
    <2>1. s = [i \in DOMAIN args.definitions |-> s[i]]
      OBVIOUS
    <2>2. \A i \in DOMAIN s : IsAdmin(s[i].kind)
      BY SdkKinds, BuiltKind DEF Opaque
    <2> HIDE DEF s
    <2>3. IsList(s) /\ AllAdmin(s) /\ (args.definitions # <<>> => s # <<>>)
      BY <2>1, <2>2, OneForEach
    <2>4. args.definitions # <<>> => Good(Does(s))
      BY <1>2, <2>3
    <2> HIDE DEF Good
    <2> QED
      BY <1>1, <2>4 DEF ConfigSecurityActions, s
  <1>5. \A files, args : Good(CreateMarketActions(files, args))
    <2> TAKE files, args
    <2> DEFINE plan == ReadMarketPlan(files, args)
               funding == FundingConfigFor(files.funding, Pair(args.symbol))
               s == BuildMarketActions(plan, args.symbol, funding)
    <2>1. IsList(plan)
      BY PlanIsList
    <2> HIDE DEF plan, funding
    <2>2. Good(Does(s))
      BY <1>2, <2>1, MarketActions
    <2> HIDE DEF Good
    <2> QED
      BY <1>1, <2>2 DEF CreateMarketActions, plan, funding
  <1>6. \A policies, pair : Good(MarketLiquidatorAction(policies, pair))
    <2> TAKE policies, pair
    <2>1. \A args, fixed : Good(Does(<<Built("UpdateLiquidatorConfig", args, fixed)>>))
      BY <1>2, OneBuilt, SdkKinds
    <2> HIDE DEF Good
    <2> QED
      BY <1>1, <2>1 DEF MarketLiquidatorAction
  <1>7. \A files, args : Good(PrepareMarketActions(files, args))
    <2> TAKE files, args
    <2> DEFINE created == CreateMarketActions(files, args)
               policy == MarketLiquidatorAction(files.liquidator, Pair(args.symbol))
               last == <<Suspended(Pair(args.symbol))>>
    <2>1. Good(created) /\ Good(policy)
      BY <1>5, <1>6
    <2>2. IsList(last) /\ AllAdmin(last) /\ last # <<>>
      BY OneBuilt, SdkKinds DEF Suspended
    <2> HIDE DEF created, policy, last
    <2>3. created.ok /\ policy.ok =>
            LET all == created.actions \o policy.actions \o last IN
            IsList(all) /\ AllAdmin(all) /\ all # <<>>
      BY <2>1, <2>2, ConcatAdmin
    <2>4. created.ok /\ policy.ok => Good(Does(created.actions \o policy.actions \o last))
      BY <1>2, <2>3
    <2> HIDE DEF Good
    <2> QED
      BY <1>1, <2>4 DEF PrepareMarketActions, created, policy, last
  <1>8. c.name \notin Markets \cup {"config-risk-matrix"} => IsList(c.args.definitions)
    <2>1. c.name \notin Markets \cup {"config-risk-matrix"} => c.args \in ConfigSecurityArgs
      BY BulkCliAssumption DEF Cli, SdkCommandOk
    <2> QED
      BY <2>1, ListOfSeq DEF ConfigSecurityArgs
  <1>9. Good(SdkDispatch(c))
    <2> HIDE DEF Good
    <2> QED
      BY <1>3, <1>4, <1>7, <1>8 DEF SdkDispatch, Markets
  <1> QED
    BY <1>9

(* Every command of bulk-cli makes a list.                                 *)
LEMMA DispatchMakesLists ==
  ASSUME NEW c \in CommandLines, c.program = "cli",
         c.name \notin OnChain \cup ConfigCommands \cup {"ledger-info"}
  PROVE  IsList(Dispatch(c, SignerKey).actions)
  <1> DEFINE Good(r) == IsList(r.actions)
  <1>1. Good(Refused)
    BY ListOfSeq, EmptySeq DEF Refused
  <1>2. \A x : Good(Does(<<x>>))
    <2> TAKE x
    <2>1. <<x>> \in Seq({x})
      OBVIOUS
    <2> QED
      BY <2>1, ListOfSeq DEF Does
  <1>3. \A x, y : Good(Does(<<x, y>>))
    <2> TAKE x, y
    <2>1. <<x, y>> \in Seq({x, y})
      OBVIOUS
    <2> QED
      BY <2>1, ListOfSeq DEF Does
  <1>4. c.name = "market-admin" => Good(HandleMarketAdmin(c.args))
    <2> SUFFICES ASSUME c.name = "market-admin" PROVE Good(HandleMarketAdmin(c.args))
      OBVIOUS
    <2> DEFINE s == [i \in DOMAIN c.args.symbols |->
                      Built("MarketAdmin", c.args, [symbol |-> c.args.symbols[i]])]
    <2>1. c.args \in MarketAdminArgs
      BY BulkCliAssumption
      DEF Cli, Command, AdminArgs, OrderCommands, AccountCommands, BallotCommands, OnChain,
          ConfigCommands
    <2>2. IsList(c.args.symbols)
      BY <2>1, ListOfSeq DEF MarketAdminArgs
    <2>3. s = [i \in 1..Len(c.args.symbols) |-> s[i]] /\ Len(c.args.symbols) \in Nat
      BY <2>2, ListFacts
    <2> HIDE DEF s
    <2>4. Good(Does(s))
      BY <2>3, ListOfFunction DEF Does
    <2> HIDE DEF Good
    <2> QED
      BY <1>1, <2>4 DEF HandleMarketAdmin, s
  <1> HIDE DEF Good
  <1>5. \A kind, args, fixed : Good(DoesOne(kind, args, fixed))
    BY <1>2 DEF DoesOne
  <1>6. Good(AccountCommand(c, SignerKey))
    BY <1>1, <1>5
    DEF AccountCommand, HandleFaucet, HandleUpdateLeverage, HandleAgentWallet,
        HandleCreateSubaccount, HandleRemoveSubaccount, HandleTransfer
  <1>7. Good(OrderCommand(c))
    BY <1>1, <1>5
    DEF OrderCommand, HandlePlace, HandleModify, HandleCancel, HandleCancelAll, HandleStop,
        HandleTakeProfit, HandleRange, HandleTrailing
  <1>8. Good(HandleMultisigBallot(c.name, c.args)) /\ Good(HandleCreateMultisig(c.args))
        /\ Good(HandleUpdateMultisigPolicy(c.args))
    BY <1>1, <1>5 DEF HandleMultisigBallot, HandleCreateMultisig, HandleUpdateMultisigPolicy
  <1>9. Good(AdminCommand(c))
    <2>1. \A kind : Good(Parsed1(kind, c.args))
      BY <1>1, <1>2 DEF Parsed1
    <2>2. /\ Good(HandleUserAdmin(c.args)) /\ Good(HandleConfigFees(c.args))
          /\ Good(HandlePricingAdmin(c.args)) /\ Good(HandleHarvestProviderFees(c.args))
      BY <1>1, <1>5
      DEF HandleUserAdmin, HandleConfigFees, HandlePricingAdmin, HandleHarvestProviderFees
    <2>3. Good(HandleLiquidatorConfig(c.args)) /\ Good(HandleAddMarket(c.args))
      BY <1>1, <1>2, <1>3 DEF HandleLiquidatorConfig, HandleAddMarket
    <2>4. /\ Good(HandleRiskConfig(c.args)) /\ Good(HandleFundingConfig(c.args))
          /\ Good(HandleAccountPolicy(c.args)) /\ Good(HandleConfigMaker(c.args))
          /\ Good(HandleCorrs(c.args))
      BY <2>1
      DEF HandleRiskConfig, HandleFundingConfig, HandleAccountPolicy, HandleConfigMaker, HandleCorrs
    <2> QED
      BY <1>4, <2>2, <2>3, <2>4 DEF AdminCommand
  <1> QED
    BY <1>6, <1>7, <1>8, <1>9 DEF Dispatch, Good

-----------------------------------------------------------------------------
(* The invariant.  While the list is wrapped, what has been flushed        *)
(* together with the proposal being filled wraps the actions so far; a     *)
(* proposal being filled has a multisig, and without one the last entry    *)
(* went as it was.                                                         *)
Multisigs == {MultisigOf(asked[i]) : i \in 1..Len(asked)} \cup {"none"}

Wrapping ==
  /\ at \in 1..(Len(asked) + 1)
  /\ wrapped \in Seq(Proposals(Multisigs)) /\ pending \in Proposals(Multisigs)
  /\ pending # NoProposal => pending.multisig # "none" /\ pending.at # <<>>
  /\ pending = NoProposal /\ wrapped # <<>> => wrapped[Len(wrapped)].multisig = "none"
  /\ Wraps(Flushed, asked, at - 1)

WrapInv ==
  /\ IsList(runs) /\ IsList(asked)
  /\ stage = "wrap" => Wrapping
  /\ stage = "propose" => asked # <<>> /\ AllAdmin(asked)
  /\ stage \in {"submit", "post"} => Wraps(wrapped, asked, Len(asked))
  /\ stage = "prompt" => Cmd.name \in OnChain \/ Wraps(wrapped, asked, Len(asked))

cmdVars == <<stage, runs, asked, at, wrapped, pending>>

LEMMA WrapInit == Init => WrapInv
  <1> SUFFICES ASSUME Init PROVE WrapInv
    OBVIOUS
  <1>1. IsList(<<>>)
    BY ListOfSeq, EmptySeq
  <1> QED
    BY <1>1 DEF Init, WrapInv

(* What the network, the chain, the clock and the reading methods do is    *)
(* not seen by the command.                                                *)
LEMMA Outside ==
  ASSUME [Next]_vars,
         ~(\E c \in CommandLines : Invoke(c)), ~Program, ~Answer
  PROVE  UNCHANGED cliVars
  BY DEF Next, Network, Read, TimePasses, vars

LEMMA CmdVars == UNCHANGED cliVars => UNCHANGED cmdVars
  BY DEF cliVars, cmdVars

LEMMA WrapFrame == ASSUME WrapInv, UNCHANGED cmdVars PROVE WrapInv'
  BY DEF WrapInv, cmdVars, Wrapping, Multisigs, Flushed, NoProposal, Cmd, Current, Wraps, IsList

(* The history is a list, whatever is done to it.                          *)
LEMMA RunsKept ==
  ASSUME IsList(runs), NEW n, runs' = [i \in DOMAIN runs |-> IF i = n THEN runs'[i] ELSE runs[i]]
  PROVE  IsList(runs') /\ Len(runs') = Len(runs)
  <1>1. runs' = [i \in 1..Len(runs) |-> runs'[i]] /\ Len(runs) \in Nat
    BY ListFacts
  <1> QED
    BY <1>1, ListOfFunction

(* An action belongs where MultisigOf sends it.                            *)
LEMMA MultisigBelongs == \A a : BelongsTo(a, MultisigOf(a))
  <1> TAKE a
  <1>1. CASE a.kind = "UpdateMultisigPolicy"
    BY <1>1 DEF MultisigOf, BelongsTo, IsAdmin, IsFeeAdmin
  <1>2. CASE a.kind # "UpdateMultisigPolicy" /\ IsFeeAdmin(a.kind)
    BY <1>2 DEF MultisigOf, BelongsTo, IsAdmin, IsFeeAdmin
  <1>3. CASE a.kind # "UpdateMultisigPolicy" /\ ~IsFeeAdmin(a.kind) /\ IsAdmin(a.kind)
    BY <1>3 DEF MultisigOf, BelongsTo, IsAdmin, IsFeeAdmin
  <1>4. CASE a.kind # "UpdateMultisigPolicy" /\ ~IsFeeAdmin(a.kind) /\ ~IsAdmin(a.kind)
    BY <1>4 DEF MultisigOf, BelongsTo
  <1> QED
    BY <1>1, <1>2, <1>3, <1>4

(* One turn of the loop.                                                   *)
LEMMA WrapNextStep ==
  ASSUME WrapInv, WrapNext PROVE Wrapping'
  <1>1. /\ stage = "wrap" /\ at \in 1..Len(asked) /\ at' = at + 1 /\ UNCHANGED asked
        /\ Wrapping /\ IsList(asked) /\ Len(asked) \in Nat
    BY ListFacts DEF WrapInv, WrapNext, Wrapping
  <1> DEFINE M == Multisigs
             m == MultisigOf(asked[at])
             n == at - 1
  <1>2. /\ M' = M /\ m \in M /\ "none" \in M
        /\ n \in Nat /\ n + 1 = at /\ at' - 1 = n + 1
        /\ at' \in 1..(Len(asked') + 1)
        /\ BelongsTo(asked[n + 1], m)
    BY <1>1, MultisigBelongs DEF Multisigs
  <1>3. /\ wrapped \in Seq(Proposals(M)) /\ pending \in Proposals(M)
        /\ pending # NoProposal => pending.multisig # "none" /\ pending.at # <<>>
        /\ pending = NoProposal /\ wrapped # <<>> => wrapped[Len(wrapped)].multisig = "none"
        /\ Wraps(Flushed, asked, n)
    BY <1>1 DEF Wrapping
  <1>4. /\ Flushed \in Seq(Proposals(M))
        /\ Flushed # <<>> =>
             Flushed[Len(Flushed)].multisig =
               IF pending = NoProposal THEN "none" ELSE pending.multisig
    <2>1. CASE pending = NoProposal
      BY <1>3, <2>1 DEF Flushed
    <2>2. CASE pending # NoProposal
      BY <1>3, <2>2, AppendFacts DEF Flushed
    <2> QED
      BY <2>1, <2>2
  <1>5. \/ /\ m # "none" /\ pending # NoProposal /\ pending.multisig = m
           /\ pending' = [pending EXCEPT !.at = Append(@, at)]
           /\ UNCHANGED wrapped
        \/ /\ m # "none" /\ (pending = NoProposal \/ pending.multisig # m)
           /\ wrapped' = Flushed
           /\ pending' = [multisig |-> m, at |-> <<at>>]
        \/ /\ m = "none"
           /\ wrapped' = Append(Flushed, [multisig |-> "none", at |-> <<at>>])
           /\ pending' = NoProposal
    BY DEF WrapNext
  <1> HIDE DEF M, m, n
  <1>6. CASE /\ m # "none" /\ pending # NoProposal /\ pending.multisig = m
             /\ pending' = [pending EXCEPT !.at = Append(@, at)]
             /\ UNCHANGED wrapped
    <2>1. Flushed = Append(wrapped, pending)
      BY <1>6 DEF Flushed
    <2>2. Wraps(Append(wrapped, [pending EXCEPT !.at = Append(@, n + 1)]), asked, n + 1)
      BY <1>2, <1>3, <1>6, <2>1, WrapsMore
    <2>3. /\ pending' \in Proposals(M) /\ pending'.multisig # "none" /\ pending'.at # <<>>
          /\ pending' # NoProposal
      <3>1. pending.at \in Seq(Nat) /\ at \in Nat
        BY <1>1, <1>3 DEF Proposals
      <3>2. Append(pending.at, at) \in Seq(Nat)
        BY <3>1, AppendFacts
      <3>3. Append(pending.at, at) # <<>>
        BY <3>1, AppendFacts
      <3> QED
        BY <1>3, <1>6, <3>2, <3>3 DEF Proposals, NoProposal
    <2>4. Flushed' = Append(wrapped, [pending EXCEPT !.at = Append(@, n + 1)])
      BY <1>2, <1>6, <2>3 DEF Flushed, NoProposal
    <2> QED
      BY <1>1, <1>2, <1>3, <1>6, <2>2, <2>3, <2>4 DEF Wrapping, M, NoProposal
  <1>7. CASE /\ m # "none" /\ (pending = NoProposal \/ pending.multisig # m)
             /\ wrapped' = Flushed
             /\ pending' = [multisig |-> m, at |-> <<at>>]
    <2>1. Flushed # <<>> /\ m # "none" => Flushed[Len(Flushed)].multisig # m
      BY <1>4, <1>7
    <2>2. Wraps(Append(Flushed, [multisig |-> m, at |-> <<n + 1>>]), asked, n + 1)
      BY <1>2, <1>3, <1>4, <2>1, WrapsAlone
    <2>3. /\ pending' \in Proposals(M) /\ pending'.multisig # "none" /\ pending'.at # <<>>
          /\ pending' # NoProposal
      BY <1>1, <1>2, <1>7 DEF Proposals, NoProposal
    <2>4. Flushed' = Append(Flushed, [multisig |-> m, at |-> <<n + 1>>])
      BY <1>2, <1>7, <2>3 DEF Flushed, NoProposal
    <2> QED
      BY <1>1, <1>2, <1>4, <1>7, <2>2, <2>3, <2>4 DEF Wrapping, M, NoProposal
  <1>8. CASE /\ m = "none"
             /\ wrapped' = Append(Flushed, [multisig |-> "none", at |-> <<at>>])
             /\ pending' = NoProposal
    <2> DEFINE p == [multisig |-> "none", at |-> <<n + 1>>]
    <2>1. Wraps(Append(Flushed, p), asked, n + 1)
      BY <1>2, <1>3, <1>4, <1>8, WrapsAlone
    <2>2. p \in Proposals(M) /\ NoProposal \in Proposals(M)
      BY <1>2 DEF Proposals, NoProposal
    <2>3. wrapped' = Append(Flushed, p) /\ p.multisig = "none"
      BY <1>2, <1>8
    <2> HIDE DEF p
    <2>4. /\ wrapped' \in Seq(Proposals(M))
          /\ wrapped'[Len(wrapped')].multisig = "none"
      BY <1>4, <2>2, <2>3, AppendFacts
    <2>5. Flushed' = wrapped'
      BY <1>8 DEF Flushed, NoProposal
    <2> QED
      BY <1>1, <1>2, <1>8, <2>1, <2>2, <2>3, <2>4, <2>5 DEF Wrapping, M, NoProposal
  <1> QED
    BY <1>5, <1>6, <1>7, <1>8

(* The end of the loop: the last proposal is flushed.                      *)
LEMMA WrapEndStep ==
  ASSUME WrapInv, WrapEnd PROVE Wraps(wrapped', asked', Len(asked'))
  <1>1. Wrapping /\ Len(asked) \in Nat /\ at > Len(asked) /\ wrapped' = Flushed /\ asked' = asked
    BY ListFacts DEF WrapInv, WrapEnd
  <1>2. at - 1 = Len(asked)
    BY <1>1 DEF Wrapping
  <1> QED
    BY <1>1, <1>2 DEF Wrapping

(* The one proposal of bulk-sdk.                                           *)
LEMMA SdkWraps ==
  ASSUME NEW actions, IsList(actions), actions # <<>>, AllAdmin(actions)
  PROVE  Wraps(<<[multisig |-> "ADM1N", at |-> [i \in DOMAIN actions |-> i]]>>, actions, Len(actions))
  <1> DEFINE all == [i \in DOMAIN actions |-> i]
             p == [multisig |-> "ADM1N", at |-> all]
             list == <<p>>
  <1>1. DOMAIN actions = 1..Len(actions) /\ Len(actions) \in Nat
    BY ListFacts
  <1>2. Len(actions) # 0
    BY EmptySeq DEF IsList
  <1>3. all = [i \in 1..Len(actions) |-> all[i]]
    BY <1>1
  <1>4. Len(all) = Len(actions) /\ DOMAIN all = 1..Len(actions) /\ \A i \in 1..Len(actions) : all[i] = i
    BY <1>1, <1>3, ListOfFunction
  <1>5. all # <<>>
    BY <1>1, <1>2, <1>4
  <1>6. Last(all) = Len(actions) /\ all[1] = 1
    BY <1>1, <1>2, <1>4 DEF Last
  <1>7. p.at = all /\ p.multisig = "ADM1N"
    OBVIOUS
  <1> HIDE DEF all, p
  <1>8. DOMAIN list = {1} /\ list[1] = p /\ Len(list) = 1 /\ list # <<>> /\ Last(list) = p
    BY DEF Last
  <1> HIDE DEF list
  <1>9. InOrder(list, Len(actions))
    <2>1. \A j \in 1..(Len(all) - 1) : all[j + 1] = all[j] + 1
      BY <1>1, <1>4
    <2>2. 1..(Len(list) - 1) = {}
      BY <1>8
    <2>3. \A k \in DOMAIN list : list[k] = p
      BY <1>8
    <2> QED
      BY <1>5, <1>6, <1>7, <1>8, <2>1, <2>2, <2>3 DEF InOrder
  <1>10. WellWrappedOf(list, actions)
    <2>1. 1..(Len(list) - 1) = {}
      BY <1>8
    <2>2. \A k \in DOMAIN list : list[k] = p
      BY <1>8
    <2>3. \A j \in DOMAIN all : BelongsTo(actions[all[j]], "ADM1N")
      BY <1>1, <1>4 DEF AllAdmin
    <2> QED
      BY <1>7, <2>1, <2>2, <2>3 DEF WellWrappedOf
  <1> QED
    BY <1>9, <1>10 DEF Wraps, list, p, all

(* A stage in which nothing is claimed.                                    *)
LEMMA NothingClaimed ==
  ASSUME IsList(runs'), IsList(asked'), stage' \in {"idle", "saving", "chain", "wait"}
  PROVE  WrapInv'
  BY DEF WrapInv, IsList

(* The start of a command.                                                 *)
LEMMA InvokeStep ==
  ASSUME WrapInv, NEW c \in CommandLines, Invoke(c)
  PROVE  WrapInv'
  <1>1. IsList(runs) /\ IsList(asked)
    BY DEF WrapInv
  <1>2. ASSUME NEW o, MayRun(c), AtOnce(c, o)
        PROVE  WrapInv'
    BY <1>1, <1>2, ListAppend, NothingClaimed DEF MayRun, AtOnce, Idle, wrapVars
  <1>3. ASSUME NEW next, Begins(c, next)
        PROVE  IsList(runs') /\ stage' = next /\ Cmd' = c
    <2>1. /\ IsList(runs') /\ runs'[Len(runs')] = NewRun(c, "running")
      BY <1>1, <1>3, ListAppend DEF Begins
    <2> QED
      BY <1>3, <2>1 DEF Begins, Cmd, Current, NewRun
  <1>4. CASE LoadFails(c) \/ HandleLedgerInfo(c)
    BY <1>2, <1>4 DEF LoadFails, HandleLedgerInfo, Loads
  <1>5. CASE HandleConfig(c)
    <2>1. CASE AtOnce(c, "listed")
      BY <1>2, <1>5, <2>1 DEF HandleConfig, Loads
    <2>2. CASE Begins(c, "saving") /\ UNCHANGED wrapVars
      BY <1>1, <1>3, <2>2, NothingClaimed DEF wrapVars
    <2> QED
      BY <1>5, <2>1, <2>2 DEF HandleConfig
  <1>6. CASE HandleOnChain(c)
    <2>1. CASE \E o \in {"refused", "dry run"} : AtOnce(c, o)
      BY <1>2, <1>6, <2>1 DEF HandleOnChain, Loads
    <2>2. CASE Begins(c, "chain") /\ UNCHANGED wrapVars
      BY <1>1, <1>3, <2>2, NothingClaimed DEF wrapVars
    <2>3. CASE Begins(c, "prompt") /\ UNCHANGED wrapVars
      <3>1. IsList(runs') /\ IsList(asked') /\ stage' = "prompt" /\ Cmd'.name \in OnChain
        BY <1>1, <1>3, <1>6, <2>3 DEF wrapVars, HandleOnChain
      <3> QED
        BY <3>1 DEF WrapInv, IsList
    <2> QED
      BY <1>6, <2>1, <2>2, <2>3 DEF HandleOnChain
  <1>7. CASE HandleSigned(c)
    <2> DEFINE made == Dispatch(c, SignerKey)
    <2>1. CASE AtOnce(c, "refused")
      BY <1>2, <1>7, <2>1 DEF HandleSigned, Loads
    <2>2. CASE StartWrapping(c, made.actions)
      <3>1. IsList(made.actions)
        BY <1>7, DispatchMakesLists DEF HandleSigned, Loads
      <3> HIDE DEF made
      <3>2. /\ IsList(runs') /\ stage' = "wrap" /\ asked' = made.actions
            /\ at' = 1 /\ wrapped' = <<>> /\ pending' = NoProposal
        BY <1>3, <2>2 DEF StartWrapping
      <3>3. Len(asked') \in Nat /\ IsList(asked')
        BY <3>1, <3>2, ListFacts
      <3>4. Flushed' = <<>> /\ Wraps(<<>>, asked', 0)
        BY <3>2, WrapsNothing DEF Flushed, NoProposal
      <3>5. NoProposal \in Proposals(Multisigs') /\ <<>> \in Seq(Proposals(Multisigs'))
        BY DEF NoProposal, Proposals, Multisigs
      <3>6. Wrapping'
        BY <3>2, <3>3, <3>4, <3>5 DEF Wrapping, NoProposal
      <3> QED
        BY <3>2, <3>3, <3>6 DEF WrapInv, IsList
    <2> QED
      BY <1>7, <2>1, <2>2 DEF HandleSigned
  <1>8. CASE HandleSdk(c)
    <2> DEFINE made == SdkDispatch(c)
    <2>1. CASE \E o \in {"refused", "dry run"} : AtOnce(c, o)
      BY <1>2, <1>8, <2>1 DEF HandleSdk
    <2>2. CASE made.ok /\ Begins(c, "propose") /\ asked' = made.actions
      <3>1. IsList(made.actions) /\ AllAdmin(made.actions) /\ made.actions # <<>>
        BY <1>8, <2>2, SdkBuildsAdmin DEF HandleSdk
      <3> HIDE DEF made
      <3>2. IsList(runs') /\ IsList(asked') /\ stage' = "propose" /\ asked' # <<>> /\ AllAdmin(asked')
        BY <1>3, <2>2, <3>1
      <3> QED
        BY <3>2 DEF WrapInv, IsList, AllAdmin
    <2> QED
      BY <1>8, <2>1, <2>2 DEF HandleSdk
  <1>9. CASE HandleLibrary(c)
    <2>1. CASE AtOnce(c, "refused")
      BY <1>2, <1>9, <2>1 DEF HandleLibrary
    <2>2. CASE Begins(c, "wait") /\ UNCHANGED wrapVars
      BY <1>1, <1>3, <2>2, NothingClaimed DEF wrapVars
    <2> QED
      BY <1>9, <2>1, <2>2 DEF HandleLibrary
  <1> QED
    BY <1>4, <1>5, <1>6, <1>7, <1>8, <1>9 DEF Invoke

(* Submitting: the list that was wrapped is the one that is previewed,     *)
(* confirmed and posted.                                                   *)
LEMMA PreviewsStep ==
  ASSUME IsList(runs), IsList(asked'), NEW list, Previews(list),
         Wraps(wrapped', asked', Len(asked'))
  PROVE  WrapInv'
  <1>1. IsList(runs')
    <2>1. CASE runs' = runs
      BY <2>1
    <2>2. CASE Cmd.preview
      BY <2>2, RunsKept DEF Previews
    <2> QED
      BY <2>1, <2>2 DEF Previews
  <1>2. stage' \in {"prompt", "post"}
    BY DEF Previews
  <1> QED
    BY <1>1, <1>2 DEF WrapInv, IsList

LEMMA ProgramStep ==
  ASSUME WrapInv, Program
  PROVE  WrapInv'
  <1>1. IsList(runs) /\ IsList(asked)
    BY DEF WrapInv
  <1>2. CASE Save
    BY <1>1, <1>2, RunsKept, NothingClaimed DEF Save, wrapVars
  <1>3. CASE WrapNext
    <2>1. Wrapping' /\ stage' = "wrap" /\ runs' = runs /\ asked' = asked
      BY <1>3, WrapNextStep DEF WrapNext
    <2> QED
      BY <1>1, <2>1 DEF WrapInv, IsList
  <1>4. CASE WrapEnd
    <2>1. Wraps(wrapped', asked', Len(asked')) /\ stage' = "submit" /\ runs' = runs /\ asked' = asked
      BY <1>4, WrapEndStep DEF WrapEnd
    <2> QED
      BY <1>1, <2>1 DEF WrapInv, IsList
  <1>5. CASE Submit
    <2>1. asked' = asked /\ wrapped' = wrapped /\ Wraps(wrapped, asked, Len(asked)) /\ Previews(wrapped)
      BY <1>5 DEF Submit, WrapInv, wrapVars
    <2> QED
      BY <1>1, <2>1, PreviewsStep
  <1>6. CASE SubmitAction
    <2>1. /\ asked' = asked /\ asked # <<>> /\ AllAdmin(asked)
          /\ wrapped' = <<[multisig |-> "ADM1N", at |-> [i \in DOMAIN asked |-> i]]>>
          /\ Previews(<<[multisig |-> "ADM1N", at |-> [i \in DOMAIN asked |-> i]]>>)
      BY <1>6 DEF SubmitAction, WrapInv
    <2>2. Wraps(wrapped', asked', Len(asked'))
      BY <1>1, <2>1, SdkWraps
    <2> QED
      BY <1>1, <2>1, <2>2, PreviewsStep
  <1>7. CASE Post
    BY <1>1, <1>7, NothingClaimed DEF Post, wrapVars
  <1>8. CASE Report
    BY <1>1, <1>8, RunsKept, NothingClaimed DEF Report, wrapVars
  <1>9. CASE StartTransfer \/ Transfer
    BY <1>9, CmdVars, WrapFrame DEF StartTransfer, Transfer
  <1>10. CASE PrintSignature
    BY <1>1, <1>10, RunsKept, NothingClaimed DEF PrintSignature, wrapVars
  <1> QED
    BY <1>2, <1>3, <1>4, <1>5, <1>6, <1>7, <1>8, <1>9, <1>10 DEF Program

LEMMA AnswerStep ==
  ASSUME WrapInv, Answer
  PROVE  WrapInv'
  <1>1. IsList(runs) /\ IsList(asked) /\ asked' = asked /\ wrapped' = wrapped
    BY DEF WrapInv, Answer, wrapVars
  <1>2. IsList(runs')
    BY <1>1, RunsKept DEF Answer
  <1>3. CASE stage' \in {"idle", "chain"}
    BY <1>1, <1>2, <1>3, NothingClaimed
  <1>4. CASE stage' = "post" /\ Cmd.name \notin OnChain
    BY <1>1, <1>2, <1>4 DEF Answer, WrapInv, IsList
  <1> QED
    BY <1>3, <1>4 DEF Answer

LEMMA WrapStep == WrapInv /\ [Next]_vars => WrapInv'
  <1> SUFFICES ASSUME WrapInv, [Next]_vars PROVE WrapInv'
    OBVIOUS
  <1>1. CASE \E c \in CommandLines : Invoke(c)
    BY <1>1, InvokeStep
  <1>2. CASE Program
    BY <1>2, ProgramStep
  <1>3. CASE Answer
    BY <1>3, AnswerStep
  <1>4. CASE ~(\E c \in CommandLines : Invoke(c)) /\ ~Program /\ ~Answer
    BY <1>4, Outside, CmdVars, WrapFrame
  <1> QED
    BY <1>1, <1>2, <1>3, <1>4

(* Whatever is submitted holds every action the command asks for, once and *)
(* in order, each through the multisig it belongs to.                      *)
THEOREM ThroughMultisig == Spec => []AdminThroughMultisig
  <1>1. WrapInv => AdminThroughMultisig
    BY DEF WrapInv, AdminThroughMultisig, Wraps, WellWrapped, WellWrappedOf
  <1> QED
    BY <1>1, WrapInit, WrapStep, PTL DEF Spec

-----------------------------------------------------------------------------
(* The submission: runs, the network and what the user is told.            *)

Recorded(r) ==
  r = [cmd |-> r.cmd, shown |-> r.shown, said |-> r.said, told |-> r.told, report |-> r.report,
       outcome |-> r.outcome]

Sent(t) == t = [run |-> t.run, instruction |-> t.instruction, fate |-> t.fate]

(* Every request and every transfer comes of a run.                        *)
Histories ==
  /\ IsList(runs) /\ IsList(executed) /\ IsList(transfers)
  /\ \A k \in 1..Len(runs) : Recorded(runs[k])
  /\ \A q \in inbox : q.run \in 1..Len(runs)
  /\ \A i \in DOMAIN executed : executed[i].run \in 1..Len(runs)
  /\ \A i \in DOMAIN transfers : transfers[i].run \in 1..Len(runs) /\ Sent(transfers[i])
  /\ clock \in Nat /\ nonce \in Nat

(* At most one, counting what is still on its way.                         *)
Once ==
  /\ OncePerRun
  /\ \A q, r \in inbox : q.run = r.run => q = r
  /\ \A q \in inbox, i \in DOMAIN executed : q.run # executed[i].run

(* A transaction is the one that was shown in its run.                     *)
Faithful(q, r) == r.cmd.program # "lib" => Agreed(r) /\ (r.cmd.preview => q = r.shown)

Confirmed ==
  /\ \A q \in inbox : Faithful(q, runs[q.run])
  /\ \A i \in DOMAIN executed : Faithful(executed[i], runs[executed[i].run])
  /\ \A i \in DOMAIN transfers : Agreed(runs[transfers[i].run])

Unsent(k)  == (\A q \in inbox : q.run # k) /\ (\A i \in DOMAIN executed : executed[i].run # k)
Unmoved(k) == \A i \in DOMAIN transfers : transfers[i].run # k

Consent(r) == r.cmd.preview /\ ~r.cmd.yes => r.said = "yes"

(* The transaction that place_tx will make of what was wrapped.            *)
Prepared ==
  [run |-> Len(runs), account |-> SignerKey, nonce |-> nonce, actions |-> TxActions(wrapped)]

(* How far the current run is: nothing of it is out before it is posted or *)
(* sent, and by then the user has seen and agreed.                         *)
Progress ==
  /\ stage # "idle" => Len(runs) # 0 /\ runs[Len(runs)].outcome = "running"
  /\ stage \notin {"idle", "wait"} => Unsent(Len(runs))
  /\ stage # "chain" => rpc = NoRpc
  /\ stage # "idle" /\ rpc.at \in {"off", "blockhash", "send"} => Unmoved(Len(runs))
  /\ rpc = [at |-> rpc.at, polls |-> rpc.polls, out |-> rpc.out]
  /\ rpc.out \in {"none", "error", "signature"}
  /\ stage \in {"post", "chain"} => Consent(runs[Len(runs)])
  /\ stage = "post" \/ (stage = "prompt" /\ runs[Len(runs)].cmd.name \notin OnChain) =>
       (runs[Len(runs)].cmd.preview => runs[Len(runs)].shown = Prepared)

SubmitInv == Histories /\ Once /\ Confirmed /\ Progress

LEMMA SubmitInit == Init => SubmitInv
  <1> SUFFICES ASSUME Init PROVE SubmitInv
    OBVIOUS
  <1>1. IsList(<<>>) /\ DOMAIN <<>> = {} /\ Len(<<>>) = 0
    <2>1. IsList(<<>>)
      BY ListOfSeq, EmptySeq
    <2> QED
      BY <2>1
  <1>2. runs = <<>> /\ executed = <<>> /\ transfers = <<>> /\ inbox = {} /\ clock = 0 /\ nonce = 0
        /\ stage = "idle" /\ rpc = NoRpc
    BY DEF Init, HttpInit, SolInit
  <1>3. Histories
    BY <1>1, <1>2 DEF Histories
  <1>4. Once
    BY <1>1, <1>2 DEF Once, OncePerRun
  <1>5. Confirmed
    BY <1>1, <1>2 DEF Confirmed
  <1>6. Progress
    BY <1>2 DEF Progress, NoRpc
  <1> QED
    BY <1>3, <1>4, <1>5, <1>6 DEF SubmitInv

-----------------------------------------------------------------------------
(* A run is started, or the record of the current one is changed.          *)

LEMMA StartStep ==
  ASSUME SubmitInv, stage = "idle", NEW c, NEW o,
         runs' = Append(runs, NewRun(c, o)),
         UNCHANGED <<executed, transfers, rpc, clock, nonce>>,
         \/ inbox' = inbox
         \/ /\ inbox' = inbox \cup {tx'} /\ tx'.run = Len(runs) + 1
            /\ c.program = "lib" /\ stage' = "wait",
         stage' # "idle" => o = "running",
         stage' \in {"idle", "saving", "wrap", "propose", "wait", "prompt", "chain"},
         stage' = "prompt" => c.name \in OnChain,
         stage' = "chain" => ~(c.preview /\ ~c.yes)
  PROVE  SubmitInv'
  <1> DEFINE n == Len(runs)
             new == NewRun(c, o)
  <1>1. /\ IsList(runs') /\ n \in Nat /\ Len(runs') = n + 1 /\ DOMAIN runs = 1..n
        /\ \A k \in 1..n : runs'[k] = runs[k]
        /\ runs'[n + 1] = new
    BY ListAppend DEF SubmitInv, Histories
  <1>2. /\ Recorded(new) /\ new.cmd = c /\ new.outcome = o
    BY DEF Recorded, NewRun
  <1> HIDE DEF n, new
  <1>3. \A k \in 1..n : k \in 1..(n + 1) /\ k # n + 1
    BY <1>1
  <1>4. /\ \A q \in inbox : q.run \in 1..n
        /\ \A i \in DOMAIN executed : executed[i].run \in 1..n
        /\ \A i \in DOMAIN transfers : transfers[i].run \in 1..n
    BY DEF SubmitInv, Histories, n
  <1>5. /\ \A q \in inbox : q.run \in 1..(n + 1) /\ q.run # n + 1 /\ runs'[q.run] = runs[q.run]
        /\ \A i \in DOMAIN executed :
             executed[i].run \in 1..(n + 1) /\ executed[i].run # n + 1
             /\ runs'[executed[i].run] = runs[executed[i].run]
        /\ \A i \in DOMAIN transfers :
             transfers[i].run \in 1..(n + 1) /\ transfers[i].run # n + 1
             /\ runs'[transfers[i].run] = runs[transfers[i].run]
    BY <1>1, <1>3, <1>4
  <1>6. \A q \in inbox' : q \in inbox \/ (q = tx' /\ q.run = n + 1 /\ c.program = "lib" /\ stage' = "wait")
    BY DEF n
  <1>7. n + 1 \in 1..(n + 1) /\ n + 1 # 0
    BY <1>1
  <1>8. Histories'
    <2>1. \A k \in 1..(n + 1) : Recorded(runs'[k])
      <3> TAKE k \in 1..(n + 1)
      <3>1. k = n + 1 \/ k \in 1..n
        BY <1>1
      <3>2. \A j \in 1..n : Recorded(runs[j])
        BY DEF SubmitInv, Histories, n
      <3> QED
        BY <1>1, <1>2, <3>1, <3>2
    <2>2. \A q \in inbox' : q.run \in 1..(n + 1)
      BY <1>5, <1>6, <1>7
    <2>3. IsList(executed) /\ IsList(transfers) /\ clock \in Nat /\ nonce \in Nat
          /\ \A i \in DOMAIN transfers : Sent(transfers[i])
      BY DEF SubmitInv, Histories
    <2> QED
      BY <1>1, <1>5, <2>1, <2>2, <2>3 DEF Histories, IsList, Recorded, Sent
  <1>9. Once'
    BY <1>5, <1>6 DEF SubmitInv, Once, OncePerRun
  <1>10. Confirmed'
    <2>1. \A q \in inbox' : Faithful(q, runs'[q.run])
      BY <1>1, <1>2, <1>5, <1>6 DEF SubmitInv, Confirmed, Faithful
    <2>2. \A i \in DOMAIN executed : Faithful(executed[i], runs'[executed[i].run])
      BY <1>5 DEF SubmitInv, Confirmed
    <2>3. \A i \in DOMAIN transfers : Agreed(runs'[transfers[i].run])
      BY <1>5 DEF SubmitInv, Confirmed
    <2> QED
      BY <2>1, <2>2, <2>3 DEF Confirmed, Faithful, Agreed
  <1>11. Progress'
    <2>1. stage' \notin {"idle", "wait"} =>
            /\ \A q \in inbox' : q.run # n + 1
            /\ \A i \in DOMAIN executed' : executed'[i].run # n + 1
      BY <1>5, <1>6
    <2>2. \A i \in DOMAIN transfers' : transfers'[i].run # n + 1
      BY <1>5
    <2>3. rpc' = NoRpc
      BY DEF SubmitInv, Progress
    <2>4. stage' # "idle" => new.outcome = "running"
      BY <1>2
    <2>5. stage' = "chain" => Consent(new)
      BY <1>2 DEF Consent
    <2> QED
      BY <1>1, <1>2, <1>7, <2>1, <2>2, <2>3, <2>4, <2>5 DEF Progress, Consent, NoRpc, Unsent, Unmoved
  <1> QED
    BY <1>8, <1>9, <1>10, <1>11 DEF SubmitInv

(* The record of the current run is changed, and no other.                 *)
Rewritten == runs' = [i \in DOMAIN runs |-> IF i = Len(runs) THEN runs'[i] ELSE runs[i]]

(* What was agreed stays.                                                  *)
KeepsAgreed ==
  /\ runs'[Len(runs)].cmd = runs[Len(runs)].cmd /\ runs'[Len(runs)].said = runs[Len(runs)].said
  /\ runs'[Len(runs)].shown = runs[Len(runs)].shown
  /\ runs'[Len(runs)].outcome \notin {"refused", "declined", "dry run"}

LEMMA UpTo == ASSUME NEW n \in Nat, n # 0 PROVE n \in 1..n
  OBVIOUS

LEMMA NoRpcIsOff == NoRpc.at = "off"
  BY DEF NoRpc

(* Nothing of the current run is out, or its record stays as agreed.       *)
LEMMA RecordStep ==
  ASSUME SubmitInv, stage # "idle", Rewritten, Recorded(runs'[Len(runs)]),
         UNCHANGED <<inbox, executed, transfers>>,
         clock' \in Nat, nonce' \in Nat,
         stage \in {"wait", "chain"} => KeepsAgreed
  PROVE  Histories' /\ Once' /\ Confirmed' /\ Len(runs') = Len(runs) /\ Len(runs) # 0
  <1> DEFINE n == Len(runs)
             old == runs[n]
             r == runs'[n]
  <1>1. n \in Nat /\ n # 0 /\ n \in 1..n /\ DOMAIN runs = 1..n /\ IsList(runs)
    <2>1. IsList(runs) /\ n # 0
      BY DEF SubmitInv, Histories, Progress
    <2>2. n \in Nat /\ DOMAIN runs = 1..n
      BY <2>1, ListFacts
    <2> QED
      BY <2>1, <2>2, UpTo
  <1>2. /\ IsList(runs') /\ Len(runs') = n
        /\ \A k \in 1..n : k # n => runs'[k] = runs[k]
    <2>1. IsList(runs') /\ Len(runs') = n
      BY <1>1, RunsKept DEF Rewritten
    <2>2. \A k \in 1..n : k # n => runs'[k] = runs[k]
      BY <1>1 DEF Rewritten
    <2> QED
      BY <2>1, <2>2
  <1>3. Histories'
    <2>1. \A k \in 1..n : Recorded(runs'[k])
      BY <1>2 DEF SubmitInv, Histories
    <2>2. /\ \A q \in inbox : q.run \in 1..n
          /\ \A i \in DOMAIN executed : executed[i].run \in 1..n
          /\ \A i \in DOMAIN transfers : transfers[i].run \in 1..n /\ Sent(transfers[i])
          /\ IsList(executed) /\ IsList(transfers)
      BY DEF SubmitInv, Histories
    <2> QED
      BY <1>2, <2>1, <2>2 DEF Histories, IsList, Recorded, Sent
  <1>4. Once'
    BY DEF SubmitInv, Once, OncePerRun
  <1>5. stage \notin {"wait", "chain"} => Unsent(n) /\ Unmoved(n)
    <2>1. /\ stage \notin {"idle", "wait"} => Unsent(n)
          /\ stage # "chain" => rpc = NoRpc
          /\ stage # "idle" /\ rpc.at \in {"off", "blockhash", "send"} => Unmoved(n)
      BY DEF SubmitInv, Progress
    <2> QED
      BY <2>1, NoRpcIsOff
  <1>7. stage \in {"wait", "chain"} =>
          /\ \A q : Faithful(q, old) => Faithful(q, r)
          /\ Agreed(old) => Agreed(r)
    BY DEF Faithful, Agreed, KeepsAgreed
  <1>8. /\ \A q \in inbox : q.run \in 1..n /\ Faithful(q, runs[q.run])
        /\ \A i \in DOMAIN executed : executed[i].run \in 1..n /\ Faithful(executed[i], runs[executed[i].run])
        /\ \A i \in DOMAIN transfers : transfers[i].run \in 1..n /\ Agreed(runs[transfers[i].run])
    BY DEF SubmitInv, Histories, Confirmed
  <1> HIDE DEF n, old, r
  <1>9. Confirmed'
    <2>1. \A q \in inbox : Faithful(q, runs'[q.run])
      BY <1>2, <1>5, <1>7, <1>8 DEF Unsent, old, r
    <2>2. \A i \in DOMAIN executed : Faithful(executed[i], runs'[executed[i].run])
      BY <1>2, <1>5, <1>7, <1>8 DEF Unsent, old, r
    <2>3. \A i \in DOMAIN transfers : Agreed(runs'[transfers[i].run])
      BY <1>2, <1>5, <1>7, <1>8 DEF Unmoved, old, r
    <2> QED
      BY <2>1, <2>2, <2>3 DEF Confirmed, Faithful, Agreed
  <1> QED
    BY <1>1, <1>2, <1>3, <1>4, <1>9 DEF n

(* The current run and what is out stay as they are.                       *)
LEMMA FrameStep ==
  ASSUME SubmitInv, UNCHANGED <<runs, inbox, executed, transfers>>, clock' \in Nat, nonce' \in Nat
  PROVE  Histories' /\ Once' /\ Confirmed'
  <1>1. Histories'
    BY DEF SubmitInv, Histories, IsList, Recorded, Sent
  <1>2. Once'
    BY DEF SubmitInv, Once, OncePerRun
  <1>3. Confirmed'
    BY DEF SubmitInv, Confirmed, Faithful, Agreed
  <1> QED
    BY <1>1, <1>2, <1>3

LEMMA IdleProgress ==
  ASSUME stage' = "idle", rpc' = NoRpc
  PROVE  Progress'
  BY DEF Progress, NoRpc

-----------------------------------------------------------------------------
(* A command starts.                                                       *)
LEMMA InvokeSubmits ==
  ASSUME SubmitInv, NEW c \in CommandLines, Invoke(c)
  PROVE  SubmitInv'
  <1>1. ASSUME NEW o, MayRun(c), AtOnce(c, o)
        PROVE  SubmitInv'
    BY <1>1, StartStep DEF MayRun, AtOnce, Idle, httpVars, netVars, solVars
  <1>2. ASSUME NEW next \in {"saving", "wrap", "propose", "chain", "prompt"},
               MayRun(c), Begins(c, next), UNCHANGED <<nonce, httpVars, solVars>>,
               next = "prompt" => c.name \in OnChain,
               next = "chain" => ~(c.preview /\ ~c.yes)
        PROVE  SubmitInv'
    <2>1. stage = "idle" /\ runs' = Append(runs, NewRun(c, "running")) /\ stage' = next
      BY <1>2 DEF MayRun, Idle, Begins
    <2>2. UNCHANGED <<inbox, executed, transfers, rpc, clock, nonce>>
      BY <1>2 DEF httpVars, netVars, solVars
    <2> QED
      BY <1>2, <2>1, <2>2, StartStep
  <1>3. CASE LoadFails(c) \/ HandleLedgerInfo(c)
    BY <1>1, <1>3 DEF LoadFails, HandleLedgerInfo, Loads
  <1>4. CASE HandleConfig(c)
    BY <1>1, <1>2, <1>4 DEF HandleConfig, Loads
  <1>5. CASE HandleOnChain(c)
    BY <1>1, <1>2, <1>5 DEF HandleOnChain, Loads
  <1>6. CASE HandleSigned(c)
    BY <1>1, <1>2, <1>6 DEF HandleSigned, Loads, StartWrapping
  <1>7. CASE HandleSdk(c)
    BY <1>1, <1>2, <1>7 DEF HandleSdk
  <1>8. CASE HandleLibrary(c)
    <2>1. CASE AtOnce(c, "refused")
      BY <1>1, <1>8, <2>1 DEF HandleLibrary
    <2>2. ASSUME Begins(c, "wait"), UNCHANGED <<nonce, solVars>>, UNCHANGED <<clock, executed>>,
                 inbox' = inbox \/ (inbox' = inbox \cup {tx'} /\ tx'.run = Len(runs) + 1)
          PROVE  SubmitInv'
      <3>1. stage = "idle" /\ c.program = "lib" /\ runs' = Append(runs, NewRun(c, "running"))
            /\ stage' = "wait"
        BY <1>8, <2>2 DEF HandleLibrary, MayRun, Idle, Begins
      <3> QED
        BY <2>2, <3>1, StartStep DEF solVars
    <2>3. ASSUME NEW actions, NEW account, NEW n, PlaceTx(Current + 1, actions, account, n)
          PROVE  /\ UNCHANGED <<clock, executed>>
                 /\ inbox' = inbox \/ (inbox' = inbox \cup {tx'} /\ tx'.run = Len(runs) + 1)
      BY <2>3 DEF PlaceTx, Current
    <2>4. NoSigner => UNCHANGED <<clock, executed>> /\ inbox' = inbox
      BY DEF NoSigner
    <2> QED
      BY <1>8, <2>1, <2>2, <2>3, <2>4 DEF HandleLibrary
  <1> QED
    BY <1>3, <1>4, <1>5, <1>6, <1>7, <1>8 DEF Invoke

-----------------------------------------------------------------------------
(* The program goes on.                                                    *)

(* The record that is changed is the current one, and stays a record.      *)
LEMMA CurrentRecord ==
  ASSUME SubmitInv, stage # "idle"
  PROVE  /\ Recorded(runs[Len(runs)]) /\ Len(runs) \in DOMAIN runs
         /\ runs[Len(runs)].outcome = "running"
  <1>1. IsList(runs) /\ Len(runs) # 0
    BY DEF SubmitInv, Histories, Progress
  <1>2. Len(runs) \in 1..Len(runs) /\ DOMAIN runs = 1..Len(runs)
    BY <1>1, ListFacts, UpTo
  <1> QED
    BY <1>2 DEF SubmitInv, Histories, Progress

LEMMA SaveSubmits ==
  ASSUME SubmitInv, Save PROVE SubmitInv'
  <1> DEFINE old == runs[Len(runs)]
             new == runs'[Len(runs)]
  <1>1. Recorded(old) /\ Len(runs) \in DOMAIN runs /\ stage = "saving" /\ stage' = "idle"
    BY CurrentRecord DEF Save
  <1>2. \E o : runs' = [runs EXCEPT ![Len(runs)].outcome = o]
    BY DEF Save, Current
  <1>3. Rewritten /\ Recorded(new)
    BY <1>1, <1>2 DEF Rewritten, Recorded
  <1>4. UNCHANGED <<inbox, executed, transfers, rpc, clock, nonce>>
    BY DEF Save, httpVars, netVars, solVars
  <1>5. clock \in Nat /\ nonce \in Nat /\ rpc = NoRpc
    BY <1>1 DEF SubmitInv, Histories, Progress
  <1>6. Histories' /\ Once' /\ Confirmed'
    BY <1>1, <1>3, <1>4, <1>5, RecordStep
  <1> QED
    BY <1>1, <1>4, <1>5, <1>6, IdleProgress DEF SubmitInv

LEMMA WrapSubmits ==
  ASSUME SubmitInv, WrapNext \/ WrapEnd PROVE SubmitInv'
  <1>1. /\ stage = "wrap" /\ stage' \in {"wrap", "submit"}
        /\ UNCHANGED <<runs, inbox, executed, transfers, rpc, clock, nonce>>
    BY DEF WrapNext, WrapEnd, httpVars, netVars, solVars
  <1>2. Histories' /\ Once' /\ Confirmed'
    BY <1>1, FrameStep DEF SubmitInv, Histories
  <1>3. Progress'
    BY <1>1 DEF SubmitInv, Progress, Unsent, Unmoved, NoRpc
  <1> QED
    BY <1>2, <1>3 DEF SubmitInv

(* What is shown is what place_tx will send.                               *)
LEMMA PreviewSubmits ==
  ASSUME SubmitInv, stage \in {"submit", "propose"}, Previews(wrapped'),
         UNCHANGED <<asked, httpVars, solVars>>
  PROVE  SubmitInv'
  <1> DEFINE n == Len(runs)
             old == runs[n]
             new == runs'[n]
             shown == [run |-> n, account |-> SignerKey, nonce |-> clock,
                       actions |-> TxActions(wrapped')]
  <1>1. Recorded(old) /\ n \in DOMAIN runs /\ stage # "idle" /\ old.outcome = "running"
    BY CurrentRecord
  <1>2. UNCHANGED <<inbox, executed, transfers, rpc, clock>> /\ nonce' = clock
    BY DEF Previews, MakeNonce, httpVars, netVars, solVars
  <1>3. clock \in Nat /\ rpc = NoRpc /\ Unsent(n) /\ Unmoved(n)
    BY NoRpcIsOff DEF SubmitInv, Histories, Progress
  <1>4. runs' = IF old.cmd.preview THEN [runs EXCEPT ![n].shown = shown] ELSE runs
    BY DEF Previews, Cmd, Current, MakeNonce
  <1>5. stage' = IF old.cmd.preview /\ ~old.cmd.yes THEN "prompt" ELSE "post"
    BY DEF Previews, Cmd, Current
  <1> HIDE DEF shown
  <1>6. /\ Rewritten /\ Recorded(new) /\ new.cmd = old.cmd /\ new.outcome = "running"
        /\ old.cmd.preview => new.shown = shown
    <2>1. CASE old.cmd.preview
      <3>1. runs' = [runs EXCEPT ![n].shown = shown]
        BY <1>4, <2>1
      <3>2. new = [old EXCEPT !.shown = shown]
        BY <1>1, <3>1
      <3>3. Rewritten
        BY <1>1, <3>1 DEF Rewritten
      <3> HIDE DEF old, new
      <3> QED
        BY <1>1, <3>2, <3>3 DEF Recorded
    <2>2. CASE ~old.cmd.preview
      <3>1. runs' = runs
        BY <1>4, <2>2
      <3>2. Rewritten
        <4>1. IsList(runs)
          BY DEF SubmitInv, Histories
        <4>2. runs = [i \in DOMAIN runs |-> runs[i]]
          BY <4>1, ListFacts
        <4> QED
          BY <3>1, <4>2 DEF Rewritten
      <3> QED
        BY <1>1, <2>2, <3>1, <3>2
    <2> QED
      BY <2>1, <2>2
  <1>7. Histories' /\ Once' /\ Confirmed' /\ Len(runs') = n /\ n # 0
    BY <1>1, <1>2, <1>3, <1>6, RecordStep
  <1>8. Prepared' = shown
    BY <1>2, <1>7 DEF Prepared, TxActions, shown
  <1>9. stage' = "post" => Consent(new)
    BY <1>5, <1>6 DEF Consent
  <1>10. Progress'
    <2>1. stage' \in {"prompt", "post"} /\ rpc' = NoRpc
      BY <1>2, <1>3, <1>5
    <2>2. /\ \A q \in inbox' : q.run # n
          /\ \A i \in DOMAIN executed' : executed'[i].run # n
          /\ \A i \in DOMAIN transfers' : transfers'[i].run # n
      BY <1>2, <1>3 DEF Unsent, Unmoved
    <2>3. new.cmd.preview => new.shown = Prepared'
      BY <1>6, <1>8
    <2> QED
      BY <1>6, <1>7, <1>9, <2>1, <2>2, <2>3 DEF Progress, Unsent, Unmoved, Consent, NoRpc
  <1> QED
    BY <1>7, <1>10 DEF SubmitInv

LEMMA PostSubmits ==
  ASSUME SubmitInv, Post PROVE SubmitInv'
  <1> DEFINE n == Len(runs)
  <1>1. /\ stage = "post" /\ stage' = "wait" /\ tx' = Prepared
        /\ inbox' = inbox \/ inbox' = inbox \cup {tx'}
        /\ UNCHANGED <<runs, executed, transfers, rpc, clock, nonce>>
    <2>1. nonce # -1
      BY DEF SubmitInv, Histories
    <2> QED
      BY <2>1 DEF Post, PlaceTx, Prepared, Current, solVars
  <1>2. /\ Recorded(runs[n]) /\ n \in DOMAIN runs /\ runs[n].outcome = "running"
        /\ Unsent(n) /\ Unmoved(n) /\ Consent(runs[n]) /\ rpc = NoRpc /\ n # 0
        /\ runs[n].cmd.preview => runs[n].shown = Prepared
    BY <1>1, CurrentRecord, NoRpcIsOff DEF SubmitInv, Progress
  <1>3. Prepared.run = n
    BY DEF Prepared
  <1>4. Faithful(Prepared, runs[n])
    BY <1>2 DEF Faithful, Agreed, Consent
  <1>5. n \in 1..n
    BY <1>2, ListFacts DEF SubmitInv, Histories
  <1> HIDE DEF n
  <1>6. \A q \in inbox' : q \in inbox \/ q = Prepared
    BY <1>1
  <1>7. Histories'
    <2>1. \A q \in inbox' : q.run \in 1..n
      BY <1>3, <1>5, <1>6 DEF SubmitInv, Histories, n
    <2> QED
      BY <1>1, <2>1 DEF SubmitInv, Histories, IsList, Recorded, Sent, n
  <1>8. Once'
    BY <1>1, <1>2, <1>3, <1>6 DEF SubmitInv, Once, OncePerRun, Unsent
  <1>9. Confirmed'
    <2>1. \A q \in inbox' : Faithful(q, runs[q.run])
      BY <1>3, <1>4, <1>6 DEF SubmitInv, Confirmed
    <2> QED
      BY <1>1, <2>1 DEF SubmitInv, Confirmed, Faithful, Agreed
  <1>10. Progress'
    BY <1>1, <1>2 DEF Progress, Unmoved, NoRpc, n
  <1> QED
    BY <1>7, <1>8, <1>9, <1>10 DEF SubmitInv

LEMMA ReportSubmits ==
  ASSUME SubmitInv, Report PROVE SubmitInv'
  <1> DEFINE old == runs[Len(runs)]
             new == runs'[Len(runs)]
  <1>1. Recorded(old) /\ Len(runs) \in DOMAIN runs /\ stage = "wait" /\ stage' = "idle"
    BY CurrentRecord DEF Report
  <1>2. \E t, p : \E o \in {"error", "panic", "reported"} :
          runs' = [runs EXCEPT ![Len(runs)].told = t, ![Len(runs)].report = p,
                               ![Len(runs)].outcome = o]
    BY DEF Report, Current
  <1>3. Rewritten /\ Recorded(new) /\ KeepsAgreed
    <2>1. PICK t, p : \E o \in {"error", "panic", "reported"} :
            runs' = [runs EXCEPT ![Len(runs)].told = t, ![Len(runs)].report = p,
                                 ![Len(runs)].outcome = o]
      BY <1>2
    <2>2. PICK o \in {"error", "panic", "reported"} :
            runs' = [runs EXCEPT ![Len(runs)].told = t, ![Len(runs)].report = p,
                                 ![Len(runs)].outcome = o]
      BY <2>1
    <2>3. Rewritten
      BY <1>1, <2>2 DEF Rewritten
    <2>4. new = [[[old EXCEPT !.told = t] EXCEPT !.report = p] EXCEPT !.outcome = o]
      BY <1>1, <2>2
    <2>5. Recorded(new) /\ new.cmd = old.cmd /\ new.said = old.said /\ new.shown = old.shown
          /\ new.outcome = o
      <3> HIDE DEF old, new
      <3> QED
        BY <1>1, <2>4 DEF Recorded
    <2> QED
      BY <2>3, <2>5 DEF KeepsAgreed
  <1>4. UNCHANGED <<inbox, executed, transfers, rpc, clock, nonce>>
    BY DEF Report, Finish, solVars
  <1>5. clock \in Nat /\ nonce \in Nat /\ rpc = NoRpc
    BY <1>1 DEF SubmitInv, Histories, Progress
  <1>6. Histories' /\ Once' /\ Confirmed'
    BY <1>1, <1>3, <1>4, <1>5, RecordStep
  <1> QED
    BY <1>1, <1>4, <1>5, <1>6, IdleProgress DEF SubmitInv

(* The chain: one transfer is sent, from the stage that sends.             *)
LEMMA ChainSubmits ==
  ASSUME SubmitInv, StartTransfer \/ Transfer PROVE SubmitInv'
  <1> DEFINE n == Len(runs)
  <1>1. /\ stage = "chain" /\ UNCHANGED <<cliVars, httpVars>>
        /\ UNCHANGED <<runs, stage, wrapped, asked, inbox, executed, clock, nonce>>
    BY DEF StartTransfer, Transfer, cliVars, httpVars, netVars
  <1>2. /\ rpc = [at |-> rpc.at, polls |-> rpc.polls, out |-> rpc.out]
        /\ rpc.out \in {"none", "error", "signature"}
        /\ rpc.at \in {"off", "blockhash", "send"} => Unmoved(n)
        /\ Unsent(n) /\ n # 0 /\ runs[n].outcome = "running" /\ Consent(runs[n])
    BY <1>1 DEF SubmitInv, Progress
  <1>3. n \in 1..n /\ n \in Nat
    BY <1>2, ListFacts, UpTo DEF SubmitInv, Histories
  <1>4. CASE UNCHANGED transfers
    <2>1. Histories' /\ Once' /\ Confirmed'
      BY <1>1, <1>4, FrameStep DEF SubmitInv, Histories
    <2>2. /\ rpc' = [at |-> rpc'.at, polls |-> rpc'.polls, out |-> rpc'.out]
          /\ rpc'.out \in {"none", "error", "signature"}
          /\ rpc'.at \in {"off", "blockhash", "send"} => rpc.at \in {"off", "blockhash", "send"}
      <3>1. CASE StartTransfer
        BY <3>1, NoRpcIsOff DEF StartTransfer, Begin, NoRpc
      <3>2. CASE Failed
        BY <1>2, <3>2 DEF Failed
      <3>3. CASE LatestBlockhash /\ ~Failed
        BY <1>2, <3>3 DEF LatestBlockhash
      <3>4. CASE SendTransaction(Current, Instruction) /\ ~Failed
        BY <1>2, <3>4 DEF SendTransaction
      <3>5. CASE ConfirmSignature /\ ~Failed
        BY <1>2, <3>5 DEF ConfirmSignature
      <3> QED
        BY <3>1, <3>2, <3>3, <3>4, <3>5 DEF Transfer
    <2>3. Progress'
      BY <1>1, <1>2, <1>4, <2>2 DEF Progress, Unsent, Unmoved, Consent
    <2> QED
      BY <2>1, <2>3 DEF SubmitInv
  <1>5. CASE ~(UNCHANGED transfers)
    <2> DEFINE t == [run |-> n, instruction |-> Instruction, fate |-> "pending"]
    <2>1. /\ rpc.at = "send" /\ transfers' = Append(transfers, t)
          /\ rpc' = [rpc EXCEPT !.at = "poll"] \/ Failed
      BY <1>5 DEF StartTransfer, Begin, Transfer, LatestBlockhash, SendTransaction, ConfirmSignature,
                  Current
    <2>2. t.run = n /\ Sent(t)
      BY DEF Sent
    <2>3. Unmoved(n) /\ IsList(transfers)
      BY <1>2, <2>1 DEF SubmitInv, Histories
    <2> HIDE DEF t
    <2>4. /\ IsList(transfers') /\ Len(transfers) \in Nat
          /\ DOMAIN transfers = 1..Len(transfers)
          /\ DOMAIN transfers' = 1..(Len(transfers) + 1)
          /\ \A i \in 1..Len(transfers) : transfers'[i] = transfers[i]
          /\ transfers'[Len(transfers) + 1] = t
      BY <2>1, <2>3, ListAppend
    <2>5. \A i \in DOMAIN transfers' :
            \/ i \in DOMAIN transfers /\ transfers'[i] = transfers[i]
            \/ i = Len(transfers) + 1 /\ transfers'[i] = t
      BY <2>4
    <2>6. Histories'
      <3>1. \A i \in DOMAIN transfers' : transfers'[i].run \in 1..n /\ Sent(transfers'[i])
        BY <1>3, <2>2, <2>5 DEF SubmitInv, Histories
      <3> QED
        BY <1>1, <2>4, <3>1 DEF SubmitInv, Histories, IsList, Recorded, Sent
    <2>7. Once'
      <3>1. \A i, j \in DOMAIN transfers' : i # j => transfers'[i].run # transfers'[j].run
        BY <2>2, <2>3, <2>5 DEF SubmitInv, Once, OncePerRun, Unmoved
      <3> QED
        BY <1>1, <3>1 DEF SubmitInv, Once, OncePerRun
    <2>8. Confirmed'
      <3>1. Agreed(runs[n])
        BY <1>2 DEF Agreed, Consent
      <3>2. \A i \in DOMAIN transfers' : Agreed(runs[transfers'[i].run])
        BY <2>2, <2>5, <3>1 DEF SubmitInv, Confirmed
      <3> QED
        BY <1>1, <3>2 DEF SubmitInv, Confirmed, Faithful, Agreed
    <2>9. /\ rpc' = [at |-> rpc'.at, polls |-> rpc'.polls, out |-> rpc'.out]
          /\ rpc'.out \in {"none", "error", "signature"}
          /\ rpc'.at \in {"poll", "done"}
      BY <1>2, <2>1 DEF Failed
    <2>10. Progress'
      BY <1>1, <1>2, <2>9 DEF Progress, Unsent, Consent
    <2> QED
      BY <2>6, <2>7, <2>8, <2>10 DEF SubmitInv
  <1> QED
    BY <1>4, <1>5

LEMMA PrintSubmits ==
  ASSUME SubmitInv, PrintSignature PROVE SubmitInv'
  <1> DEFINE old == runs[Len(runs)]
             new == runs'[Len(runs)]
  <1>1. Recorded(old) /\ Len(runs) \in DOMAIN runs /\ stage = "chain" /\ stage' = "idle" /\ rpc' = NoRpc
    BY CurrentRecord DEF PrintSignature
  <1>2. runs' = [runs EXCEPT ![Len(runs)].outcome = rpc.out] /\ rpc.out \in {"none", "error", "signature"}
    BY DEF PrintSignature, Current, SubmitInv, Progress
  <1>3. Rewritten
    BY <1>1, <1>2 DEF Rewritten
  <1>4. new = [old EXCEPT !.outcome = rpc.out]
    BY <1>1, <1>2
  <1>5. Recorded(new) /\ KeepsAgreed
    <2>1. Recorded(new) /\ new.cmd = old.cmd /\ new.said = old.said /\ new.shown = old.shown
          /\ new.outcome = rpc.out
      <3> HIDE DEF old, new
      <3> QED
        BY <1>1, <1>4 DEF Recorded
    <2> QED
      BY <1>2, <2>1 DEF KeepsAgreed
  <1>6. UNCHANGED <<inbox, executed, transfers, clock, nonce>> /\ clock \in Nat /\ nonce \in Nat
    BY DEF PrintSignature, httpVars, netVars, SubmitInv, Histories
  <1>7. Histories' /\ Once' /\ Confirmed'
    BY <1>1, <1>3, <1>5, <1>6, RecordStep
  <1> QED
    BY <1>1, <1>7, IdleProgress DEF SubmitInv

LEMMA ProgramSubmits ==
  ASSUME SubmitInv, Program PROVE SubmitInv'
  <1>1. CASE Submit
    <2>1. stage = "submit" /\ Previews(wrapped') /\ UNCHANGED <<asked, httpVars, solVars>>
      BY <1>1 DEF Submit, wrapVars, Previews, TxActions
    <2> QED
      BY <2>1, PreviewSubmits
  <1>2. CASE SubmitAction
    <2>1. stage = "propose" /\ Previews(wrapped') /\ UNCHANGED <<asked, httpVars, solVars>>
      BY <1>2 DEF SubmitAction
    <2> QED
      BY <2>1, PreviewSubmits
  <1> QED
    BY <1>1, <1>2, SaveSubmits, WrapSubmits, PostSubmits, ReportSubmits, ChainSubmits, PrintSubmits
    DEF Program

(* The user answers.                                                       *)
LEMMA AnswerSubmits ==
  ASSUME SubmitInv, Answer PROVE SubmitInv'
  <1> DEFINE n == Len(runs)
             old == runs[n]
             new == runs'[n]
  <1>1. /\ Recorded(old) /\ n \in DOMAIN runs /\ stage = "prompt" /\ old.outcome = "running"
        /\ UNCHANGED <<asked, wrapped, inbox, executed, transfers, rpc, clock, nonce>>
    BY CurrentRecord DEF Answer, wrapVars, httpVars, netVars, solVars
  <1>2. /\ clock \in Nat /\ nonce \in Nat /\ rpc = NoRpc /\ Unsent(n) /\ Unmoved(n) /\ n # 0
        /\ old.cmd.name \notin OnChain => (old.cmd.preview => old.shown = Prepared)
    BY <1>1, NoRpcIsOff DEF SubmitInv, Histories, Progress
  <1>3. CASE /\ runs' = [runs EXCEPT ![n].said = "yes"]
             /\ stage' = IF old.cmd.name \in OnChain THEN "chain" ELSE "post"
    <2>1. Rewritten /\ new = [old EXCEPT !.said = "yes"]
      BY <1>1, <1>3 DEF Rewritten
    <2>2. /\ Recorded(new) /\ new.cmd = old.cmd /\ new.said = "yes" /\ new.shown = old.shown
          /\ new.outcome = "running"
      <3> HIDE DEF old, new
      <3> QED
        BY <1>1, <2>1 DEF Recorded
    <2>3. Histories' /\ Once' /\ Confirmed' /\ Len(runs') = n
      BY <1>1, <1>2, <2>1, <2>2, RecordStep
    <2>4. Prepared' = Prepared
      BY <1>1, <2>3 DEF Prepared, TxActions
    <2>5. Progress'
      <3>1. stage' \in {"chain", "post"} /\ rpc' = NoRpc /\ (stage' = "post" => old.cmd.name \notin OnChain)
        BY <1>1, <1>2, <1>3
      <3>2. /\ \A q \in inbox' : q.run # n
            /\ \A i \in DOMAIN executed' : executed'[i].run # n
            /\ \A i \in DOMAIN transfers' : transfers'[i].run # n
        BY <1>1, <1>2 DEF Unsent, Unmoved
      <3>3. stage' = "post" => (new.cmd.preview => new.shown = Prepared')
        BY <1>2, <2>2, <2>4, <3>1
      <3> QED
        BY <1>2, <2>2, <2>3, <3>1, <3>2, <3>3 DEF Progress, Unsent, Unmoved, Consent, NoRpc
    <2> QED
      BY <2>3, <2>5 DEF SubmitInv
  <1>4. CASE /\ \E said : runs' = [runs EXCEPT ![n].said = said, ![n].outcome = "declined"]
             /\ stage' = "idle"
    <2>1. PICK said : runs' = [runs EXCEPT ![n].said = said, ![n].outcome = "declined"]
      BY <1>4
    <2>2. Rewritten /\ new = [[old EXCEPT !.said = said] EXCEPT !.outcome = "declined"]
      BY <1>1, <2>1 DEF Rewritten
    <2>3. Recorded(new)
      <3> HIDE DEF old, new
      <3> QED
        BY <1>1, <2>2 DEF Recorded
    <2>4. Histories' /\ Once' /\ Confirmed'
      BY <1>1, <1>2, <2>2, <2>3, RecordStep
    <2> QED
      BY <1>1, <1>2, <1>4, <2>4, IdleProgress DEF SubmitInv
  <1> QED
    BY <1>3, <1>4 DEF Answer, Cmd, Current

-----------------------------------------------------------------------------
(* What goes on around the program.                                        *)

LEMMA NetworkSubmits ==
  ASSUME SubmitInv, Network PROVE SubmitInv'
  <1> DEFINE n == Len(runs)
  <1>1. UNCHANGED <<stage, runs, nonce, asked, wrapped, rpc, transfers, clock>>
    BY DEF Network, Execute, Lose, Receive, Timeout, cliVars, solVars
  <1>2. ASSUME NEW q \in inbox, inbox' = inbox \ {q}, executed' = Append(executed, q)
        PROVE  SubmitInv'
    <2>1. /\ IsList(executed') /\ Len(executed) \in Nat
          /\ DOMAIN executed = 1..Len(executed) /\ DOMAIN executed' = 1..(Len(executed) + 1)
          /\ \A i \in 1..Len(executed) : executed'[i] = executed[i]
          /\ executed'[Len(executed) + 1] = q
      BY <1>2, ListAppend DEF SubmitInv, Histories
    <2>2. \A i \in DOMAIN executed' :
            \/ i \in DOMAIN executed /\ executed'[i] = executed[i]
            \/ i = Len(executed) + 1 /\ executed'[i] = q
      BY <2>1
    <2>3. \A i \in DOMAIN executed : executed[i].run # q.run
      BY DEF SubmitInv, Once
    <2>4. \A p \in inbox' : p \in inbox /\ p.run # q.run
      BY <1>2 DEF SubmitInv, Once
    <2>5. Histories'
      <3>1. \A i \in DOMAIN executed' : executed'[i].run \in 1..n
        BY <2>2 DEF SubmitInv, Histories
      <3>2. \A p \in inbox' : p.run \in 1..n
        BY <2>4 DEF SubmitInv, Histories
      <3> QED
        BY <1>1, <2>1, <3>1, <3>2 DEF SubmitInv, Histories, IsList, Recorded, Sent
    <2>6. Once'
      <3>1. \A i, j \in DOMAIN executed' : i # j => executed'[i].run # executed'[j].run
        BY <2>2, <2>3 DEF SubmitInv, Once, OncePerRun
      <3>2. \A p \in inbox', i \in DOMAIN executed' : p.run # executed'[i].run
        BY <2>2, <2>4 DEF SubmitInv, Once
      <3> QED
        BY <1>1, <2>4, <3>1, <3>2 DEF SubmitInv, Once, OncePerRun
    <2>7. Confirmed'
      <3>1. \A i \in DOMAIN executed' : Faithful(executed'[i], runs[executed'[i].run])
        BY <1>2, <2>2 DEF SubmitInv, Confirmed
      <3>2. \A p \in inbox' : Faithful(p, runs[p.run])
        BY <2>4 DEF SubmitInv, Confirmed
      <3> QED
        BY <1>1, <3>1, <3>2 DEF SubmitInv, Confirmed, Faithful, Agreed
    <2>8. Progress'
      <3>1. Unsent(n) => /\ \A p \in inbox' : p.run # n
                         /\ \A i \in DOMAIN executed' : executed'[i].run # n
        BY <1>2, <2>2, <2>4 DEF Unsent
      <3>2. Prepared' = Prepared
        BY <1>1 DEF Prepared, TxActions
      <3> QED
        BY <1>1, <3>1, <3>2 DEF SubmitInv, Progress, Unsent, Unmoved, Consent, NoRpc
    <2> QED
      BY <2>5, <2>6, <2>7, <2>8 DEF SubmitInv
  <1>3. ASSUME inbox' \subseteq inbox, executed' = executed
        PROVE  SubmitInv'
    <2>1. Histories'
      BY <1>1, <1>3 DEF SubmitInv, Histories, IsList, Recorded, Sent
    <2>2. Once'
      BY <1>1, <1>3 DEF SubmitInv, Once, OncePerRun
    <2>3. Confirmed'
      BY <1>1, <1>3 DEF SubmitInv, Confirmed, Faithful, Agreed
    <2>4. Progress'
      <3>1. Prepared' = Prepared
        BY <1>1 DEF Prepared, TxActions
      <3> QED
        BY <1>1, <1>3, <3>1 DEF SubmitInv, Progress, Unsent, Unmoved, Consent, NoRpc
    <2> QED
      BY <2>1, <2>2, <2>3, <2>4 DEF SubmitInv
  <1>4. CASE Execute
    BY <1>2, <1>3, <1>4 DEF Execute
  <1>5. CASE Lose \/ Receive \/ Timeout
    BY <1>3, <1>5 DEF Lose, Receive, Timeout
  <1> QED
    BY <1>4, <1>5 DEF Network

(* A fate does not change which run a transfer is of.                      *)
LEMMA SettleSubmits ==
  ASSUME SubmitInv, Settle, UNCHANGED <<cliVars, httpVars>> PROVE SubmitInv'
  <1> DEFINE n == Len(runs)
  <1>1. UNCHANGED <<stage, runs, nonce, asked, wrapped, rpc, clock, inbox, executed>>
    BY DEF Settle, cliVars, httpVars, netVars
  <1>2. PICK i \in DOMAIN transfers : \E fate : transfers' = [transfers EXCEPT ![i].fate = fate]
    BY DEF Settle
  <1>3. PICK fate : transfers' = [transfers EXCEPT ![i].fate = fate]
    BY <1>2
  <1>4. \A j \in DOMAIN transfers : Sent(transfers[j]) /\ transfers[j].run \in 1..n
    BY DEF SubmitInv, Histories
  <1>5. /\ DOMAIN transfers' = DOMAIN transfers
        /\ \A j \in DOMAIN transfers : j # i => transfers'[j] = transfers[j]
        /\ transfers'[i] = [transfers[i] EXCEPT !.fate = fate]
    BY <1>3
  <1>6. \A j \in DOMAIN transfers : transfers'[j].run = transfers[j].run /\ Sent(transfers'[j])
    BY <1>4, <1>5 DEF Sent
  <1>7. IsList(transfers')
    <2>1. IsList(transfers)
      BY DEF SubmitInv, Histories
    <2>2. DOMAIN transfers = 1..Len(transfers) /\ Len(transfers) \in Nat
      BY <2>1, ListFacts
    <2>3. transfers' = [j \in 1..Len(transfers) |-> transfers'[j]]
      BY <1>3, <2>2
    <2> QED
      BY <2>2, <2>3, ListOfFunction
  <1>8. Histories'
    BY <1>1, <1>4, <1>5, <1>6, <1>7 DEF SubmitInv, Histories, IsList, Recorded, Sent
  <1>9. Once'
    BY <1>1, <1>5, <1>6 DEF SubmitInv, Once, OncePerRun
  <1>10. Confirmed'
    <2>1. \A j \in DOMAIN transfers' : Agreed(runs[transfers'[j].run])
      BY <1>5, <1>6 DEF SubmitInv, Confirmed
    <2> QED
      BY <1>1, <2>1 DEF SubmitInv, Confirmed, Faithful, Agreed
  <1>11. Progress'
    <2>1. Prepared' = Prepared
      BY <1>1 DEF Prepared, TxActions
    <2>2. Unmoved(n) => \A j \in DOMAIN transfers' : transfers'[j].run # n
      BY <1>5, <1>6 DEF Unmoved
    <2> QED
      BY <1>1, <2>1, <2>2 DEF SubmitInv, Progress, Unsent, Unmoved, Consent, NoRpc
  <1> QED
    BY <1>8, <1>9, <1>10, <1>11 DEF SubmitInv

(* Reading, and the clock.                                                 *)
LEMMA ApartSubmits ==
  ASSUME SubmitInv, UNCHANGED <<cliVars, netVars, solVars>>, clock' \in Nat
  PROVE  SubmitInv'
  <1>1. UNCHANGED <<stage, runs, nonce, asked, wrapped, rpc, transfers, inbox, executed>>
    BY DEF cliVars, netVars, solVars
  <1>2. nonce \in Nat
    BY DEF SubmitInv, Histories
  <1>3. Histories' /\ Once' /\ Confirmed'
    BY <1>1, <1>2, FrameStep
  <1>4. Prepared' = Prepared
    BY <1>1 DEF Prepared, TxActions
  <1>5. Progress'
    BY <1>1, <1>4 DEF SubmitInv, Progress, Unsent, Unmoved, Consent, NoRpc
  <1> QED
    BY <1>3, <1>5 DEF SubmitInv

LEMMA SubmitStep == SubmitInv /\ [Next]_vars => SubmitInv'
  <1> SUFFICES ASSUME SubmitInv, [Next]_vars PROVE SubmitInv'
    OBVIOUS
  <1>1. clock \in Nat
    BY DEF SubmitInv, Histories
  <1>2. CASE Read
    BY <1>1, <1>2, ApartSubmits
    DEF Read, GetMarketData, GetAccount, GetOpenOrders, GetHistoryPage, ReadErrorBody,
        DecodeErrorBody
  <1>3. CASE TimePasses
    <2>1. clock' \in Nat /\ UNCHANGED <<cliVars, netVars, solVars>>
      BY <1>3, HttpAssumption DEF TimePasses, ClockMoves
    <2> QED
      BY <2>1, ApartSubmits
  <1>4. CASE UNCHANGED vars
    BY <1>1, <1>4, ApartSubmits DEF vars, httpVars
  <1> QED
    BY <1>2, <1>3, <1>4, InvokeSubmits, ProgramSubmits, AnswerSubmits, NetworkSubmits, SettleSubmits
    DEF Next

(* However requests and answers are lost or late, one run of a command has *)
(* its transaction executed at most once (place_tx posts once and never    *)
(* again), and sends at most one transfer.                                 *)
THEOREM AtMostOnce == Spec => []OncePerRun
  <1>1. SubmitInv => OncePerRun
    BY DEF SubmitInv, Once
  <1> QED
    BY <1>1, SubmitInit, SubmitStep, PTL DEF Spec

(* What the exchange executes is, to the nonce, what submit_actions has    *)
(* shown and the user agreed to; a transfer was agreed to as well.         *)
THEOREM OnlyWhatWasConfirmed == Spec => []ExecutedWasConfirmed
  <1>1. SubmitInv => ExecutedWasConfirmed
    BY DEF SubmitInv, Confirmed, Faithful, ExecutedWasConfirmed
  <1> QED
    BY <1>1, SubmitInit, SubmitStep, PTL DEF Spec

-----------------------------------------------------------------------------
(* A new market.                                                           *)

(* The action that adds a market names the market.                         *)
LEMMA AddMarketSchema == "symbol" \in DOMAIN Schema["AddMarket"]
  <1> DEFINE k == "AddMarket"
  <1>1. /\ k \notin DOMAIN OrderFields /\ k \notin DOMAIN CancelFields
        /\ k \notin DOMAIN ConditionalFields /\ k \notin DOMAIN TrailingFields
        /\ k \notin DOMAIN OracleFields
    BY DEF OrderFields, CancelFields, ConditionalFields, TrailingFields, OracleFields
  <1>2. /\ k \notin DOMAIN AccountFields /\ k \notin DOMAIN SubaccountFields
        /\ k \notin DOMAIN MultisigFields
    BY DEF AccountFields, SubaccountFields, MultisigFields
  <1>3. /\ k \notin DOMAIN ConfigFields /\ k \notin DOMAIN RiskFields
        /\ k \notin DOMAIN LiquidatorFields
    BY DEF ConfigFields, RiskFields, LiquidatorFields
  <1>4. k \notin DOMAIN BridgeFields /\ k \notin DOMAIN SystemFields
    BY DEF BridgeFields, SystemFields
  <1>5. k \in DOMAIN MetaFields /\ "symbol" \in DOMAIN MetaFields[k]
    BY DEF MetaFields, Of
  <1> HIDE DEF k
  <1>6. \A table \in Tables : k \in DOMAIN table <=> table = MetaFields
    BY <1>1, <1>2, <1>3, <1>4, <1>5 DEF Tables
  <1>7. MetaFields \in Tables /\ k \in Kinds
    BY <1>5 DEF Tables, Kinds
  <1>8. (CHOOSE table \in Tables : k \in DOMAIN table) = MetaFields
    BY <1>6, <1>7
  <1> QED
    BY <1>5, <1>7, <1>8 DEF Schema, k

LEMMA AddedSymbol ==
  ASSUME NEW args
  PROVE  Built("AddMarket", args, NothingFixed).vals["symbol"] = args["symbol"]
  BY AddMarketSchema DEF Built, NothingFixed

LEMMA SuspendedKind == \A symbol : Suspended(symbol).kind = "MarketAdmin"
  BY BuiltKind DEF Suspended

(* bulk-cli adds a market as the first of two actions.                     *)
CliMarket(s) ==
  \A p \in DOMAIN s : s[p].kind = "AddMarket" =>
    p = 1 /\ Len(s) = 2 /\ s[2] = Suspended(s[1].vals["symbol"])

LEMMA CliMakesMarkets ==
  ASSUME NEW c \in CommandLines, c.program = "cli",
         c.name \notin OnChain \cup ConfigCommands \cup {"ledger-info"}
  PROVE  CliMarket(Dispatch(c, SignerKey).actions)
  <1> DEFINE Good(r) == CliMarket(r.actions)
  <1>1. Good(Refused)
    BY DEF Refused, CliMarket
  <1>2. \A kind, args, fixed : kind # "AddMarket" => Good(Does(<<Built(kind, args, fixed)>>))
    BY BuiltKind DEF Does, CliMarket
  <1>3. c.name = "market-admin" => Good(HandleMarketAdmin(c.args))
    <2>1. \A list : Good(Does([i \in DOMAIN list |-> Built("MarketAdmin", c.args, [symbol |-> list[i]])]))
      BY BuiltKind DEF Does, CliMarket
    <2> HIDE DEF Good
    <2> QED
      BY <1>1, <2>1 DEF HandleMarketAdmin
  <1>4. c.name = "add-market" => Good(HandleAddMarket(c.args))
    <2> SUFFICES ASSUME c.name = "add-market" PROVE Good(HandleAddMarket(c.args))
      OBVIOUS
    <2> DEFINE b == Built("AddMarket", c.args, NothingFixed)
               s == <<b, Suspended(c.args.symbol)>>
    <2>1. c.args \in AddMarketArgs
      BY BulkCliAssumption
      DEF Cli, Command, AdminArgs, OrderCommands, AccountCommands, BallotCommands, OnChain,
          ConfigCommands
    <2>2. b.vals["symbol"] = c.args.symbol
      BY <2>1, AddedSymbol DEF AddMarketArgs, Tokens
    <2> HIDE DEF b
    <2>3. DOMAIN s = {1, 2} /\ Len(s) = 2 /\ s[1] = b /\ s[2] = Suspended(c.args.symbol)
      OBVIOUS
    <2> HIDE DEF s
    <2>4. CliMarket(s)
      BY <2>2, <2>3, SuspendedKind DEF CliMarket
    <2> QED
      BY <2>4 DEF HandleAddMarket, Does, s, b
  <1> HIDE DEF Good
  <1>5. \A kind, args, fixed : kind # "AddMarket" => Good(DoesOne(kind, args, fixed))
    BY <1>2 DEF DoesOne
  <1>6. Good(AccountCommand(c, SignerKey))
    BY <1>1, <1>5
    DEF AccountCommand, HandleFaucet, HandleUpdateLeverage, HandleAgentWallet,
        HandleCreateSubaccount, HandleRemoveSubaccount, HandleTransfer
  <1>7. Good(OrderCommand(c))
    BY <1>1, <1>5
    DEF OrderCommand, HandlePlace, HandleModify, HandleCancel, HandleCancelAll, HandleStop,
        HandleTakeProfit, HandleRange, HandleTrailing
  <1>8. Good(HandleMultisigBallot(c.name, c.args)) /\ Good(HandleCreateMultisig(c.args))
        /\ Good(HandleUpdateMultisigPolicy(c.args))
    BY <1>1, <1>5 DEF HandleMultisigBallot, HandleCreateMultisig, HandleUpdateMultisigPolicy
  <1>9. Good(AdminCommand(c))
    <2>1. \A kind : kind # "AddMarket" => Good(Parsed1(kind, c.args))
      BY <1>1, <1>2 DEF Parsed1
    <2>2. /\ Good(HandleUserAdmin(c.args)) /\ Good(HandleConfigFees(c.args))
          /\ Good(HandlePricingAdmin(c.args)) /\ Good(HandleHarvestProviderFees(c.args))
      BY <1>1, <1>5
      DEF HandleUserAdmin, HandleConfigFees, HandlePricingAdmin, HandleHarvestProviderFees
    <2>3. Good(HandleLiquidatorConfig(c.args))
      BY <1>1, <1>2 DEF HandleLiquidatorConfig
    <2>4. /\ Good(HandleRiskConfig(c.args)) /\ Good(HandleFundingConfig(c.args))
          /\ Good(HandleAccountPolicy(c.args)) /\ Good(HandleConfigMaker(c.args))
          /\ Good(HandleCorrs(c.args))
      BY <2>1
      DEF HandleRiskConfig, HandleFundingConfig, HandleAccountPolicy, HandleConfigMaker, HandleCorrs
    <2> QED
      BY <1>3, <1>4, <2>2, <2>3, <2>4 DEF AdminCommand
  <1> QED
    BY <1>6, <1>7, <1>8, <1>9 DEF Dispatch, Good

(* bulk-sdk adds the market of its command only, after all its models.     *)
Readied(s, symbol) ==
  \A p \in DOMAIN s : s[p].kind = "AddMarket" =>
    /\ s[p].vals["symbol"] = symbol
    /\ \A kind \in MarketConfiguration : \E q \in DOMAIN s : q < p /\ s[q].kind = kind

LEMMA ReadiedConcat ==
  ASSUME NEW s, IsList(s), NEW t, IsList(t), NEW symbol, Readied(s, symbol), Readied(t, symbol)
  PROVE  Readied(s \o t, symbol)
  <1>1. DOMAIN s = 1..Len(s) /\ DOMAIN t = 1..Len(t) /\ Len(s) \in Nat /\ Len(t) \in Nat
    BY ListFacts
  <1>2. /\ IsList(s \o t) /\ Len(s) \in Nat /\ Len(t) \in Nat
        /\ Len(s \o t) = Len(s) + Len(t)
        /\ \A i \in 1..Len(s) : (s \o t)[i] = s[i]
        /\ \A i \in 1..Len(t) : (s \o t)[Len(s) + i] = t[i]
    BY ListConcat
  <1>3. DOMAIN (s \o t) = 1..(Len(s) + Len(t))
    BY <1>2, ListFacts
  <1> DEFINE u == s \o t
             n == Len(s)
  <1> HIDE DEF u, n
  <1>4. ASSUME NEW p \in DOMAIN u, u[p].kind = "AddMarket"
        PROVE  /\ u[p].vals["symbol"] = symbol
               /\ \A kind \in MarketConfiguration : \E q \in DOMAIN u : q < p /\ u[q].kind = kind
    <2>1. CASE p \in 1..n
      <3>1. p \in DOMAIN s /\ u[p] = s[p]
        BY <1>1, <1>2, <2>1 DEF u, n
      <3>2. \A q \in DOMAIN s : q \in DOMAIN u /\ u[q] = s[q]
        BY <1>1, <1>2, <1>3 DEF u, n
      <3> QED
        BY <1>4, <3>1, <3>2 DEF Readied
    <2>2. CASE p \notin 1..n
      <3> DEFINE j == p - n
      <3>1. j \in 1..Len(t) /\ n + j = p
        BY <1>1, <1>3, <2>2 DEF u, n
      <3> HIDE DEF j
      <3>2. j \in DOMAIN t /\ u[p] = t[j]
        BY <1>1, <1>2, <3>1 DEF u, n
      <3>3. \A q \in DOMAIN t : n + q \in DOMAIN u /\ u[n + q] = t[q]
        BY <1>1, <1>2, <1>3 DEF u, n
      <3>4. \A q \in DOMAIN t : q < j => n + q < p
        BY <1>1, <3>1 DEF n
      <3> QED
        BY <1>4, <3>2, <3>3, <3>4 DEF Readied
    <2> QED
      BY <2>1, <2>2
  <1> QED
    BY <1>4 DEF Readied, u

LEMMA ReadiedWithout ==
  ASSUME NEW s, NEW symbol, \A p \in DOMAIN s : s[p].kind # "AddMarket"
  PROVE  Readied(s, symbol)
  BY DEF Readied

(* Followed by the suspension of the market, each addition is.             *)
Followed(s) ==
  \A p \in DOMAIN s : s[p].kind = "AddMarket" =>
    /\ \E q \in DOMAIN s : q > p /\ s[q] = Suspended(s[p].vals["symbol"])
    /\ \A kind \in MarketConfiguration : \E q \in DOMAIN s : q < p /\ s[q].kind = kind

LEMMA FollowedBySuspension ==
  ASSUME NEW s, IsList(s), NEW symbol, Readied(s, symbol)
  PROVE  Followed(s \o <<Suspended(symbol)>>)
  <1> DEFINE last == <<Suspended(symbol)>>
             n == Len(s)
             u == s \o last
  <1>1. DOMAIN s = 1..n /\ n \in Nat
    BY ListFacts
  <1>2. last \in Seq({Suspended(symbol)}) /\ Len(last) = 1 /\ last[1] = Suspended(symbol)
    OBVIOUS
  <1> HIDE DEF last
  <1>3. IsList(last) /\ 1 \in 1..Len(last)
    BY <1>2, ListOfSeq
  <1>4. /\ IsList(u) /\ Len(u) = n + 1
        /\ \A i \in 1..n : u[i] = s[i]
        /\ u[n + 1] = Suspended(symbol)
    <2>1. /\ IsList(u) /\ Len(u) = n + Len(last)
          /\ \A i \in 1..n : u[i] = s[i]
          /\ \A i \in 1..Len(last) : u[n + i] = last[i]
      BY <1>3, IsList(s), ListConcat
    <2> QED
      BY <1>2, <1>3, <2>1
  <1>5. DOMAIN u = 1..(n + 1)
    BY <1>4, ListFacts
  <1> HIDE DEF u, n
  <1>6. \A p \in DOMAIN u : u[p].kind = "AddMarket" => p \in DOMAIN s /\ u[p] = s[p] /\ n + 1 > p
    <2> TAKE p \in DOMAIN u
    <2>1. p = n + 1 \/ p \in 1..n
      BY <1>1, <1>5
    <2>2. CASE p = n + 1
      BY <1>4, <2>2, SuspendedKind
    <2>3. CASE p \in 1..n
      BY <1>1, <1>4, <2>3
    <2> QED
      BY <2>1, <2>2, <2>3
  <1>7. n + 1 \in DOMAIN u /\ \A q \in DOMAIN s : q \in DOMAIN u /\ u[q] = s[q]
    BY <1>1, <1>4, <1>5
  <1>8. Followed(u)
    BY <1>4, <1>6, <1>7 DEF Followed, Readied
  <1> QED
    BY <1>8 DEF u, last

LEMMA BuiltMarket ==
  ASSUME NEW plan, IsList(plan), NEW symbol, NEW funding
  PROVE  Readied(BuildMarketActions(plan, symbol, funding), Pair(symbol))
  <1> DEFINE s == [i \in DOMAIN plan |-> Opaque("ConfigSecurity", plan[i].name)]
             b == Built("AddMarket", [symbol |-> Pair(symbol)], NothingFixed)
             t == <<Opaque("ConfigVolatility", symbol), Opaque("ConfigFairPrice", symbol),
                    Opaque("ConfigRegime", symbol), Opaque("ConfigRisk", symbol),
                    FundingAction(Pair(symbol), funding), b>>
  <1>1. IsList(s)
    BY Securities
  <1>2. Readied(s, Pair(symbol))
    <2>1. \A p \in DOMAIN s : s[p].kind # "AddMarket"
      BY BuiltKind DEF Opaque
    <2> HIDE DEF s
    <2> QED
      BY <2>1, ReadiedWithout
  <1>3. /\ t[1].kind = "ConfigVolatility" /\ t[2].kind = "ConfigFairPrice"
        /\ t[3].kind = "ConfigRegime" /\ t[4].kind = "ConfigRisk" /\ t[5].kind = "ConfigFunding"
        /\ t[6].kind = "AddMarket"
    BY BuiltKind DEF Opaque, FundingAction
  <1>4. b.vals["symbol"] = Pair(symbol)
    <2> DEFINE args == [symbol |-> Pair(symbol)]
    <2>1. "symbol" \in DOMAIN args /\ args["symbol"] = Pair(symbol)
      OBVIOUS
    <2> HIDE DEF args
    <2>2. Built("AddMarket", args, NothingFixed).vals["symbol"] = Pair(symbol)
      BY <2>1, AddedSymbol
    <2> QED
      BY <2>2 DEF args
  <1> HIDE DEF b
  <1>5. t = [i \in 1..6 |-> t[i]] /\ DOMAIN t = 1..6 /\ t[6] = b
    OBVIOUS
  <1> HIDE DEF s, t
  <1>6. IsList(t)
    BY <1>5, ListOfFunction
  <1>7. Readied(t, Pair(symbol))
    <2>1. \A p \in DOMAIN t : t[p].kind = "AddMarket" => p = 6
      <3>1. \A i \in 1..6 : i = 1 \/ i = 2 \/ i = 3 \/ i = 4 \/ i = 5 \/ i = 6
        OBVIOUS
      <3> QED
        BY <1>3, <1>5, <3>1
    <2>2. \A kind \in MarketConfiguration : \E q \in DOMAIN t : q < 6 /\ t[q].kind = kind
      BY <1>3, <1>5 DEF MarketConfiguration
    <2> QED
      BY <1>4, <1>5, <2>1, <2>2 DEF Readied
  <1>8. Readied(s \o t, Pair(symbol))
    BY <1>1, <1>2, <1>6, <1>7, ReadiedConcat
  <1> QED
    BY <1>8 DEF BuildMarketActions, s, t, b

LEMMA SdkMakesMarkets ==
  ASSUME NEW c \in CommandLines, c.program = "sdk", SdkDispatch(c).ok
  PROVE  Followed(SdkDispatch(c).actions)
  <1> DEFINE Good(r) == r.ok => Followed(r.actions)
  <1>1. Good(Refused)
    BY DEF Refused
  <1>2. Good(ConfigRiskAction(c.args))
    <2>1. Good(Does(<<Opaque("ConfigRisk", c.args.csv)>>))
      BY BuiltKind DEF Opaque, Does, Followed
    <2> HIDE DEF Good
    <2> QED
      BY <1>1, <2>1 DEF ConfigRiskAction
  <1>3. Good(ConfigSecurityActions(c.args))
    <2>1. \A list : Good(Does([i \in DOMAIN list |-> Opaque("ConfigSecurity", list[i])]))
      BY BuiltKind DEF Opaque, Does, Followed
    <2> HIDE DEF Good
    <2> QED
      BY <1>1, <2>1 DEF ConfigSecurityActions
  <1>4. Good(PrepareMarketActions(c.args.files, c.args))
    <2> DEFINE files == c.args.files
               args == c.args
               symbol == Pair(args.symbol)
               created == CreateMarketActions(files, args)
               policy == MarketLiquidatorAction(files.liquidator, symbol)
    <2>1. created.ok => IsList(created.actions) /\ Readied(created.actions, symbol)
      <3> DEFINE plan == ReadMarketPlan(files, args)
                 funding == FundingConfigFor(files.funding, symbol)
                 s == BuildMarketActions(plan, args.symbol, funding)
      <3>1. IsList(plan)
        BY PlanIsList
      <3> HIDE DEF plan, funding
      <3>2. IsList(s) /\ Readied(s, symbol)
        BY <3>1, MarketActions, BuiltMarket
      <3> HIDE DEF s
      <3>3. created = Does(s) \/ created = Refused
        BY DEF CreateMarketActions, plan, funding, s
      <3> HIDE DEF created
      <3> QED
        BY <3>2, <3>3 DEF Does, Refused
    <2>2. policy.ok => IsList(policy.actions) /\ Readied(policy.actions, symbol)
      <3> DEFINE x(a, f) == <<Built("UpdateLiquidatorConfig", a, f)>>
      <3>1. \A a, f : IsList(x(a, f)) /\ Readied(x(a, f), symbol)
        <4> TAKE a, f
        <4>1. x(a, f) \in Seq({Built("UpdateLiquidatorConfig", a, f)})
          OBVIOUS
        <4>2. \A p \in DOMAIN x(a, f) : x(a, f)[p].kind # "AddMarket"
          BY BuiltKind
        <4> HIDE DEF x
        <4> QED
          BY <4>1, <4>2, ListOfSeq, ReadiedWithout
      <3>2. (\E a, f : policy = Does(x(a, f))) \/ policy = Refused
        BY DEF MarketLiquidatorAction
      <3> HIDE DEF policy, x
      <3> QED
        BY <3>1, <3>2 DEF Does, Refused
    <2> HIDE DEF created, policy
    <2> DEFINE all == created.actions \o policy.actions
    <2>3. created.ok /\ policy.ok => IsList(all) /\ Readied(all, symbol)
      BY <2>1, <2>2, ListConcat, ReadiedConcat
    <2> HIDE DEF all
    <2>4. created.ok /\ policy.ok => Good(Does(all \o <<Suspended(symbol)>>))
      BY <2>3, FollowedBySuspension DEF Does
    <2> HIDE DEF Good
    <2> QED
      BY <1>1, <2>4 DEF PrepareMarketActions, created, policy, all
  <1>5. Good(SdkDispatch(c))
    <2> HIDE DEF Good
    <2> QED
      BY <1>2, <1>3, <1>4 DEF SdkDispatch
  <1> QED
    BY <1>5

-----------------------------------------------------------------------------
(* The addition and the suspension go in one proposal.                     *)
Together(list, actions) ==
  \A p \in DOMAIN actions : actions[p].kind = "AddMarket" =>
    \E q \in DOMAIN actions, k \in DOMAIN list :
      /\ q > p /\ actions[q] = Suspended(actions[p].vals["symbol"])
      /\ {p, q} \subseteq Range(list[k].at)

LEMMA MarketBelongs ==
  ASSUME NEW a, NEW m, BelongsTo(a, m), a.kind \in {"AddMarket", "MarketAdmin"}
  PROVE  m = "ADM1N"
  BY DEF BelongsTo, IsAdmin

(* bulk-cli: neighbours that belong to one multisig share a proposal.      *)
LEMMA CliTogether ==
  ASSUME NEW actions, IsList(actions), CliMarket(actions), NEW M,
         NEW list \in Seq(Proposals(M)), Wraps(list, actions, Len(actions))
  PROVE  Together(list, actions)
  <1> SUFFICES ASSUME NEW p \in DOMAIN actions, actions[p].kind = "AddMarket"
               PROVE  \E q \in DOMAIN actions, k \in DOMAIN list :
                        /\ q > p /\ actions[q] = Suspended(actions[p].vals["symbol"])
                        /\ {p, q} \subseteq Range(list[k].at)
    BY DEF Together
  <1>1. p = 1 /\ Len(actions) = 2 /\ actions[2] = Suspended(actions[1].vals["symbol"])
    BY DEF CliMarket
  <1>2. DOMAIN actions = 1..2
    BY <1>1, ListFacts
  <1>3. actions[1].kind = "AddMarket" /\ actions[2].kind = "MarketAdmin"
    BY <1>1, SuspendedKind
  <1>4. InOrder(list, 2) /\ WellWrappedOf(list, actions)
    BY <1>1 DEF Wraps
  <1>5. /\ DOMAIN list = 1..Len(list) /\ Len(list) \in Nat
        /\ \A k \in 1..Len(list) : list[k] \in Proposals(M)
    OBVIOUS
  <1>6. list # <<>> /\ Len(list) # 0
    BY <1>4 DEF InOrder
  <1> DEFINE first == list[1].at
             n == Len(first)
  <1>7. 1 \in DOMAIN list /\ first \in Seq(Nat) /\ first # <<>> /\ first[1] = 1
    <2>1. 1 \in DOMAIN list
      BY <1>5, <1>6
    <2>2. first \in Seq(Nat)
      BY <1>5, <2>1 DEF Proposals
    <2>3. first # <<>> /\ first[1] = 1
      BY <1>4, <1>6, <2>1 DEF InOrder
    <2> QED
      BY <2>1, <2>2, <2>3
  <1>8. n \in Nat /\ n # 0 /\ DOMAIN first = 1..n
    BY <1>7
  <1>9. \A j \in 1..(n - 1) : first[j + 1] = first[j] + 1
    BY <1>4, <1>7 DEF InOrder
  <1>10. list[1].multisig = "ADM1N"
    BY <1>3, <1>4, <1>7, <1>8, MarketBelongs DEF WellWrappedOf
  <1> HIDE DEF first, n
  <1>11. n # 1
    <2> SUFFICES ASSUME n = 1 PROVE FALSE
      OBVIOUS
    <2>1. Last(first) = 1
      BY <1>7 DEF Last, n
    <2>2. Len(list) # 1
      <3> SUFFICES ASSUME Len(list) = 1 PROVE FALSE
        OBVIOUS
      <3>1. Last(list) = list[1]
        BY DEF Last
      <3> QED
        BY <1>4, <1>6, <2>1, <3>1 DEF InOrder, first
    <2>3. 1 \in 1..(Len(list) - 1) /\ 2 \in DOMAIN list
      BY <1>5, <1>6, <2>2
    <2>4. list[1 + 1].at[1] = Last(list[1].at) + 1 /\ list[1 + 1].multisig # "ADM1N"
      BY <1>4, <1>10, <2>3 DEF InOrder, WellWrappedOf
    <2>5. list[2].at[1] = 2 /\ list[2].multisig # "ADM1N"
      BY <2>1, <2>4 DEF first
    <2>6. list[2].at \in Seq(Nat) /\ list[2].at # <<>>
      BY <1>4, <1>5, <2>3 DEF InOrder, Proposals
    <2>7. 1 \in DOMAIN list[2].at
      BY <2>6
    <2>8. BelongsTo(actions[2], list[2].multisig)
      BY <1>4, <2>3, <2>5, <2>7 DEF WellWrappedOf
    <2> QED
      BY <1>3, <2>5, <2>8, MarketBelongs
  <1>12. 1 \in 1..(n - 1) /\ 1 \in DOMAIN first /\ 2 \in DOMAIN first
    BY <1>8, <1>11
  <1>13. first[1] = 1 /\ first[2] = 2
    BY <1>7, <1>9, <1>12
  <1>14. {1, 2} \subseteq Range(first)
    BY <1>12, <1>13 DEF Range
  <1> QED
    BY <1>1, <1>2, <1>7, <1>14 DEF first

(* bulk-sdk: all is one proposal.                                          *)
LEMMA SdkTogether ==
  ASSUME NEW actions, Followed(actions)
  PROVE  Together(<<[multisig |-> "ADM1N", at |-> [i \in DOMAIN actions |-> i]]>>, actions)
  <1> DEFINE all == [i \in DOMAIN actions |-> i]
             list == <<[multisig |-> "ADM1N", at |-> all]>>
  <1>1. 1 \in DOMAIN list /\ list[1].at = all
    OBVIOUS
  <1>2. Range(all) = DOMAIN actions
    BY DEF Range
  <1> HIDE DEF all, list
  <1>3. Together(list, actions)
    BY <1>1, <1>2 DEF Together, Followed
  <1> QED
    BY <1>3 DEF list, all

(* The configuration that precedes it, for bulk-sdk.                       *)
Modelled ==
  \A p \in DOMAIN asked : asked[p].kind = "AddMarket" =>
    \A kind \in MarketConfiguration : \E q \in DOMAIN asked : q < p /\ asked[q].kind = kind

Suspends == Together(wrapped, asked) /\ (Cmd.program = "sdk" => Modelled)

(* What is being wrapped is of bulk-cli, what is proposed of bulk-sdk.     *)
MarketInv ==
  /\ stage = "wrap" => Cmd.program = "cli" /\ CliMarket(asked)
  /\ stage = "propose" => Followed(asked)
  /\ stage \in {"submit", "post"} => Suspends
  /\ stage = "prompt" => Cmd.name \in OnChain \/ Suspends

LEMMA MarketIdle ==
  ASSUME stage' \in {"idle", "saving", "chain", "wait"} PROVE MarketInv'
  BY DEF MarketInv

LEMMA MarketFrame ==
  ASSUME MarketInv, UNCHANGED cmdVars PROVE MarketInv'
  BY DEF MarketInv, cmdVars, CliMarket, Followed, Suspends, Together, Modelled, Cmd, Current

(* The command stays while its record is changed.                          *)
LEMMA CmdKept ==
  ASSUME IsList(runs), NEW r,
         runs' = [i \in DOMAIN runs |-> IF i = Len(runs) THEN r ELSE runs[i]],
         Len(runs) # 0, r.cmd = Cmd
  PROVE  Cmd' = Cmd
  <1>1. Len(runs) \in DOMAIN runs
    BY ListFacts, UpTo
  <1>2. Len(runs') = Len(runs)
    BY RunsKept
  <1> QED
    BY <1>1, <1>2 DEF Cmd, Current

LEMMA SuspendsKept ==
  ASSUME UNCHANGED <<asked, wrapped>>, Cmd'.program = Cmd.program, Suspends
  PROVE  Suspends'
  BY DEF Suspends, Together, Modelled

LEMMA InvokeMarket ==
  ASSUME WrapInv, NEW c \in CommandLines, Invoke(c)
  PROVE  MarketInv'
  <1>1. IsList(runs)
    BY DEF WrapInv
  <1>2. ASSUME NEW o, MayRun(c), AtOnce(c, o)
        PROVE  MarketInv'
    BY <1>2, MarketIdle DEF MayRun, AtOnce, Idle
  <1>3. ASSUME NEW next, Begins(c, next)
        PROVE  stage' = next /\ Cmd' = c
    <2>1. runs'[Len(runs')] = NewRun(c, "running")
      BY <1>1, <1>3, ListAppend DEF Begins
    <2> QED
      BY <1>3, <2>1 DEF Begins, Cmd, Current, NewRun
  <1>4. CASE LoadFails(c) \/ HandleLedgerInfo(c)
    BY <1>2, <1>4 DEF LoadFails, HandleLedgerInfo, Loads
  <1>5. CASE HandleConfig(c)
    BY <1>2, <1>3, <1>5, MarketIdle DEF HandleConfig, Loads
  <1>6. CASE HandleOnChain(c)
    <2>1. CASE \E o \in {"refused", "dry run"} : AtOnce(c, o)
      BY <1>2, <1>6, <2>1 DEF HandleOnChain, Loads
    <2>2. CASE Begins(c, "chain")
      BY <1>3, <2>2, MarketIdle
    <2>3. CASE Begins(c, "prompt")
      <3>1. stage' = "prompt" /\ Cmd'.name \in OnChain
        BY <1>3, <1>6, <2>3 DEF HandleOnChain
      <3> QED
        BY <3>1 DEF MarketInv
    <2> QED
      BY <1>6, <2>1, <2>2, <2>3 DEF HandleOnChain
  <1>7. CASE HandleSigned(c)
    <2> DEFINE made == Dispatch(c, SignerKey)
    <2>1. CASE AtOnce(c, "refused")
      BY <1>2, <1>7, <2>1 DEF HandleSigned, Loads
    <2>2. CASE StartWrapping(c, made.actions)
      <3>1. c.program = "cli" /\ CliMarket(made.actions)
        BY <1>7, CliMakesMarkets DEF HandleSigned, Loads
      <3> HIDE DEF made
      <3>2. stage' = "wrap" /\ Cmd' = c /\ asked' = made.actions
        BY <1>3, <2>2 DEF StartWrapping
      <3> QED
        BY <3>1, <3>2 DEF MarketInv, CliMarket
    <2> QED
      BY <1>7, <2>1, <2>2 DEF HandleSigned
  <1>8. CASE HandleSdk(c)
    <2> DEFINE made == SdkDispatch(c)
    <2>1. CASE \E o \in {"refused", "dry run"} : AtOnce(c, o)
      BY <1>2, <1>8, <2>1 DEF HandleSdk
    <2>2. CASE made.ok /\ Begins(c, "propose") /\ asked' = made.actions
      <3>1. Followed(made.actions)
        BY <1>8, <2>2, SdkMakesMarkets DEF HandleSdk
      <3> HIDE DEF made
      <3>2. stage' = "propose" /\ asked' = made.actions
        BY <1>3, <2>2
      <3> QED
        BY <3>1, <3>2 DEF MarketInv, Followed
    <2> QED
      BY <1>8, <2>1, <2>2 DEF HandleSdk
  <1>9. CASE HandleLibrary(c)
    BY <1>2, <1>3, <1>9, MarketIdle DEF HandleLibrary
  <1> QED
    BY <1>4, <1>5, <1>6, <1>7, <1>8, <1>9 DEF Invoke

(* The preview and the question change neither the list nor the command.   *)
LEMMA PreviewsMarket ==
  ASSUME SubmitInv, WrapInv, stage # "idle", NEW list, Previews(list)
  PROVE  Cmd' = Cmd /\ stage' \in {"prompt", "post"}
  <1>1. IsList(runs) /\ Len(runs) # 0
    BY DEF SubmitInv, WrapInv, Progress
  <1>2. CASE ~Cmd.preview
    BY <1>2 DEF Previews, Cmd, Current
  <1>3. CASE Cmd.preview
    <2> DEFINE r == [runs[Len(runs)] EXCEPT
                       !.shown = [run |-> Current, account |-> SignerKey, nonce |-> MakeNonce,
                                  actions |-> TxActions(list)]]
    <2>1. runs' = [i \in DOMAIN runs |-> IF i = Len(runs) THEN r ELSE runs[i]]
      BY <1>3 DEF Previews, Current
    <2>2. r.cmd = Cmd
      <3>1. Len(runs) \in 1..Len(runs)
        BY <1>1, ListFacts, UpTo
      <3>2. Recorded(runs[Len(runs)])
        BY <3>1 DEF SubmitInv, Histories
      <3> QED
        BY <3>2 DEF Recorded, Cmd, Current
    <2> HIDE DEF r
    <2> QED
      BY <1>1, <2>1, <2>2, CmdKept DEF Previews
  <1> QED
    BY <1>2, <1>3 DEF Previews

LEMMA MarketStep == MarketInv /\ SubmitInv /\ WrapInv /\ [Next]_vars => MarketInv'
  <1> SUFFICES ASSUME MarketInv, SubmitInv, WrapInv, [Next]_vars PROVE MarketInv'
    OBVIOUS
  <1>1. IsList(runs) /\ IsList(asked)
    BY DEF WrapInv
  <1>2. CASE \E c \in CommandLines : Invoke(c)
    BY <1>2, InvokeMarket
  <1>3. CASE Save
    BY <1>3, MarketIdle DEF Save
  <1>4. CASE WrapNext
    BY <1>4 DEF WrapNext, MarketInv, CliMarket, Cmd, Current
  <1>5. CASE WrapEnd
    <2>1. /\ wrapped' = Flushed /\ asked' = asked /\ stage' = "submit"
          /\ Cmd' = Cmd /\ Cmd.program = "cli" /\ CliMarket(asked)
      BY <1>5 DEF WrapEnd, MarketInv, Cmd, Current
    <2>2. Wraps(wrapped', asked, Len(asked))
      BY <1>5, <2>1, WrapEndStep
    <2>3. wrapped' \in Seq(Proposals(Multisigs))
      <3>1. /\ wrapped \in Seq(Proposals(Multisigs)) /\ pending \in Proposals(Multisigs)
        BY <1>5 DEF WrapEnd, WrapInv, Wrapping
      <3> HIDE DEF Multisigs
      <3> QED
        BY <2>1, <3>1, AppendFacts DEF Flushed
    <2>4. Together(wrapped', asked)
      BY <1>1, <2>1, <2>2, <2>3, CliTogether
    <2> QED
      BY <2>1, <2>4 DEF MarketInv, Suspends, Together
  <1>6. CASE Submit
    <2>1. Suspends /\ asked' = asked /\ wrapped' = wrapped /\ Cmd' = Cmd /\ stage' \in {"prompt", "post"}
      BY <1>6, PreviewsMarket DEF Submit, MarketInv, wrapVars
    <2> QED
      BY <2>1, SuspendsKept DEF MarketInv
  <1>7. CASE SubmitAction
    <2>1. /\ Followed(asked) /\ asked' = asked /\ Cmd' = Cmd /\ stage' \in {"prompt", "post"}
          /\ wrapped' = <<[multisig |-> "ADM1N", at |-> [i \in DOMAIN asked |-> i]]>>
      BY <1>7, PreviewsMarket DEF SubmitAction, MarketInv
    <2>2. Together(wrapped', asked)
      BY <2>1, SdkTogether
    <2>3. Suspends'
      <3>1. Together(wrapped, asked)'
        BY <2>1, <2>2 DEF Together
      <3>2. Modelled'
        BY <2>1 DEF Followed, Modelled
      <3> QED
        BY <3>1, <3>2 DEF Suspends
    <2> QED
      BY <2>1, <2>3 DEF MarketInv
  <1>8. CASE Post \/ Report \/ PrintSignature
    BY <1>8, MarketIdle DEF Post, Report, PrintSignature
  <1>9. CASE StartTransfer \/ Transfer
    BY <1>9, CmdVars, MarketFrame DEF StartTransfer, Transfer
  <1>10. CASE Answer
    <2>1. CASE stage' \in {"idle", "chain"}
      BY <2>1, MarketIdle
    <2>2. CASE stage' = "post" /\ Cmd.name \notin OnChain
      <3>1. Suspends /\ UNCHANGED <<asked, wrapped>>
        BY <1>10, <2>2 DEF Answer, MarketInv, wrapVars
      <3> DEFINE r == [runs[Len(runs)] EXCEPT !.said = "yes"]
      <3>2. runs' = [i \in DOMAIN runs |-> IF i = Len(runs) THEN r ELSE runs[i]]
        BY <1>10, <2>2 DEF Answer, Current
      <3>3. Len(runs) # 0 /\ r.cmd = Cmd
        <4>1. Len(runs) # 0
          BY <1>10 DEF Answer, SubmitInv, Progress
        <4>2. Len(runs) \in 1..Len(runs)
          BY <1>1, <4>1, ListFacts, UpTo
        <4>3. Recorded(runs[Len(runs)])
          BY <4>2 DEF SubmitInv, Histories
        <4> QED
          BY <4>1, <4>3 DEF Recorded, Cmd, Current
      <3> HIDE DEF r
      <3>4. Cmd' = Cmd
        BY <1>1, <3>2, <3>3, CmdKept
      <3> QED
        BY <2>2, <3>1, <3>4, SuspendsKept DEF MarketInv
    <2> QED
      BY <1>10, <2>1, <2>2 DEF Answer
  <1>11. CASE ~(\E c \in CommandLines : Invoke(c)) /\ ~Program /\ ~Answer
    BY <1>11, Outside, CmdVars, MarketFrame
  <1> QED
    BY <1>2, <1>3, <1>4, <1>5, <1>6, <1>7, <1>8, <1>9, <1>10, <1>11 DEF Program

(* Whatever adds a market is proposed together with its suspension, and,   *)
(* by bulk-sdk, after all its models.                                      *)
THEOREM MarketSuspended == Spec => []MarketComesUpSuspended
  <1>1. MarketInv => MarketComesUpSuspended
    BY DEF MarketInv, MarketComesUpSuspended, Suspends, Together, Modelled
  <1>2. Init => MarketInv
    BY DEF Init, MarketInv
  <1> QED
    BY <1>1, <1>2, WrapInit, WrapStep, SubmitInit, SubmitStep, MarketStep, PTL DEF Spec

-----------------------------------------------------------------------------
(* What is read of the body of an error is what was sent of it, in order.  *)
PageInv ==
  /\ page = [f \in {"at", "method", "sent", "chunks", "kept", "size", "body", "out"} |-> page[f]]
  /\ page.chunks \in Seq(Nat) /\ page.kept \in Seq(Nat)
  /\ page.at \in {"off", "asked"} => page.kept = <<>> /\ page.size = 0 /\ page.out = "none"
  /\ page.at = "body" =>
       page.kept \o page.chunks = page.sent /\ page.size <= MaxErrorBody /\ page.out = "none"
  /\ HistoryErrorIsTheServers

(* The head of a sequence moves to the end of the one before it.           *)
LEMMA HeadMoves ==
  ASSUME NEW S, NEW k \in Seq(S), NEW t \in Seq(S), t # <<>>
  PROVE  /\ Append(k, Head(t)) \in Seq(S) /\ Tail(t) \in Seq(S)
         /\ Append(k, Head(t)) \o Tail(t) = k \o t
  <1> DEFINE a == Append(k, Head(t))
             b == Tail(t)
             x == a \o b
             y == k \o t
  <1>1. /\ Head(t) \in S /\ b \in Seq(S) /\ Len(b) = Len(t) - 1
        /\ \A i \in 1..Len(b) : b[i] = t[i + 1]
    BY HeadTailProperties
  <1>2. Head(t) = t[1] /\ Len(t) \in Nat \ {0} /\ Len(k) \in Nat
    BY EmptySeq, LenProperties
  <1>3. /\ a \in Seq(S) /\ Len(a) = Len(k) + 1 /\ a[Len(k) + 1] = t[1]
        /\ \A i \in 1..Len(k) : a[i] = k[i]
    BY <1>1, <1>2
  <1> HIDE DEF a, b
  <1>4. /\ x \in Seq(S) /\ Len(x) = Len(a) + Len(b)
        /\ \A i \in 1..(Len(a) + Len(b)) : x[i] = IF i <= Len(a) THEN a[i] ELSE b[i - Len(a)]
    BY <1>1, <1>3, ConcatProperties
  <1>5. /\ y \in Seq(S) /\ Len(y) = Len(k) + Len(t)
        /\ \A i \in 1..(Len(k) + Len(t)) : y[i] = IF i <= Len(k) THEN k[i] ELSE t[i - Len(k)]
    BY ConcatProperties
  <1> HIDE DEF x, y
  <1>6. \A i \in 1..Len(x) : x[i] = y[i]
    <2> TAKE i \in 1..Len(x)
    <2>1. CASE i <= Len(k)
      <3>1. /\ i \in 1..Len(k) /\ i <= Len(a)
            /\ i \in 1..(Len(a) + Len(b)) /\ i \in 1..(Len(k) + Len(t))
        BY <1>1, <1>2, <1>3, <1>4, <2>1
      <3> QED
        BY <1>3, <1>4, <1>5, <2>1, <3>1
    <2>2. CASE i = Len(k) + 1
      BY <1>1, <1>2, <1>3, <1>4, <1>5, <2>2
    <2>3. CASE i > Len(k) + 1
      <3> DEFINE j == i - Len(a)
      <3>1. j \in 1..Len(b) /\ i - Len(k) = j + 1 /\ x[i] = b[j] /\ y[i] = t[i - Len(k)]
        BY <1>1, <1>2, <1>3, <1>4, <1>5, <2>3
      <3> QED
        BY <1>1, <3>1
    <2> QED
      BY <1>2, <1>3, <1>4, <2>1, <2>2, <2>3
  <1>7. x = y
    <2>1. Len(x) = Len(y)
      BY <1>1, <1>2, <1>3, <1>4, <1>5
    <2> QED
      BY <1>4, <1>5, <1>6, <2>1, SeqEqual
  <1> QED
    BY <1>1, <1>3, <1>7 DEF a, b, x, y

LEMMA PageInit == Init => PageInv
  <1> SUFFICES ASSUME Init PROVE PageInv
    OBVIOUS
  <1>1. \/ page = NoPage
        \/ \E m \in ReadMethods : page = [NoPage EXCEPT !.at = "asked", !.method = m]
    BY DEF Init
  <1>2. \E p, m :
          page = [at |-> p, method |-> m, sent |-> <<>>, chunks |-> <<>>, kept |-> <<>>,
                  size |-> 0, body |-> "none", out |-> "none"] /\ p \in {"off", "asked"}
    BY <1>1 DEF NoPage
  <1>3. <<>> \in Seq(Nat)
    BY EmptySeq
  <1> QED
    BY <1>2, <1>3 DEF PageInv, HistoryErrorIsTheServers

(* A request that ends otherwise than with the server's own error.         *)
LEMMA PageDone ==
  ASSUME PageInv, NEW out, out # "the server's", page.at \in {"asked", "body"},
         page' = [[page EXCEPT !.at = "done"] EXCEPT !.out = out]
  PROVE  PageInv'
  BY DEF PageInv, HistoryErrorIsTheServers

LEMMA PageAnswer ==
  ASSUME PageInv, NEW a \in Pages, page.at = "asked", HistoryAnswer(a)
  PROVE  PageInv'
  <1>1. CASE a.status = 200
    <2>1. \E out \in {"page", "transport error"} :
            page' = [[page EXCEPT !.at = "done"] EXCEPT !.out = out]
      BY <1>1 DEF HistoryAnswer
    <2> QED
      BY <2>1, PageDone
  <1>2. CASE a.status # 200
    <2>1. a.chunks \in Seq(Nat) /\ MaxErrorBody \in Nat
      BY HttpAssumption
    <2>2. page' = [page EXCEPT !.at = "body", !.sent = a.chunks, !.chunks = a.chunks, !.body = a.body]
      BY <1>2 DEF HistoryAnswer
    <2>3. /\ page' = [f \in {"at", "method", "sent", "chunks", "kept", "size", "body", "out"} |-> page'[f]]
          /\ page'.at = "body" /\ page'.sent = a.chunks /\ page'.chunks = a.chunks
          /\ page'.kept = <<>> /\ page'.size = 0 /\ page'.out = "none"
      BY <2>2 DEF PageInv
    <2>4. <<>> \o a.chunks = a.chunks /\ <<>> \in Seq(Nat) /\ 0 <= MaxErrorBody
      BY <2>1, EmptySeq
    <2> QED
      BY <2>1, <2>3, <2>4 DEF PageInv, HistoryErrorIsTheServers
  <1> QED
    BY <1>1, <1>2

LEMMA PageReads ==
  ASSUME PageInv, ReadErrorBody PROVE PageInv'
  <1>1. page.at = "body" /\ page.chunks # <<>>
    BY DEF ReadErrorBody
  <1>2. CASE Fallback
    BY <1>1, <1>2, PageDone DEF Fallback, Done
  <1>3. CASE Fits /\ Keeps
    <2> DEFINE c == Head(page.chunks)
    <2>1. /\ page' = [f \in {"at", "method", "sent", "chunks", "kept", "size", "body", "out"} |-> page'[f]]
          /\ page'.at = "body" /\ page'.sent = page.sent /\ page'.chunks = Tail(page.chunks)
          /\ page'.kept = Append(page.kept, c) /\ page'.size = page.size + c /\ page'.out = page.out
      BY <1>1, <1>3 DEF PageInv, Keeps
    <2>2. /\ page.chunks \in Seq(Nat) /\ page.kept \in Seq(Nat) /\ page.out = "none"
          /\ page.kept \o page.chunks = page.sent
      BY <1>1 DEF PageInv
    <2>3. page.size + c <= MaxErrorBody
      BY <1>3 DEF Fits
    <2>4. /\ Append(page.kept, c) \in Seq(Nat) /\ Tail(page.chunks) \in Seq(Nat)
          /\ Append(page.kept, c) \o Tail(page.chunks) = page.kept \o page.chunks
      <3> DEFINE k == page.kept
                 t == page.chunks
      <3>1. k \in Seq(Nat) /\ t \in Seq(Nat) /\ t # <<>>
        BY <1>1, <2>2
      <3> HIDE DEF k, t
      <3>2. /\ Append(k, Head(t)) \in Seq(Nat) /\ Tail(t) \in Seq(Nat)
            /\ Append(k, Head(t)) \o Tail(t) = k \o t
        BY <3>1, HeadMoves
      <3> QED
        BY <3>2 DEF k, t
    <2> HIDE DEF c
    <2> QED
      BY <2>1, <2>2, <2>3, <2>4 DEF PageInv, HistoryErrorIsTheServers
  <1> QED
    BY <1>2, <1>3 DEF ReadErrorBody

LEMMA PageDecodes ==
  ASSUME PageInv, DecodeErrorBody PROVE PageInv'
  <1>1. page.at = "body" /\ page.chunks = <<>>
    BY DEF DecodeErrorBody
  <1>2. CASE Fallback
    BY <1>1, <1>2, PageDone DEF Fallback, Done
  <1>3. CASE Done("the server's")
    <2>1. page.kept \in Seq(Nat) /\ page.kept \o <<>> = page.sent /\ page.size <= MaxErrorBody
      BY <1>1 DEF PageInv
    <2>2. page.kept = page.sent
      BY <2>1
    <2>3. /\ page' = [f \in {"at", "method", "sent", "chunks", "kept", "size", "body", "out"} |-> page'[f]]
          /\ page'.at = "done" /\ page'.sent = page.sent /\ page'.chunks = page.chunks
          /\ page'.kept = page.kept /\ page'.size = page.size /\ page'.out = "the server's"
      BY <1>3 DEF PageInv, Done
    <2> QED
      BY <2>1, <2>2, <2>3 DEF PageInv, HistoryErrorIsTheServers
  <1> QED
    BY <1>2, <1>3 DEF DecodeErrorBody

LEMMA PageStep == PageInv /\ [Next]_vars => PageInv'
  <1> SUFFICES ASSUME PageInv, [Next]_vars PROVE PageInv'
    OBVIOUS
  <1>1. ASSUME page' = page PROVE PageInv'
    BY <1>1 DEF PageInv, HistoryErrorIsTheServers
  <1>2. CASE Read
    <2>1. CASE GetMarketData \/ GetOpenOrders
      BY <2>1, PageDone DEF GetMarketData, GetOpenOrders, Done
    <2>2. CASE GetAccount
      <3>1. \A list \in {<<>>, <<"first">>, <<"first", "second">>} :
              list # <<>> => Head(list) = "first"
        OBVIOUS
      <3>2. page.at = "asked" /\ \E out \in {"first", "empty fullAccount response", "transport error"} : Done(out)
        BY <2>2, <3>1 DEF GetAccount
      <3> QED
        BY <3>2, PageDone DEF Done
    <2>3. CASE GetHistoryPage
      <3>1. CASE Done("transport error")
        BY <2>3, <3>1, PageDone DEF GetHistoryPage, Done
      <3>2. CASE \E a \in Pages : HistoryAnswer(a)
        BY <2>3, <3>2, PageAnswer DEF GetHistoryPage
      <3> QED
        BY <2>3, <3>1, <3>2 DEF GetHistoryPage
    <2> QED
      BY <1>2, <2>1, <2>2, <2>3, PageReads, PageDecodes DEF Read
  <1>3. CASE \E c \in CommandLines : Invoke(c)
    <2>1. page' = page
      BY <1>3
      DEF Invoke, LoadFails, HandleLedgerInfo, HandleConfig, HandleOnChain, HandleSigned, HandleSdk,
          HandleLibrary, AtOnce, StartWrapping, NoSigner, PlaceTx, httpVars
    <2> QED
      BY <1>1, <2>1
  <1>4. CASE Program
    <2>1. page' = page
      BY <1>4
      DEF Program, Save, WrapNext, WrapEnd, Submit, SubmitAction, Post, PlaceTx, Report, Finish,
          StartTransfer, Transfer, PrintSignature, httpVars
    <2> QED
      BY <1>1, <2>1
  <1>5. CASE Network \/ Answer
    <2>1. page' = page
      BY <1>5 DEF Network, Execute, Lose, Receive, Timeout, Answer, httpVars
    <2> QED
      BY <1>1, <2>1
  <1>6. CASE TimePasses \/ UNCHANGED httpVars
    <2>1. page' = page
      BY <1>6 DEF TimePasses, ClockMoves, httpVars
    <2> QED
      BY <1>1, <2>1
  <1> QED
    BY <1>2, <1>3, <1>4, <1>5, <1>6 DEF Next, vars

(* history_api_error gives the server's own error only of a body that was  *)
(* read as it was sent, whole and within the limit.                        *)
THEOREM ServersOwnError == Spec => []HistoryErrorIsTheServers
  <1>1. PageInv => HistoryErrorIsTheServers
    BY DEF PageInv
  <1> QED
    BY <1>1, PageInit, PageStep, PTL DEF Spec

-----------------------------------------------------------------------------
(* What is reported.                                                       *)

LEMMA Least ==
  ASSUME NEW T \in SUBSET Nat, T # {}
  PROVE  \E m \in T : \A k \in T : m <= k
  <1> DEFINE R == OpToRel(<, Nat)
  <1>1. IsWellFoundedOn(R, Nat)
    BY NatLessThanWellFounded
  <1>2. \A x, y \in Nat : x < y => <<x, y>> \in R
    BY DEF OpToRel
  <1> HIDE DEF R
  <1>3. PICK m \in T : \A y \in T : ~(<<y, m>> \in R)
    BY <1>1, WFMin
  <1>4. ASSUME NEW k \in T PROVE m <= k
    <2>1. ~(k < m)
      BY <1>2, <1>3
    <2> QED
      BY <2>1
  <1> QED
    BY <1>4

(* The last of some positions is one of them, and none comes after it.     *)
LEMMA LastPosition ==
  ASSUME NEW n \in Nat, NEW S \in SUBSET (1..n), S # {}
  PROVE  Max(S) \in S /\ \A i \in S : i <= Max(S)
  <1> DEFINE T == {n - i : i \in S}
  <1>1. T \in SUBSET Nat /\ T # {}
    <2>1. \A i \in S : n - i \in Nat
      OBVIOUS
    <2> QED
      BY <2>1
  <1>2. PICK m \in T : \A k \in T : m <= k
    BY <1>1, Least
  <1>3. PICK j \in S : m = n - j
    BY <1>2
  <1>4. \A i \in S : j >= i
    BY <1>2, <1>3
  <1>5. \E x \in S : \A y \in S : x >= y
    BY <1>4
  <1>6. Max(S) \in S /\ \A y \in S : Max(S) >= y
    BY <1>5 DEF Max
  <1> QED
    BY <1>6

(* An outcome that is told and not printed is followed by one that is.     *)
LastTold(told, report) ==
  Outcomes \cap Range(report) # {} =>
    \A i \in DOMAIN told :
      told[i] \in Outcomes \ Range(report) =>
        \E j \in DOMAIN told : j > i /\ told[j] \in Range(report)

LEMMA LastOutcome ==
  ASSUME NEW results, IsList(results), Among(results, Outcomes) # {}
  PROVE  \E m \in DOMAIN results :
           /\ LastOf(results, Outcomes) = <<results[m]>>
           /\ \A i \in DOMAIN results : results[i] \in Outcomes => i <= m
  <1> DEFINE S == Among(results, Outcomes)
  <1>1. DOMAIN results = 1..Len(results) /\ Len(results) \in Nat
    BY ListFacts
  <1>2. S \in SUBSET (1..Len(results)) /\ S # {}
    BY <1>1 DEF Among
  <1>3. \A i \in DOMAIN results : results[i] \in Outcomes => i \in S
    BY DEF Among
  <1>4. LastOf(results, Outcomes) = <<results[Max(S)]>>
    BY <1>2 DEF LastOf
  <1> HIDE DEF S
  <1>5. Max(S) \in S /\ \A i \in S : i <= Max(S)
    BY <1>1, <1>2, LastPosition
  <1> QED
    BY <1>1, <1>2, <1>3, <1>4, <1>5

LEMMA FirstApproval ==
  ASSUME NEW results, IsList(results)
  PROVE  FirstOf(results, {"proposalApproved"}) \in {<<>>, <<"proposalApproved">>}
  <1> DEFINE S == Among(results, {"proposalApproved"})
  <1>1. DOMAIN results = 1..Len(results) /\ Len(results) \in Nat
    BY ListFacts
  <1>2. S \in SUBSET Nat /\ \A i \in S : results[i] = "proposalApproved"
    BY <1>1 DEF Among
  <1>3. FirstOf(results, {"proposalApproved"}) = IF S = {} THEN <<>> ELSE <<results[Min(S)]>>
    BY DEF FirstOf
  <1> HIDE DEF S
  <1>4. S # {} => results[Min(S)] = "proposalApproved"
    <2> SUFFICES ASSUME S # {} PROVE results[Min(S)] = "proposalApproved"
      OBVIOUS
    <2>1. \E x \in S : \A y \in S : x <= y
      BY <1>2, Least
    <2>2. Min(S) \in S
      BY <2>1 DEF Min
    <2> QED
      BY <1>2, <2>2
  <1> QED
    BY <1>3, <1>4

LEMMA ApprovalTells ==
  ASSUME NEW results, IsList(results)
  PROVE  LastTold(results, FormatApproval(results))
  <1> DEFINE a == FirstOf(results, {"proposalApproved"})
             b == LastOf(results, Outcomes)
             report == a \o b
  <1>1. a = <<>> \/ a = <<"proposalApproved">>
    BY FirstApproval
  <1>2. "proposalApproved" \notin Outcomes
    BY DEF Outcomes
  <1>3. CASE Among(results, Outcomes) = {}
    <2>1. b = <<>>
      BY <1>3 DEF LastOf
    <2> HIDE DEF a, b
    <2>2. report = <<>> \/ report = <<"proposalApproved">>
      BY <1>1, <2>1
    <2> HIDE DEF report
    <2>3. \A x \in Range(report) : x = "proposalApproved"
      BY <2>2 DEF Range
    <2>4. LastTold(results, report)
      BY <1>2, <2>3 DEF LastTold
    <2> QED
      BY <2>4 DEF FormatApproval, report, a, b
  <1>4. CASE Among(results, Outcomes) # {}
    <2>1. PICK m \in DOMAIN results :
            b = <<results[m]>> /\ \A i \in DOMAIN results : results[i] \in Outcomes => i <= m
      BY <1>4, LastOutcome
    <2> DEFINE o == results[m]
    <2>6. b = <<o>>
      BY <2>1
    <2> HIDE DEF a, b, o
    <2>7. report = <<o>> \/ report = <<"proposalApproved", o>>
      <3>1. CASE a = <<>>
        <4>1. <<>> \o <<o>> = <<o>>
          <5>1. <<o>> \in Seq({o})
            OBVIOUS
          <5> QED
            BY <5>1, ConcatEmptySeq
        <4> QED
          BY <2>6, <3>1, <4>1
      <3>2. CASE a = <<"proposalApproved">>
        <4>1. <<"proposalApproved">> \o <<o>> = <<"proposalApproved", o>>
          <5> DEFINE x == <<"proposalApproved">> \o <<o>>
                     y == <<"proposalApproved", o>>
                     S == {"proposalApproved", o}
          <5>1. <<"proposalApproved">> \in Seq(S) /\ <<o>> \in Seq(S) /\ y \in Seq(S)
            OBVIOUS
          <5>2. x \in Seq(S) /\ Len(x) = 2 /\ x[1] = "proposalApproved" /\ x[2] = o
            BY <5>1, ConcatProperties
          <5>3. Len(y) = 2 /\ y[1] = "proposalApproved" /\ y[2] = o
            OBVIOUS
          <5> HIDE DEF x, y, S
          <5>4. \A i \in 1..Len(x) : x[i] = y[i]
            BY <5>2, <5>3
          <5>5. x = y
            BY <5>1, <5>2, <5>3, <5>4, SeqEqual
          <5> QED
            BY <5>5 DEF x, y
        <4> QED
          BY <2>6, <3>2, <4>1
      <3> QED
        BY <1>1, <3>1, <3>2
    <2>2. report = <<results[m]>> \/ report = <<"proposalApproved", results[m]>>
      BY <2>7 DEF o
    <2> HIDE DEF report
    <2>3. results[m] \in Range(report)
      BY <2>2 DEF Range
    <2>4. m \in Nat /\ DOMAIN results \subseteq Nat
      BY ListFacts
    <2>5. LastTold(results, report)
      <3> SUFFICES ASSUME NEW i \in DOMAIN results, results[i] \in Outcomes \ Range(report)
                   PROVE  \E j \in DOMAIN results : j > i /\ results[j] \in Range(report)
        BY DEF LastTold
      <3>1. i <= m /\ i # m
        BY <2>1, <2>3
      <3> QED
        BY <2>3, <2>4, <3>1
    <2> QED
      BY <2>5 DEF FormatApproval, report, a, b
  <1> QED
    BY <1>3, <1>4

LEMMA FormattedTells ==
  ASSUME NEW results, IsList(results)
  PROVE  LastTold(results, results) /\ LastTold(results, FormatResults(results))
  <1>1. LastTold(results, results)
    BY DEF LastTold, Range
  <1>2. CASE "proposalCreated" \in Range(results)
    <2>1. FormatResults(results) = <<"proposalCreated">>
      BY <1>2 DEF FormatResults
    <2>2. LastTold(results, <<"proposalCreated">>)
      BY DEF LastTold, Range, Outcomes
    <2> QED
      BY <1>1, <2>1, <2>2
  <1>3. CASE "proposalCreated" \notin Range(results)
    <2>1. FormatResults(results) \in {FormatApproval(results), results}
      BY <1>3 DEF FormatResults
    <2> QED
      BY <1>1, <2>1, ApprovalTells
  <1> QED
    BY <1>2, <1>3

(* The statuses of an answer are a list.                                   *)
LEMMA ParsedList ==
  ASSUME NEW list \in StatusLists PROVE IsList(ParseResponses(list))
  <1>1. list \in Seq(STRING)
    BY HttpAssumption
  <1> DEFINE parsed == [i \in DOMAIN list |-> IF list[i] = "scalar" THEN "" ELSE list[i]]
  <1>2. DOMAIN list = 1..Len(list) /\ Len(list) \in Nat
    BY <1>1
  <1>3. parsed = [i \in 1..Len(list) |-> parsed[i]]
    BY <1>2
  <1> HIDE DEF parsed
  <1>4. IsList(parsed)
    BY <1>2, <1>3, ListOfFunction
  <1>5. IsList(<<>>)
    BY EmptySeq, ListOfSeq
  <1> QED
    BY <1>4, <1>5 DEF ParseResponses, parsed

Ran(k)     == \E i \in DOMAIN executed : executed[i].run = k
Settled(k) == \E i \in DOMAIN transfers : transfers[i].run = k /\ transfers[i].fate = "confirmed"

Honest(k) ==
  /\ runs[k].outcome \in {"reported", "panic"} => Ran(k)
  /\ LastTold(runs[k].told, runs[k].report)
  /\ runs[k].outcome = "signature" => Settled(k)

(* A good answer, or result, is of the transaction of the current run.     *)
Answered ==
  /\ phase # "idle" => stage = "wait"
  /\ phase = "sent" => tx.run = Len(runs)
  /\ answer.code = "ok" => phase = "sent" /\ answer.statuses \in StatusLists /\ Ran(tx.run)
  /\ phase = "ended" => IsList(result.statuses) /\ (result.kind # "error" => Ran(Len(runs)))

(* A signature is of the transfer of the current run.                      *)
Polled ==
  /\ rpc.at = "poll" =>
       Len(transfers) \in DOMAIN transfers /\ transfers[Len(transfers)].run = Len(runs)
  /\ rpc.out = "signature" => Settled(Len(runs))

ReportInv == Answered /\ Polled /\ \A k \in DOMAIN runs : Honest(k)

LEMMA ReportInit == Init => ReportInv
  <1> SUFFICES ASSUME Init PROVE ReportInv
    OBVIOUS
  <1>1. phase = "idle" /\ answer = NoAnswer /\ rpc = NoRpc /\ runs = <<>>
    BY DEF Init, HttpInit, SolInit
  <1>2. DOMAIN runs = {}
    BY <1>1
  <1> QED
    BY <1>1, <1>2 DEF ReportInv, Answered, Polled, NoAnswer, NoRpc

(* What was executed or confirmed stays so.                                *)
Grows == (\A k : Ran(k) => Ran(k)') /\ (\A k : Settled(k) => Settled(k)')

LEMMA ExecutedGrows ==
  ASSUME SubmitInv, executed' = executed \/ \E q : executed' = Append(executed, q)
  PROVE  \A k : Ran(k) => Ran(k)'
  <1>1. CASE executed' = executed
    BY <1>1 DEF Ran
  <1>2. ASSUME NEW q, executed' = Append(executed, q)
        PROVE  \A k : Ran(k) => Ran(k)'
    <2>1. \A i \in DOMAIN executed : i \in DOMAIN executed' /\ executed'[i] = executed[i]
      BY <1>2, ListAppend DEF SubmitInv, Histories
    <2> QED
      BY <2>1 DEF Ran
  <1> QED
    BY <1>1, <1>2

LEMMA TransfersGrow ==
  ASSUME SubmitInv, [Next]_vars
  PROVE  \A k : Settled(k) => Settled(k)'
  <1>1. \/ transfers' = transfers
        \/ \E t : transfers' = Append(transfers, t)
        \/ \E i \in DOMAIN transfers : /\ transfers[i].fate = "pending"
             /\ \E fate : transfers' = [transfers EXCEPT ![i].fate = fate]
    <2>1. CASE \E c \in CommandLines : Invoke(c)
      BY <2>1
      DEF Invoke, LoadFails, HandleLedgerInfo, HandleConfig, HandleOnChain, HandleSigned, HandleSdk,
          HandleLibrary, AtOnce, StartWrapping, solVars
    <2>2. CASE Program
      BY <2>2
      DEF Program, Save, WrapNext, WrapEnd, Submit, SubmitAction, Post, Report, StartTransfer, Begin,
          Transfer, LatestBlockhash, SendTransaction, ConfirmSignature, PrintSignature, solVars
    <2>3. CASE Settle
      BY <2>3 DEF Settle
    <2>4. CASE Network \/ Answer \/ Read \/ TimePasses \/ UNCHANGED vars
      BY <2>4 DEF Network, Answer, Read, TimePasses, vars, solVars
    <2> QED
      BY <2>1, <2>2, <2>3, <2>4 DEF Next
  <1>2. CASE transfers' = transfers
    BY <1>2 DEF Settled
  <1>3. ASSUME NEW t, transfers' = Append(transfers, t)
        PROVE  \A k : Settled(k) => Settled(k)'
    <2>1. \A i \in DOMAIN transfers : i \in DOMAIN transfers' /\ transfers'[i] = transfers[i]
      BY <1>3, ListAppend DEF SubmitInv, Histories
    <2> QED
      BY <2>1 DEF Settled
  <1>4. ASSUME NEW i \in DOMAIN transfers, transfers[i].fate = "pending", NEW fate,
               transfers' = [transfers EXCEPT ![i].fate = fate]
        PROVE  \A k : Settled(k) => Settled(k)'
    <2>1. /\ DOMAIN transfers' = DOMAIN transfers
          /\ \A j \in DOMAIN transfers : j # i => transfers'[j] = transfers[j]
      BY <1>4
    <2> QED
      BY <1>4, <2>1 DEF Settled
  <1> QED
    BY <1>1, <1>2, <1>3, <1>4

LEMMA StillHonest ==
  ASSUME NEW k, Honest(k), Ran(k) => Ran(k)', Settled(k) => Settled(k)',
         runs'[k].told = runs[k].told, runs'[k].report = runs[k].report,
         runs'[k].outcome # runs[k].outcome =>
           runs'[k].outcome \notin {"reported", "panic", "signature"}
  PROVE  Honest(k)'
  <1>1. CASE runs'[k].outcome = runs[k].outcome
    BY <1>1 DEF Honest, LastTold
  <1>2. CASE runs'[k].outcome # runs[k].outcome
    BY <1>2 DEF Honest, LastTold
  <1> QED
    BY <1>1, <1>2

(* A run that starts has told nothing yet.                                 *)
LEMMA StartHonest ==
  ASSUME SubmitInv, ReportInv, Grows, NEW c, NEW o, o \notin {"reported", "panic", "signature"},
         runs' = Append(runs, NewRun(c, o))
  PROVE  \A k \in DOMAIN runs' : Honest(k)'
  <1> DEFINE n == Len(runs) + 1
  <1>1. /\ DOMAIN runs' = 1..n /\ DOMAIN runs = 1..Len(runs) /\ Len(runs) \in Nat
        /\ \A k \in 1..Len(runs) : runs'[k] = runs[k]
        /\ runs'[n] = NewRun(c, o)
    BY ListAppend DEF SubmitInv, Histories
  <1> TAKE k \in DOMAIN runs'
  <1>2. k \in 1..Len(runs) \/ k = n
    BY <1>1
  <1>3. CASE k \in 1..Len(runs)
    <2>1. Honest(k) /\ (Ran(k) => Ran(k)') /\ (Settled(k) => Settled(k)')
      BY <1>1, <1>3 DEF ReportInv, Grows
    <2>2. runs'[k] = runs[k]
      BY <1>1, <1>3
    <2> QED
      BY <2>1, <2>2, StillHonest
  <1>4. CASE k = n
    <2>1. runs'[k].outcome = o /\ runs'[k].told = <<>> /\ runs'[k].report = <<>>
      BY <1>1, <1>4 DEF NewRun
    <2>2. DOMAIN <<>> = {}
      OBVIOUS
    <2> QED
      BY <2>1, <2>2 DEF Honest, LastTold
  <1> QED
    BY <1>2, <1>3, <1>4

(* The record of the current run is changed.                               *)
LEMMA RecordHonest ==
  ASSUME SubmitInv, ReportInv, Grows, Rewritten,
         \A k : k = Len(runs) /\ k \in DOMAIN runs => Honest(k)'
  PROVE  \A k \in DOMAIN runs' : Honest(k)'
  <1>1. DOMAIN runs' = DOMAIN runs /\ \A k \in DOMAIN runs : k # Len(runs) => runs'[k] = runs[k]
    BY DEF Rewritten
  <1> TAKE k \in DOMAIN runs'
  <1>2. CASE k # Len(runs)
    <2>1. Honest(k) /\ (Ran(k) => Ran(k)') /\ (Settled(k) => Settled(k)') /\ runs'[k] = runs[k]
      BY <1>1, <1>2 DEF ReportInv, Grows
    <2> QED
      BY <2>1, StillHonest
  <1> QED
    BY <1>1, <1>2

LEMMA SameHonest ==
  ASSUME ReportInv, Grows, runs' = runs
  PROVE  \A k \in DOMAIN runs' : Honest(k)'
  <1> TAKE k \in DOMAIN runs'
  <1>1. Honest(k) /\ (Ran(k) => Ran(k)') /\ (Settled(k) => Settled(k)') /\ runs'[k] = runs[k]
    BY DEF ReportInv, Grows
  <1> QED
    BY <1>1, StillHonest

-----------------------------------------------------------------------------
(* Whatever starts a run is not one of these outcomes.                     *)
LEMMA InvokeStarts ==
  ASSUME NEW c \in CommandLines, Invoke(c)
  PROVE  /\ stage = "idle"
         /\ \E o : runs' = Append(runs, NewRun(c, o)) /\ o \notin {"reported", "panic", "signature"}
         /\ UNCHANGED <<executed, transfers>>
         /\ \/ rpc' = rpc /\ UNCHANGED <<phase, tx, answer, result>>
            \/ /\ rpc' = rpc /\ answer' = answer /\ stage' = "wait" /\ phase = "idle"
               /\ \/ phase' = "sent" /\ tx'.run = Len(runs) + 1
                  \/ phase' = "ended" /\ result' = [NoResult EXCEPT !.kind = "error"]
  <1>1. ASSUME NEW o, o \notin {"reported", "panic", "signature"}, MayRun(c), AtOnce(c, o)
        PROVE  /\ stage = "idle"
               /\ runs' = Append(runs, NewRun(c, o))
               /\ UNCHANGED <<executed, transfers, rpc, phase, tx, answer, result>>
    BY <1>1 DEF MayRun, Idle, AtOnce, httpVars, netVars, solVars
  <1>2. ASSUME NEW next, MayRun(c), Begins(c, next), UNCHANGED <<httpVars, solVars>>
        PROVE  /\ stage = "idle"
               /\ runs' = Append(runs, NewRun(c, "running"))
               /\ UNCHANGED <<executed, transfers, rpc, phase, tx, answer, result>>
    BY <1>2 DEF MayRun, Idle, Begins, httpVars, netVars, solVars
  <1> DEFINE Starts ==
        /\ stage = "idle"
        /\ \E o : runs' = Append(runs, NewRun(c, o)) /\ o \notin {"reported", "panic", "signature"}
        /\ UNCHANGED <<executed, transfers>>
        /\ \/ rpc' = rpc /\ UNCHANGED <<phase, tx, answer, result>>
           \/ /\ rpc' = rpc /\ answer' = answer /\ stage' = "wait" /\ phase = "idle"
              /\ \/ phase' = "sent" /\ tx'.run = Len(runs) + 1
                 \/ phase' = "ended" /\ result' = [NoResult EXCEPT !.kind = "error"]
  <1>9. ASSUME MayRun(c), \E o \in {"broken config", "listed", "error", "refused", "dry run"} : AtOnce(c, o)
        PROVE  Starts
    <2>1. PICK o \in {"broken config", "listed", "error", "refused", "dry run"} : AtOnce(c, o)
      BY <1>9
    <2>2. o \notin {"reported", "panic", "signature"}
      OBVIOUS
    <2>3. /\ stage = "idle" /\ runs' = Append(runs, NewRun(c, o))
          /\ UNCHANGED <<executed, transfers, rpc, phase, tx, answer, result>>
      BY <1>9, <2>1, <2>2, <1>1
    <2> QED
      BY <2>2, <2>3
  <1>10. ASSUME MayRun(c), NEW next, Begins(c, next), UNCHANGED <<httpVars, solVars>>
         PROVE  Starts
    BY <1>10, <1>2
  <1> SUFFICES Starts
    BY DEF Starts
  <1> HIDE DEF Starts
  <1>3. CASE LoadFails(c) \/ HandleLedgerInfo(c)
    <2>1. MayRun(c) /\ (AtOnce(c, "broken config") \/ AtOnce(c, "listed") \/ AtOnce(c, "error"))
      BY <1>3 DEF LoadFails, HandleLedgerInfo, Loads
    <2> QED
      BY <2>1, <1>9
  <1>4. CASE HandleConfig(c)
    <2>1. /\ MayRun(c)
          /\ AtOnce(c, "listed") \/ (Begins(c, "saving") /\ UNCHANGED <<httpVars, solVars>>)
      BY <1>4 DEF HandleConfig, Loads
    <2> QED
      BY <2>1, <1>9, <1>10
  <1>5. CASE HandleOnChain(c)
    <2>1. /\ MayRun(c)
          /\ AtOnce(c, "refused") \/ AtOnce(c, "dry run")
             \/ \E next : Begins(c, next) /\ UNCHANGED <<httpVars, solVars>>
      BY <1>5 DEF HandleOnChain, Loads
    <2> QED
      BY <2>1, <1>9, <1>10
  <1>6. CASE HandleSigned(c)
    <2>1. /\ MayRun(c)
          /\ AtOnce(c, "refused") \/ (Begins(c, "wrap") /\ UNCHANGED <<httpVars, solVars>>)
      BY <1>6 DEF HandleSigned, Loads, StartWrapping
    <2> QED
      BY <2>1, <1>9, <1>10
  <1>7. CASE HandleSdk(c)
    <2>1. /\ MayRun(c)
          /\ AtOnce(c, "refused") \/ AtOnce(c, "dry run")
             \/ (Begins(c, "propose") /\ UNCHANGED <<httpVars, solVars>>)
      BY <1>7 DEF HandleSdk
    <2> QED
      BY <2>1, <1>9, <1>10
  <1>8. CASE HandleLibrary(c)
    <2>1. CASE AtOnce(c, "refused")
      <3>1. MayRun(c)
        BY <1>8 DEF HandleLibrary
      <3> QED
        BY <2>1, <3>1, <1>9
    <2>2. ASSUME Begins(c, "wait"), UNCHANGED solVars, executed' = executed, answer' = answer,
                 phase = "idle",
                 \/ phase' = "sent" /\ tx'.run = Len(runs) + 1
                 \/ phase' = "ended" /\ result' = [NoResult EXCEPT !.kind = "error"]
          PROVE  /\ stage = "idle"
                 /\ runs' = Append(runs, NewRun(c, "running"))
                 /\ UNCHANGED <<executed, transfers, rpc, answer>>
                 /\ stage' = "wait"
      BY <1>8, <2>2 DEF HandleLibrary, MayRun, Idle, Begins, solVars
    <2>3. ASSUME NEW actions, NEW account, NEW n, PlaceTx(Current + 1, actions, account, n)
          PROVE  /\ executed' = executed /\ answer' = answer /\ phase = "idle"
                 /\ \/ phase' = "sent" /\ tx'.run = Len(runs) + 1
                    \/ phase' = "ended" /\ result' = [NoResult EXCEPT !.kind = "error"]
      BY <2>3 DEF PlaceTx, Current
    <2>4. ASSUME NoSigner
          PROVE  /\ executed' = executed /\ answer' = answer /\ phase = "idle"
                 /\ phase' = "ended" /\ result' = [NoResult EXCEPT !.kind = "error"]
      BY <2>4 DEF NoSigner
    <2>5. CASE ~AtOnce(c, "refused")
      <3>1. Begins(c, "wait") /\ UNCHANGED solVars
            /\ (NoSigner \/ \E actions, account, n : PlaceTx(Current + 1, actions, account, n))
        BY <1>8, <2>5 DEF HandleLibrary
      <3>2. /\ executed' = executed /\ answer' = answer /\ phase = "idle"
            /\ \/ phase' = "sent" /\ tx'.run = Len(runs) + 1
               \/ phase' = "ended" /\ result' = [NoResult EXCEPT !.kind = "error"]
        BY <3>1, <2>3, <2>4
      <3> HIDE DEF NoResult
      <3>3. /\ stage = "idle"
            /\ runs' = Append(runs, NewRun(c, "running"))
            /\ UNCHANGED <<executed, transfers, rpc, answer>>
            /\ stage' = "wait"
        BY <2>2, <3>1, <3>2
      <3> QED
        BY <3>2, <3>3 DEF Starts
    <2> QED
      BY <2>1, <2>5
  <1> QED
    BY <1>3, <1>4, <1>5, <1>6, <1>7, <1>8 DEF Invoke

LEMMA InvokeReports ==
  ASSUME SubmitInv, ReportInv, NEW c \in CommandLines, Invoke(c)
  PROVE  ReportInv'
  <1>1. /\ stage = "idle"
        /\ \E o : runs' = Append(runs, NewRun(c, o)) /\ o \notin {"reported", "panic", "signature"}
        /\ UNCHANGED <<executed, transfers, rpc, answer>>
        /\ \/ UNCHANGED <<phase, tx, answer, result>>
           \/ /\ stage' = "wait" /\ phase = "idle"
              /\ \/ phase' = "sent" /\ tx'.run = Len(runs) + 1
                 \/ phase' = "ended" /\ result' = [NoResult EXCEPT !.kind = "error"]
    BY InvokeStarts
  <1>2. Grows
    BY <1>1 DEF Grows, Ran, Settled
  <1>3. \A k \in DOMAIN runs' : Honest(k)'
    BY <1>1, <1>2, StartHonest
  <1>4. Len(runs') = Len(runs) + 1
    BY <1>1, ListAppend DEF SubmitInv, Histories
  <1>5. phase = "idle" /\ answer.code # "ok" /\ rpc = NoRpc
    BY <1>1 DEF ReportInv, Answered, SubmitInv, Progress
  <1>6. Answered'
    <2>1. IsList(<<>>)
      BY EmptySeq, ListOfSeq
    <2> QED
      BY <1>1, <1>4, <1>5, <2>1 DEF Answered, NoResult, IsList
  <1>7. Polled'
    BY <1>1, <1>5 DEF Polled, NoRpc
  <1> QED
    BY <1>3, <1>6, <1>7 DEF ReportInv

(* A step of the program by itself: neither the exchange nor the chain is   *)
(* waited for, and of the record no more is told or reported.               *)
Untold ==
  /\ runs'[Len(runs)].told = runs[Len(runs)].told
  /\ runs'[Len(runs)].report = runs[Len(runs)].report
  /\ runs'[Len(runs)].outcome \notin {"reported", "panic", "signature"}

LEMMA AloneReports ==
  ASSUME SubmitInv, ReportInv, stage \notin {"idle", "wait"},
         runs' = runs \/ (Rewritten /\ Untold),
         UNCHANGED <<phase, tx, answer, result, rpc, executed, transfers>>
  PROVE  ReportInv'
  <1>1. Grows
    BY DEF Grows, Ran, Settled
  <1>2. Len(runs) \in DOMAIN runs /\ IsList(runs)
    BY CurrentRecord DEF SubmitInv, Histories
  <1>3. \A k \in DOMAIN runs' : Honest(k)'
    <2>1. CASE runs' = runs
      BY <1>1, <2>1, SameHonest
    <2>2. CASE Rewritten /\ Untold
      <3>1. ASSUME NEW k, k = Len(runs), k \in DOMAIN runs PROVE Honest(k)'
        <4>1. Honest(k) /\ (Ran(k) => Ran(k)') /\ (Settled(k) => Settled(k)')
          BY <1>1, <3>1 DEF ReportInv, Grows
        <4>2. /\ runs'[k].told = runs[k].told /\ runs'[k].report = runs[k].report
              /\ runs'[k].outcome \notin {"reported", "panic", "signature"}
          BY <2>2, <3>1 DEF Untold
        <4> QED
          BY <4>1, <4>2, StillHonest
      <3> QED
        BY <1>1, <2>2, <3>1, RecordHonest
    <2> QED
      BY <2>1, <2>2
  <1>4. Len(runs') = Len(runs)
    BY <1>2, RunsKept DEF Rewritten
  <1>5. phase = "idle" /\ answer.code # "ok"
    BY DEF ReportInv, Answered
  <1>6. Answered'
    BY <1>5 DEF Answered
  <1>7. Polled'
    BY <1>4 DEF ReportInv, Polled, Settled
  <1> QED
    BY <1>3, <1>6, <1>7 DEF ReportInv

(* The steps before a transaction or a transfer.                           *)
LEMMA ProgramReports ==
  ASSUME SubmitInv, ReportInv,
         Save \/ WrapNext \/ WrapEnd \/ Submit \/ SubmitAction \/ Answer
  PROVE  ReportInv'
  <1> DEFINE n == Len(runs)
             old == runs[n]
             new == runs'[n]
  <1>1. /\ stage \notin {"idle", "wait"}
        /\ UNCHANGED <<phase, tx, answer, result, rpc, executed, transfers>>
    BY DEF Save, WrapNext, WrapEnd, Submit, SubmitAction, Answer, httpVars, netVars, solVars
  <1>2. Recorded(old) /\ n \in DOMAIN runs /\ old.outcome = "running"
    BY <1>1, CurrentRecord
  <1>3. \/ runs' = runs
        \/ \E o \in {"saved", "interrupted"} : runs' = [runs EXCEPT ![n].outcome = o]
        \/ \E t : runs' = [runs EXCEPT ![n].shown = t]
        \/ \E a : runs' = [runs EXCEPT ![n].said = a]
        \/ \E a : runs' = [runs EXCEPT ![n].said = a, ![n].outcome = "declined"]
    BY DEF Save, WrapNext, WrapEnd, Submit, SubmitAction, Previews, Answer, Current
  <1>4. CASE runs' = runs
    BY <1>1, <1>4, AloneReports
  <1>5. ASSUME NEW r, runs' = [runs EXCEPT ![n] = r], r.told = old.told, r.report = old.report,
               r.outcome \notin {"reported", "panic", "signature"}
        PROVE  ReportInv'
    <2>1. new = r /\ Rewritten
      BY <1>2, <1>5 DEF Rewritten
    <2>2. Untold
      BY <1>5, <2>1 DEF Untold
    <2> QED
      BY <1>1, <2>1, <2>2, AloneReports
  <1> HIDE DEF new
  <1>6. ASSUME NEW o \in {"saved", "interrupted"}, runs' = [runs EXCEPT ![n].outcome = o]
        PROVE  ReportInv'
    <2> DEFINE r == [old EXCEPT !.outcome = o]
    <2>1. runs' = [runs EXCEPT ![n] = r]
      BY <1>6
    <2>2. r.told = old.told /\ r.report = old.report /\ r.outcome = o
      <3> HIDE DEF old
      <3> QED
        BY <1>2 DEF Recorded
    <2> HIDE DEF r
    <2> QED
      BY <1>5, <2>1, <2>2
  <1>7. ASSUME NEW t, runs' = [runs EXCEPT ![n].shown = t]
        PROVE  ReportInv'
    <2> DEFINE r == [old EXCEPT !.shown = t]
    <2>1. runs' = [runs EXCEPT ![n] = r]
      BY <1>7
    <2>2. r.told = old.told /\ r.report = old.report /\ r.outcome = "running"
      <3> HIDE DEF old
      <3> QED
        BY <1>2 DEF Recorded
    <2> HIDE DEF r
    <2> QED
      BY <1>5, <2>1, <2>2
  <1>8. ASSUME NEW a, runs' = [runs EXCEPT ![n].said = a]
        PROVE  ReportInv'
    <2> DEFINE r == [old EXCEPT !.said = a]
    <2>1. runs' = [runs EXCEPT ![n] = r]
      BY <1>8
    <2>2. r.told = old.told /\ r.report = old.report /\ r.outcome = "running"
      <3> HIDE DEF old
      <3> QED
        BY <1>2 DEF Recorded
    <2> HIDE DEF r
    <2> QED
      BY <1>5, <2>1, <2>2
  <1>9. ASSUME NEW a, runs' = [runs EXCEPT ![n].said = a, ![n].outcome = "declined"]
        PROVE  ReportInv'
    <2> DEFINE r == [old EXCEPT !.said = a, !.outcome = "declined"]
    <2>1. runs' = [runs EXCEPT ![n] = r]
      BY <1>2, <1>9
    <2>2. r.told = old.told /\ r.report = old.report /\ r.outcome = "declined"
      <3> HIDE DEF old
      <3> QED
        BY <1>2 DEF Recorded
    <2> HIDE DEF r
    <2> QED
      BY <1>5, <2>1, <2>2
  <1> QED
    BY <1>3, <1>4, <1>6, <1>7, <1>8, <1>9

(* What is reported stays as it is while the network and the chain move.   *)
LEMMA FrameReports ==
  ASSUME SubmitInv, ReportInv, [Next]_vars, runs' = runs,
         executed' = executed \/ (\E q : executed' = Append(executed, q)),
         Answered', Polled'
  PROVE  ReportInv'
  <1>1. Grows
    BY ExecutedGrows, TransfersGrow DEF Grows
  <1> QED
    BY <1>1, SameHonest DEF ReportInv

LEMMA PostReports ==
  ASSUME SubmitInv, ReportInv, Post PROVE ReportInv'
  <1>1. /\ stage = "post" /\ stage' = "wait" /\ phase = "idle"
        /\ UNCHANGED <<runs, answer, executed, rpc, transfers>>
        /\ \/ phase' = "sent" /\ tx'.run = Len(runs)
           \/ phase' = "ended" /\ result' = [NoResult EXCEPT !.kind = "error"]
    BY DEF Post, PlaceTx, Current, solVars
  <1>2. answer.code # "ok" /\ rpc = NoRpc
    BY <1>1 DEF ReportInv, Answered, SubmitInv, Progress
  <1>3. IsList(<<>>)
    BY EmptySeq, ListOfSeq
  <1>4. Answered'
    BY <1>1, <1>2, <1>3 DEF Answered, NoResult, IsList
  <1>5. Polled'
    BY <1>1, <1>2 DEF Polled, NoRpc
  <1>6. Grows
    BY <1>1 DEF Grows, Ran, Settled
  <1> QED
    BY <1>1, <1>4, <1>5, <1>6, SameHonest DEF ReportInv

LEMMA NetworkReports ==
  ASSUME SubmitInv, ReportInv, [Next]_vars, Network PROVE ReportInv'
  <1>1. UNCHANGED <<stage, runs, rpc, transfers>>
    BY DEF Network, cliVars, solVars
  <1>2. Polled'
    BY <1>1 DEF ReportInv, Polled, Settled
  <1>3. IsList(<<>>)
    BY EmptySeq, ListOfSeq
  <1>4. CASE Execute
    <2>1. PICK request \in inbox :
            /\ UNCHANGED <<phase, tx, result>>
            /\ \/ /\ executed' = Append(executed, request)
                  /\ \E s \in StatusLists : Reply(request, "ok", s)
               \/ /\ Reply(request, "http error", <<>>)
                  /\ executed' \in {executed, Append(executed, request)}
      BY <1>4 DEF Execute
    <2>2. \A k : Ran(k) => Ran(k)'
      BY <2>1, ExecutedGrows
    <2>3. \/ answer' = answer
          \/ answer'.code = "http error"
          \/ /\ answer'.code = "ok" /\ answer'.statuses \in StatusLists
             /\ phase = "sent" /\ request = tx /\ executed' = Append(executed, request)
      <3>1. ASSUME NEW s \in StatusLists, Reply(request, "ok", s), executed' = Append(executed, request),
                   answer' # answer
            PROVE  /\ answer'.code = "ok" /\ answer'.statuses \in StatusLists
                   /\ phase = "sent" /\ request = tx /\ executed' = Append(executed, request)
        BY <3>1 DEF Reply
      <3>2. ASSUME Reply(request, "http error", <<>>), answer' # answer
            PROVE  answer'.code = "http error"
        BY <3>2 DEF Reply
      <3> QED
        BY <2>1, <3>1, <3>2
    <2>4. executed' = Append(executed, request) => \E i \in DOMAIN executed' : executed'[i] = request
      <3>1. SUFFICES ASSUME executed' = Append(executed, request)
                     PROVE  \E i \in DOMAIN executed' : executed'[i] = request
        OBVIOUS
      <3>2. /\ DOMAIN executed' = 1..(Len(executed) + 1) /\ Len(executed) \in Nat
            /\ executed'[Len(executed) + 1] = request
        BY <3>1, ListAppend DEF SubmitInv, Histories
      <3>3. Len(executed) + 1 \in DOMAIN executed'
        BY <3>2
      <3> QED
        BY <3>2, <3>3
    <2>5. answer'.code = "ok" => phase = "sent" /\ answer'.statuses \in StatusLists
                                 /\ \E i \in DOMAIN executed' : executed'[i].run = tx.run
      <3>1. CASE answer' = answer
        <4>1. answer.code = "ok" => phase = "sent" /\ answer.statuses \in StatusLists /\ Ran(tx.run)
          BY DEF ReportInv, Answered
        <4>2. PICK k : k = tx.run
          OBVIOUS
        <4>3. Ran(tx.run) => \E i \in DOMAIN executed' : executed'[i].run = tx.run
          BY <2>2, <4>2 DEF Ran
        <4> QED
          BY <3>1, <4>1, <4>3
      <3> QED
        BY <2>3, <2>4, <3>1
    <2>6. phase = "ended" => IsList(result.statuses) /\
            (result.kind # "error" => \E i \in DOMAIN executed' : executed'[i].run = Len(runs))
      <3>1. phase = "ended" => IsList(result.statuses) /\ (result.kind # "error" => Ran(Len(runs)))
        BY DEF ReportInv, Answered
      <3>2. PICK k : k = Len(runs)
        OBVIOUS
      <3>3. Ran(Len(runs)) => \E i \in DOMAIN executed' : executed'[i].run = Len(runs)
        BY <2>2, <3>2 DEF Ran
      <3> QED
        BY <3>1, <3>3
    <2>7. Answered'
      BY <1>1, <2>1, <2>5, <2>6 DEF ReportInv, Answered, Ran, IsList
    <2> QED
      BY <1>1, <1>2, <2>1, <2>7, FrameReports
  <1>5. CASE Lose
    <2>1. UNCHANGED <<phase, tx, result, executed>> /\ answer' \in {answer, NoAnswer}
      BY <1>5 DEF Lose
    <2>2. Answered'
      BY <1>1, <2>1 DEF ReportInv, Answered, Ran, NoAnswer, IsList
    <2> QED
      BY <1>1, <1>2, <2>1, <2>2, FrameReports
  <1>6. CASE Receive
    <2>1. /\ phase = "sent" /\ phase' = "ended" /\ answer' = NoAnswer /\ UNCHANGED <<tx, executed>>
          /\ result' = IF answer.code = "ok"
                       THEN [kind |-> "responses", statuses |-> ParseResponses(answer.statuses)]
                       ELSE [NoResult EXCEPT !.kind = "error"]
      BY <1>6 DEF Receive
    <2>2. tx.run = Len(runs)
      BY <2>1 DEF ReportInv, Answered
    <2>3. CASE answer.code = "ok"
      <3>1. answer.statuses \in StatusLists /\ Ran(tx.run)
        BY <2>3 DEF ReportInv, Answered
      <3>2. IsList(ParseResponses(answer.statuses))
        BY <3>1, ParsedList
      <3> DEFINE list == ParseResponses(answer.statuses)
      <3>3. result'.statuses = list
        BY <2>1, <2>3
      <3> HIDE DEF list
      <3>4. IsList(result'.statuses)
        BY <3>2, <3>3 DEF list
      <3>5. \E i \in DOMAIN executed' : executed'[i].run = Len(runs)
        BY <2>1, <2>2, <3>1 DEF Ran
      <3>6. Answered'
        BY <1>1, <2>1, <3>4, <3>5 DEF ReportInv, Answered, Ran, NoAnswer, IsList
      <3> QED
        BY <1>1, <1>2, <2>1, <3>6, FrameReports
    <2>4. CASE answer.code # "ok"
      <3>1. result'.kind = "error" /\ result'.statuses = <<>>
        BY <2>1, <2>4 DEF NoResult
      <3>2. Answered'
        BY <1>1, <1>3, <2>1, <3>1 DEF ReportInv, Answered, NoAnswer, IsList
      <3> QED
        BY <1>1, <1>2, <2>1, <3>2, FrameReports
    <2> QED
      BY <2>3, <2>4
  <1>7. CASE Timeout
    <2>1. /\ phase = "sent" /\ phase' = "ended" /\ answer' = NoAnswer /\ executed' = executed
          /\ result'.kind = "error" /\ result'.statuses = <<>>
      BY <1>7 DEF Timeout, NoResult
    <2>2. Answered'
      BY <1>1, <1>3, <2>1 DEF ReportInv, Answered, NoAnswer, IsList
    <2> QED
      BY <1>1, <1>2, <2>1, <2>2, FrameReports
  <1> QED
    BY <1>4, <1>5, <1>6, <1>7 DEF Network

(* What the caller is told is the result, and of the last outcome.         *)
LEMMA ReportReports ==
  ASSUME SubmitInv, ReportInv, Report PROVE ReportInv'
  <1> DEFINE n == Len(runs)
             old == runs[n]
             list == result.statuses
             outcome == runs'[n].outcome
             single == Cmd.program = "lib" /\ Cmd.name # "place_tx"
             told == IF Cmd.program = "lib" THEN list ELSE FormatResults(list)
             out == CASE result.kind = "error" -> "error"
                      [] result.kind # "error" /\ single /\ list = <<>> -> "panic"
                      [] OTHER -> "reported"
  <1>1. /\ stage = "wait" /\ phase = "ended" /\ stage' = "idle" /\ phase' = "idle"
        /\ UNCHANGED <<tx, answer, executed, rpc, transfers>>
    BY DEF Report, Finish, solVars
  <1>2. IsList(list) /\ (result.kind # "error" => Ran(n)) /\ answer.code # "ok"
    BY <1>1 DEF ReportInv, Answered
  <1>3. Recorded(old) /\ n \in DOMAIN runs
    BY <1>1, CurrentRecord
  <1>4. runs' = [runs EXCEPT ![n].told = list, ![n].report = told, ![n].outcome = out]
    BY DEF Report, Current
  <1>5. result.kind # "error" \/ out = "error"
    OBVIOUS
  <1>6. LastTold(list, told)
    BY <1>2, FormattedTells
  <1>7. out \in {"error", "panic", "reported"}
    OBVIOUS
  <1> HIDE DEF list, told, out, old
  <1>8. /\ Rewritten
        /\ runs'[n].told = list /\ runs'[n].report = told /\ runs'[n].outcome = out
    <2> DEFINE r == [old EXCEPT !.told = list, !.report = told, !.outcome = out]
    <2>1. runs' = [runs EXCEPT ![n] = r]
      BY <1>3, <1>4 DEF old
    <2>2. r.told = list /\ r.report = told /\ r.outcome = out
      BY <1>3 DEF Recorded
    <2> HIDE DEF r
    <2>3. runs'[n] = r /\ Rewritten
      BY <1>3, <2>1 DEF Rewritten
    <2> QED
      BY <2>2, <2>3
  <1>9. Grows
    BY <1>1 DEF Grows, Ran, Settled
  <1>10. ASSUME NEW k, k = n, k \in DOMAIN runs PROVE Honest(k)'
    <2>1. Ran(k) => Ran(k)'
      BY <1>1 DEF Ran
    <2>2. runs'[k].outcome \in {"reported", "panic"} => Ran(k)'
      BY <1>2, <1>5, <1>8, <1>10, <2>1
    <2>3. runs'[k].outcome # "signature"
      BY <1>7, <1>8, <1>10
    <2>4. LastTold(runs'[k].told, runs'[k].report)
      BY <1>6, <1>8, <1>10
    <2> QED
      BY <2>2, <2>3, <2>4 DEF Honest, LastTold
  <1>11. \A k \in DOMAIN runs' : Honest(k)'
    BY <1>8, <1>9, <1>10, RecordHonest DEF n
  <1>12. Answered'
    BY <1>1, <1>2 DEF Answered
  <1>13. Polled'
    <2>1. rpc = NoRpc
      BY <1>1 DEF SubmitInv, Progress
    <2> QED
      BY <1>1, <2>1 DEF Polled, NoRpc
  <1> QED
    BY <1>11, <1>12, <1>13 DEF ReportInv

-----------------------------------------------------------------------------
(* The chain.                                                              *)
LEMMA ChainReports ==
  ASSUME SubmitInv, ReportInv, [Next]_vars, StartTransfer \/ Transfer
  PROVE  ReportInv'
  <1>1. stage = "chain" /\ UNCHANGED <<stage, runs, executed, phase, tx, answer, result>>
    BY DEF StartTransfer, Transfer, cliVars, httpVars, netVars
  <1>2. Answered'
    BY <1>1 DEF ReportInv, Answered, Ran, IsList
  <1>3. rpc = [at |-> rpc.at, polls |-> rpc.polls, out |-> rpc.out]
    BY DEF SubmitInv, Progress
  <1>4. Polled
    BY DEF ReportInv
  <1>5. CASE StartTransfer \/ LatestBlockhash
    <2>1. transfers' = transfers /\ rpc'.at \in {"blockhash", "send", "done"}
          /\ (rpc'.out = "signature" => rpc.out = "signature")
      BY <1>3, <1>5 DEF StartTransfer, Begin, LatestBlockhash, Failed, NoRpc
    <2>2. Polled'
      BY <1>1, <1>4, <2>1 DEF Polled, Settled
    <2> QED
      BY <1>1, <1>2, <2>2, FrameReports
  <1>6. CASE SendTransaction(Current, Instruction)
    <2>1. /\ rpc'.out \in {rpc.out, "error"} /\ rpc'.at \in {"poll", "done"}
          /\ \/ transfers' = transfers /\ rpc'.at = "done"
             \/ transfers' = Append(transfers, [run |-> Len(runs), instruction |-> Instruction,
                                                fate |-> "pending"])
      BY <1>3, <1>6 DEF SendTransaction, Failed, Current
    <2>2. Settled(Len(runs)) => Settled(Len(runs))'
      <3>1. \A k : Settled(k) => Settled(k)'
        BY TransfersGrow
      <3>2. PICK k : k = Len(runs)
        OBVIOUS
      <3> QED
        BY <1>1, <3>1, <3>2 DEF Settled
    <2>3. rpc'.at = "poll" =>
            Len(transfers') \in DOMAIN transfers' /\ transfers'[Len(transfers')].run = Len(runs)
      <3>1. SUFFICES ASSUME rpc'.at = "poll"
                     PROVE  /\ Len(transfers') \in DOMAIN transfers'
                            /\ transfers'[Len(transfers')].run = Len(runs)
        OBVIOUS
      <3> DEFINE t == [run |-> Len(runs), instruction |-> Instruction, fate |-> "pending"]
      <3>2. transfers' = Append(transfers, t) /\ t.run = Len(runs)
        BY <2>1, <3>1
      <3> HIDE DEF t
      <3>3. /\ DOMAIN transfers' = 1..(Len(transfers) + 1) /\ Len(transfers) \in Nat
            /\ Len(transfers') = Len(transfers) + 1 /\ transfers'[Len(transfers) + 1] = t
        BY <3>2, ListAppend DEF SubmitInv, Histories
      <3> QED
        BY <3>2, <3>3
    <2>4. Polled'
      BY <1>1, <1>4, <2>1, <2>2, <2>3 DEF Polled, Settled
    <2> QED
      BY <1>1, <1>2, <2>4, FrameReports
  <1>7. CASE ConfirmSignature
    <2>1. /\ rpc.at = "poll" /\ transfers' = transfers
          /\ \/ transfers[Len(transfers)].fate = "confirmed"
             \/ rpc'.out \in {rpc.out, "error"}
      BY <1>3, <1>7 DEF ConfirmSignature, Failed
    <2>2. Len(transfers) \in DOMAIN transfers /\ transfers[Len(transfers)].run = Len(runs)
      BY <1>4, <2>1 DEF Polled
    <2>3. rpc'.out = "signature" => Settled(Len(runs))
      BY <1>4, <2>1, <2>2 DEF Polled, Settled
    <2>4. Polled'
      BY <1>1, <2>1, <2>2, <2>3 DEF Polled, Settled
    <2> QED
      BY <1>1, <1>2, <2>4, FrameReports
  <1> QED
    BY <1>5, <1>6, <1>7 DEF Transfer

LEMMA SettleReports ==
  ASSUME SubmitInv, ReportInv, [Next]_vars, Settle, UNCHANGED <<cliVars, httpVars>>
  PROVE  ReportInv'
  <1>1. UNCHANGED <<stage, runs, executed, phase, tx, answer, result>> /\ rpc' = rpc
    BY DEF Settle, cliVars, httpVars, netVars
  <1>2. Answered'
    BY <1>1 DEF ReportInv, Answered, Ran, IsList
  <1>3. PICK i \in DOMAIN transfers :
          \E fate : transfers' = [transfers EXCEPT ![i].fate = fate]
    BY DEF Settle
  <1>4. IsList(transfers) /\ \A j \in DOMAIN transfers : Sent(transfers[j])
    BY DEF SubmitInv, Histories, IsList
  <1>5. /\ DOMAIN transfers' = DOMAIN transfers /\ Len(transfers') = Len(transfers)
        /\ \A j \in DOMAIN transfers : transfers'[j].run = transfers[j].run
    <2>1. DOMAIN transfers' = DOMAIN transfers
          /\ \A j \in DOMAIN transfers : j # i => transfers'[j] = transfers[j]
      BY <1>3
    <2>2. transfers'[i].run = transfers[i].run
      <3> DEFINE t == transfers[i]
      <3>1. Sent(t) /\ \E fate : transfers'[i] = [t EXCEPT !.fate = fate]
        BY <1>3, <1>4
      <3> HIDE DEF t
      <3>2. transfers'[i].run = t.run
        BY <3>1 DEF Sent
      <3> QED
        BY <3>2 DEF t
    <2>3. Len(transfers') = Len(transfers)
      BY <1>3, <1>4, ListExcept
    <2> QED
      BY <2>1, <2>2, <2>3
  <1>6. Settled(Len(runs)) => Settled(Len(runs))'
    <2>1. \A k : Settled(k) => Settled(k)'
      BY TransfersGrow
    <2>2. PICK k : k = Len(runs)
      OBVIOUS
    <2> QED
      BY <1>1, <2>1, <2>2 DEF Settled
  <1>7. Polled'
    BY <1>1, <1>5, <1>6 DEF ReportInv, Polled, Settled
  <1> QED
    BY <1>1, <1>2, <1>7, FrameReports

LEMMA SignatureReports ==
  ASSUME SubmitInv, ReportInv, PrintSignature PROVE ReportInv'
  <1> DEFINE n == Len(runs)
             old == runs[n]
             out == rpc.out
  <1>1. /\ stage = "chain" /\ stage' = "idle" /\ rpc' = NoRpc
        /\ UNCHANGED <<executed, transfers, phase, tx, answer, result>>
        /\ runs' = [runs EXCEPT ![n].outcome = out]
    BY DEF PrintSignature, Current, httpVars, netVars
  <1>2. Recorded(old) /\ n \in DOMAIN runs
    BY <1>1, CurrentRecord
  <1>3. out = "signature" => Settled(n)
    BY DEF ReportInv, Polled
  <1>4. out \in {"none", "error", "signature"}
    BY DEF SubmitInv, Progress
  <1> HIDE DEF old, out
  <1>5. /\ Rewritten
        /\ runs'[n].told = old.told /\ runs'[n].report = old.report /\ runs'[n].outcome = out
    <2> DEFINE r == [old EXCEPT !.outcome = out]
    <2>1. runs' = [runs EXCEPT ![n] = r]
      BY <1>1 DEF old
    <2>2. r.told = old.told /\ r.report = old.report /\ r.outcome = out
      BY <1>2 DEF Recorded
    <2> HIDE DEF r
    <2>3. runs'[n] = r /\ Rewritten
      BY <1>2, <2>1 DEF Rewritten
    <2> QED
      BY <2>2, <2>3
  <1>6. Grows
    BY <1>1 DEF Grows, Ran, Settled
  <1>7. ASSUME NEW k, k = n, k \in DOMAIN runs PROVE Honest(k)'
    <2>1. LastTold(runs[k].told, runs[k].report)
      BY <1>7 DEF ReportInv, Honest
    <2>2. LastTold(runs'[k].told, runs'[k].report)
      BY <1>5, <1>7, <2>1 DEF old
    <2>3. runs'[k].outcome \notin {"reported", "panic"}
      BY <1>4, <1>5, <1>7
    <2>4. runs'[k].outcome = "signature" => Settled(k)'
      BY <1>1, <1>3, <1>5, <1>7 DEF Settled
    <2> QED
      BY <2>2, <2>3, <2>4 DEF Honest, LastTold
  <1>8. \A k \in DOMAIN runs' : Honest(k)'
    BY <1>5, <1>6, <1>7, RecordHonest DEF n
  <1>9. Answered'
    BY <1>1 DEF ReportInv, Answered
  <1>10. Polled'
    BY <1>1 DEF Polled, NoRpc
  <1> QED
    BY <1>8, <1>9, <1>10 DEF ReportInv

LEMMA ReportStep == SubmitInv /\ ReportInv /\ [Next]_vars => ReportInv'
  <1> SUFFICES ASSUME SubmitInv, ReportInv, [Next]_vars PROVE ReportInv'
    OBVIOUS
  <1>1. ASSUME NEW c \in CommandLines, Invoke(c) PROVE ReportInv'
    BY <1>1, InvokeReports
  <1>2. CASE Program \/ Answer
    BY <1>2, ProgramReports, PostReports, ReportReports, ChainReports, SignatureReports DEF Program
  <1>3. CASE Network
    BY <1>3, NetworkReports
  <1>4. CASE Settle /\ UNCHANGED <<cliVars, httpVars>>
    BY <1>4, SettleReports
  <1>5. CASE Read \/ TimePasses \/ UNCHANGED vars
    <2>1. UNCHANGED <<stage, runs, executed, phase, tx, answer, result, rpc, transfers>>
      BY <1>5
      DEF Read, GetMarketData, GetAccount, GetOpenOrders, GetHistoryPage, ReadErrorBody,
          DecodeErrorBody, TimePasses, ClockMoves, vars, cliVars, httpVars, netVars, solVars
    <2>2. Answered'
      BY <2>1 DEF ReportInv, Answered, Ran, IsList
    <2>3. Polled'
      BY <2>1 DEF ReportInv, Polled, Settled
    <2> QED
      BY <2>1, <2>2, <2>3, FrameReports
  <1> QED
    BY <1>1, <1>2, <1>3, <1>4, <1>5 DEF Next

(* What the programs and the library report is what happened: a result is  *)
(* of a transaction the exchange executed, format_approval_result prints   *)
(* the last outcome of a proposal, and a signature is of a transfer that   *)
(* the chain confirmed.                                                    *)
THEOREM ReportsAreTrue == Spec => []ReportIsTrue
  <1>1. ReportInv => ReportIsTrue
    BY DEF ReportInv, Honest, LastTold, Ran, Settled, ReportIsTrue
  <1> QED
    BY <1>1, SubmitInit, SubmitStep, ReportInit, ReportStep, PTL DEF Spec
=============================================================================
