------------------------- MODULE AccountStateProofs -------------------------
(***************************************************************************)
(* Proofs about AccountState: between messages the published account is    *)
(* the actor's, a handler told of a fill or of a margin update finds it    *)
(* published, and a task in wait_next_account_update gets a publication    *)
(* later than its first poll, for any account, messages and readers.       *)
(***************************************************************************)
EXTENDS AccountState, SequenceTheorems, TLAPS

Kinds  == {"Snapshot", "Order", "MarginUpdate", "Position", "Fill", "Leverage"}
Late   == {"Fill", "MarginUpdate"}
Event  == [do : {"emit"}, kind : Kinds, at : Nat]
Now(e) == e \in Event /\ e.at = applied

(* The publication of the message being handled is no longer to come.      *)
NothingToPublish == todo = <<>> \/ \E e \in Event : Now(e) /\ todo = <<e>>

(* What is left to do of a message: at most one event and one publication, *)
(* in the order of its kind; without a publication to come the published   *)
(* account is the actor's.                                                 *)
TodoInv ==
  \/ NothingToPublish /\ watch.state = acct
  \/ todo = <<Publish>>
  \/ \E e \in Event : Now(e) /\ e.kind \notin Late /\ todo = <<e, Publish>>
  \/ \E e \in Event : Now(e) /\ e.kind \in Late /\ todo = <<Publish, e>>

(* The queued events are of messages already applied, and a fill or margin *)
(* event of the current message is queued after its publication.           *)
EventsInv ==
  /\ applied \in Nat
  /\ events \in Seq(Event)
  /\ \A i \in 1..Len(events) :
       /\ events[i].at <= applied
       /\ events[i].kind \in Late /\ events[i].at = applied => NothingToPublish

(* A task in wait_next has marked what was published at its first poll.    *)
ReaderInv ==
  /\ watch.version \in Nat
  /\ reader \in [Readers -> {"idle", "changed", "next", "read", "readNext"}]
  /\ seen \in [Readers -> Nat] /\ mark \in [Readers -> Nat] /\ got \in [Readers -> Nat]
  /\ \A t \in Readers :
       /\ reader[t] = "next" => seen[t] >= mark[t]
       /\ reader[t] = "readNext" => watch.version > mark[t]

PubInv == TodoInv /\ EventsInv /\ ReaderInv

USE DEF exchVars, readerVars

LEMMA EventTyped ==
  ASSUME EventsInv, NEW i \in 1..Len(events)
  PROVE  events[i] \in Event /\ events[i].at \in Nat /\ events[i].at <= applied
  <1>1. events[i] \in Event
    BY ElementOfSeq DEF EventsInv
  <1>2. events[i].at \in Nat
    BY <1>1 DEF Event
  <1> QED
    BY <1>1, <1>2 DEF EventsInv

LEMMA PubInit == Init => PubInv
  BY DEF Init, PubInv, TodoInv, NothingToPublish, EventsInv, ReaderInv

(* The steps of the exchange, of the end of the actor and of the event     *)
(* queue's other end leave the message at hand and the readers alone.      *)
LEMMA AsideSteps ==
  ASSUME PubInv, ExchangeStep \/ ActorEnds \/ Dispatch \/ UNCHANGED vars
  PROVE  PubInv'
  <1>1. UNCHANGED <<acct, applied, todo, watch, readerVars>>
    BY DEF ExchangeStep, Place, FillOrder, EndOrder, Amend, ChangeLeverage, Snapshot, Send,
           ActorEnds, Dispatch, vars
  <1>2. events' = events \/ (events # <<>> /\ events' = Tail(events))
    BY DEF ExchangeStep, Place, FillOrder, EndOrder, Amend, ChangeLeverage, Snapshot, Send,
           ActorEnds, Dispatch, vars
  <1>3. NothingToPublish' <=> NothingToPublish
    BY <1>1 DEF NothingToPublish, Now
  <1>4. TodoInv'
    BY <1>1, <1>3 DEF PubInv, TodoInv, Now, Publish
  <1>5. EventsInv'
    <2>1. CASE events' = events
      BY <1>1, <1>3, <2>1 DEF PubInv, EventsInv
    <2>2. CASE events # <<>> /\ events' = Tail(events)
      <3>1. /\ events' \in Seq(Event)
            /\ \A i \in 1..Len(events') : i + 1 \in 1..Len(events) /\ events'[i] = events[i + 1]
        BY <2>2, HeadTailProperties, LenProperties DEF PubInv, EventsInv
      <3> QED
        BY <1>1, <1>3, <3>1 DEF PubInv, EventsInv
    <2> QED
      BY <1>2, <2>1, <2>2
  <1>6. ReaderInv'
    BY <1>1 DEF PubInv, ReaderInv
  <1> QED
    BY <1>4, <1>5, <1>6 DEF PubInv

(* A message is applied: its steps are those of its kind.                  *)
LEMMA HandleSteps ==
  ASSUME PubInv, HandleAccount
  PROVE  PubInv'
  <1>1. /\ todo = <<>> /\ applied \in Nat /\ applied' = applied + 1
        /\ UNCHANGED <<watch, events, readerVars>>
    BY DEF HandleAccount, PubInv, EventsInv
  <1> DEFINE E(k) == [do |-> "emit", kind |-> k, at |-> applied + 1]
  <1>2. \/ acct' = acct /\ todo' = <<>>
        \/ \E k \in Kinds \ Late : todo' = <<E(k), Publish>>
        \/ \E k \in Late : todo' = <<Publish, E(k)>>
    BY DEF HandleAccount, HandleSnapshot, HandleOrderUpdate, HandleMargin, HandlePosition, HandleFill,
           HandleLeverage, Apply, Emits, Kinds, Late
  <1>3. \A k \in Kinds : E(k) \in Event /\ E(k).at = applied' /\ E(k).kind = k
    BY <1>1 DEF Event
  <1>4. watch.state = acct
    BY <1>1 DEF PubInv, TodoInv, NothingToPublish, Publish
  <1>5. TodoInv'
    <2>1. CASE acct' = acct /\ todo' = <<>>
      BY <1>1, <1>4, <2>1 DEF TodoInv, NothingToPublish
    <2>2. ASSUME NEW k \in Kinds \ Late, todo' = <<E(k), Publish>> PROVE TodoInv'
      BY <1>3, <2>2 DEF TodoInv, Now, Publish
    <2>3. ASSUME NEW k \in Late, todo' = <<Publish, E(k)>> PROVE TodoInv'
      BY <1>3, <2>3 DEF TodoInv, Now, Publish, Late, Kinds
    <2> QED
      BY <1>2, <2>1, <2>2, <2>3
  <1>6. EventsInv'
    <2>1. \A i \in 1..Len(events) : events[i].at \in Nat /\ events[i].at <= applied
      BY EventTyped DEF PubInv
    <2> QED
      BY <1>1, <2>1 DEF PubInv, EventsInv
  <1>7. ReaderInv'
    BY <1>1 DEF PubInv, ReaderInv
  <1> QED
    BY <1>5, <1>6, <1>7 DEF PubInv

LEMMA PublishStep ==
  ASSUME PubInv, PublishAccount
  PROVE  PubInv'
  <1>1. /\ todo # <<>> /\ Head(todo) = Publish /\ todo' = Tail(todo)
        /\ watch' = [state |-> acct, version |-> watch.version + 1]
        /\ UNCHANGED <<acct, applied, events, readerVars>>
    BY DEF PublishAccount
  <1>2. \A e \in Event : e # Publish
    BY DEF Event, Publish
  <1>3. NothingToPublish'
    <2>1. CASE todo = <<Publish>>
      BY <1>1, <2>1 DEF NothingToPublish
    <2>2. ASSUME NEW e \in Event, Now(e), todo = <<Publish, e>> PROVE NothingToPublish'
      BY <1>1, <2>2 DEF NothingToPublish, Now
    <2>3. ASSUME NEW e \in Event, todo = <<e>> \/ todo = <<e, Publish>> PROVE FALSE
      BY <1>1, <1>2, <2>3
    <2> QED
      BY <1>1, <2>1, <2>2, <2>3 DEF PubInv, TodoInv, NothingToPublish
  <1>4. TodoInv'
    BY <1>1, <1>3 DEF TodoInv
  <1>5. EventsInv'
    BY <1>1, <1>3 DEF PubInv, EventsInv
  <1>6. ReaderInv'
    BY <1>1 DEF PubInv, ReaderInv
  <1> QED
    BY <1>4, <1>5, <1>6 DEF PubInv

LEMMA EmitStep ==
  ASSUME PubInv, EmitEvent
  PROVE  PubInv'
  <1> DEFINE h == Head(todo)
  <1>1. /\ todo # <<>> /\ h.do = "emit" /\ todo' = Tail(todo)
        /\ events' = events \/ events' = Append(events, h)
        /\ UNCHANGED <<acct, applied, watch, readerVars>>
    BY DEF EmitEvent
  <1>2. /\ h # Publish
    BY <1>1 DEF Publish
  <1>3. \/ Now(h) /\ h.kind \notin Late /\ todo' = <<Publish>>
        \/ Now(h) /\ todo' = <<>> /\ watch.state = acct
    <2>1. ASSUME NEW e \in Event, Now(e), todo = <<e>>, watch.state = acct
          PROVE  Now(h) /\ todo' = <<>> /\ watch.state = acct
      BY <1>1, <2>1 DEF Now
    <2>2. ASSUME NEW e \in Event, Now(e), e.kind \notin Late, todo = <<e, Publish>>
          PROVE  Now(h) /\ h.kind \notin Late /\ todo' = <<Publish>>
      BY <1>1, <2>2 DEF Now
    <2>3. ASSUME NEW e \in Event, todo = <<Publish, e>>
          PROVE  FALSE
      BY <1>1, <1>2, <2>3
    <2>4. CASE todo = <<Publish>>
      BY <1>1, <1>2, <2>4
    <2> HIDE DEF h
    <2> QED
      BY <1>1, <2>1, <2>2, <2>3, <2>4 DEF PubInv, TodoInv, NothingToPublish
  <1>4. TodoInv'
    BY <1>1, <1>3 DEF TodoInv, NothingToPublish, Publish
  <1>5. NothingToPublish => todo' = <<>>
    BY <1>1 DEF NothingToPublish
  <1>6. EventsInv'
    <2>1. CASE events' = events
      BY <1>1, <1>5, <2>1 DEF PubInv, EventsInv, NothingToPublish
    <2>2. CASE events' = Append(events, h)
      <3>1. /\ h \in Event /\ events \in Seq(Event) /\ applied \in Nat
        BY <1>3 DEF Now, PubInv, EventsInv
      <3>2. /\ events' \in Seq(Event) /\ Len(events') = Len(events) + 1
            /\ \A i \in 1..Len(events) : events'[i] = events[i]
            /\ events'[Len(events) + 1] = h
        BY <2>2, <3>1, AppendProperties
      <3>3. h.at <= applied' /\ (h.kind \in Late => NothingToPublish')
        BY <1>1, <1>3, <3>1 DEF Now, NothingToPublish
      <3> QED
        BY <1>1, <1>5, <3>1, <3>2, <3>3, LenProperties DEF PubInv, EventsInv, NothingToPublish
    <2> QED
      BY <1>1, <2>1, <2>2
  <1>7. ReaderInv'
    BY <1>1 DEF PubInv, ReaderInv
  <1> QED
    BY <1>4, <1>6, <1>7 DEF PubInv

LEMMA ReaderSteps ==
  ASSUME PubInv, NEW t \in Readers, ReaderStep(t)
  PROVE  PubInv'
  <1>1. UNCHANGED <<acct, applied, todo, watch, events>>
    BY DEF ReaderStep, WaitChanged, WaitNext, Wake, Read
  <1>2. NothingToPublish' <=> NothingToPublish
    BY <1>1 DEF NothingToPublish, Now
  <1>3. TodoInv' /\ EventsInv'
    BY <1>1, <1>2 DEF PubInv, TodoInv, EventsInv, Now, Publish
  <1>4. ReaderInv'
    <2>1. CASE WaitChanged(t)
      BY <2>1 DEF WaitChanged, PubInv, ReaderInv
    <2>2. CASE WaitNext(t)
      BY <2>2 DEF WaitNext, PubInv, ReaderInv
    <2>3. CASE Wake(t)
      BY <2>3 DEF Wake, PubInv, ReaderInv
    <2>4. CASE Read(t)
      BY <2>4 DEF Read, PubInv, ReaderInv
    <2> QED
      BY <2>1, <2>2, <2>3, <2>4 DEF ReaderStep
  <1> QED
    BY <1>3, <1>4 DEF PubInv

LEMMA PubStep == PubInv /\ [Next]_vars => PubInv'
  BY AsideSteps, HandleSteps, PublishStep, EmitStep, ReaderSteps DEF Next

LEMMA PubAlways == Spec => []PubInv
  BY PubInit, PubStep, PTL DEF Spec

(* Between messages the watch channel holds the actor's own account, after *)
(* every kind of message, a partly parsed snapshot included.               *)
THEOREM Published == Spec => []PublishedIsCurrent
  <1>1. PubInv => PublishedIsCurrent
    BY DEF PubInv, TodoInv, NothingToPublish, Publish, PublishedIsCurrent
  <1> QED
    BY <1>1, PubAlways, PTL

(* Fill and margin events are queued only after the publication that shows *)
(* the change, also when the channel is full and events are lost.          *)
THEOREM PublishedBeforeEvents == Spec => []EventsAfterPublication
  <1>1. ASSUME PubInv, NEW i \in 1..Len(events), events[i].kind \in {"Fill", "MarginUpdate"}
        PROVE  events[i].at < applied \/ \A j \in 1..Len(todo) : todo[j] # Publish
    <2>1. events[i] \in Event /\ events[i].at \in Nat /\ applied \in Nat
      BY <1>1, EventTyped DEF PubInv, EventsInv
    <2>2. events[i].at < applied \/ NothingToPublish
      BY <1>1, <2>1 DEF PubInv, EventsInv, Late
    <2>3. NothingToPublish => \A j \in 1..Len(todo) : todo[j] # Publish
      BY DEF NothingToPublish, Event, Publish
    <2> QED
      BY <2>2, <2>3
  <1>2. PubInv => EventsAfterPublication
    BY <1>1 DEF EventsAfterPublication
  <1> QED
    BY <1>2, PubAlways, PTL

(* wait_next_account_update() returns a publication that is later than the *)
(* one current at its first poll.                                          *)
THEOREM NextLater == Spec => NextIsLater
  <1>1. ASSUME PubInv, [Next]_vars, NEW t \in Readers, reader[t] = "readNext", reader'[t] = "idle"
        PROVE  got'[t] > mark[t]
    <2>1. \E u \in Readers : Read(u) \/ Wake(u) \/ WaitChanged(u) \/ WaitNext(u)
      BY <1>1 DEF Next, vars, ReaderStep, ExchangeStep, Place, FillOrder, EndOrder, Amend,
                  ChangeLeverage, Snapshot, Send, HandleAccount, PublishAccount, EmitEvent,
                  ActorEnds, Dispatch
    <2>2. Read(t)
      BY <1>1, <2>1 DEF PubInv, ReaderInv, Read, Wake, WaitChanged, WaitNext
    <2> QED
      BY <1>1, <2>2 DEF PubInv, ReaderInv, Read
  <1>2. PubInv /\ [Next]_vars =>
          [\A t \in Readers : reader[t] = "readNext" /\ reader'[t] = "idle" => got'[t] > mark[t]]_vars
    BY <1>1
  <1> QED
    BY <1>2, PubAlways, PTL DEF Spec, NextIsLater
-----------------------------------------------------------------------------
(* The account of the exchange.  What the actor will make of the messages  *)
(* in flight is written as the path of views of SharedLemmas.  The invariant *)
(* is that the last of them agrees with the exchange.                      *)

View == [acct |-> acct, unread |-> unread]

(* The orders after a fill, as HandleFill makes them.                      *)
Reduced(orders, m) ==
  LET left == orders[m.order] - m.dir * m.size
  IN IF m.order \notin DOMAIN orders THEN orders
     ELSE IF left * m.dir <= 0 THEN Without(orders, m.order)
     ELSE [orders EXCEPT ![m.order] = left]

Updated(orders, m) ==
  IF IsTerminal(m.status) THEN Without(orders, m.order) ELSE With(orders, m.order, m.sz)

(* The view after one message.                                             *)
Effect(v, m) ==
  CASE m.type = "accountSnapshot" ->
         [acct |-> [p \in Parts |-> IF p \in m.bad THEN v.acct[p] ELSE m.state[p]],
          unread |-> v.unread \cap m.bad]
    [] m.type = "orderUpdate" ->
         IF m.status \in KnownStatuses
         THEN [acct |-> [v.acct EXCEPT !.orders = Updated(@, m)], unread |-> v.unread]
         ELSE [acct |-> v.acct, unread |-> v.unread \cup {"orders"}]
    [] m.type = "marginUpdate" ->
         [acct |-> [v.acct EXCEPT !.margin = m.margin], unread |-> v.unread]
    [] m.type = "positionUpdate" ->
         [acct |-> [v.acct EXCEPT !.positions = m.position], unread |-> v.unread]
    [] m.type = "fill" ->
         [acct |-> [v.acct EXCEPT !.orders = Reduced(@, m)], unread |-> v.unread]
    [] m.type = "leverageUpdate" ->
         [acct |-> [v.acct EXCEPT !.leverage = m.leverage], unread |-> v.unread]

INSTANCE SharedLemmas

(* A view agrees with an account when its readable parts are the account's. *)
Agrees(v, account) ==
  /\ v.acct = [p \in Parts |-> v.acct[p]]
  /\ \A p \in Parts \ v.unread : v.acct[p] = account[p]

(* The orders of the exchange have a size, of the sign of their side.      *)
ExchInv ==
  /\ exch = [p \in Parts |-> exch[p]]
  /\ exch.orders = [o \in DOMAIN exch.orders |-> exch.orders[o]]
  /\ \A o \in DOMAIN exch.orders : exch.orders[o] \in Int /\ Dir(o) * exch.orders[o] > 0

MirrorInv ==
  /\ ExchInv
  /\ IsSeq(inbox)
  /\ \E w : Leads(View, inbox, w) /\ Agrees(w, exch)

(* Messages that take a view of the old account to one of the new account  *)
(* keep the invariant.                                                     *)
LEMMA SendKeeps ==
  ASSUME MirrorInv, ExchInv', NEW account, NEW msgs, IsSeq(msgs), Send(account, msgs),
         \A w : Agrees(w, exch) => \E x : Leads(w, msgs, x) /\ Agrees(x, account)
  PROVE  MirrorInv'
  <1>1. PICK w : Leads(View, inbox, w) /\ Agrees(w, exch)
    BY DEF MirrorInv
  <1>2. IsSeq(inbox)
    BY DEF MirrorInv
  <1>3. exch' = account /\ inbox' = inbox \o msgs /\ View' = View
    BY DEF Send, View
  <1>4. PICK x : Leads(w, msgs, x) /\ Agrees(x, account)
    BY <1>1
  <1>5. Leads(View, inbox', x) /\ IsSeq(inbox')
    BY <1>1, <1>2, <1>3, <1>4, LeadsConcat, SeqConcat
  <1> QED
    BY <1>3, <1>4, <1>5 DEF MirrorInv

LEMMA SendOne ==
  ASSUME MirrorInv, ExchInv', NEW account, NEW m, Send(account, <<m>>),
         \A w : Agrees(w, exch) => Agrees(Effect(w, m), account)
  PROVE  MirrorInv'
  <1>1. IsSeq(<<m>>) /\ \A w : Leads(w, <<m>>, Effect(w, m))
    BY LeadsFew
  <1> QED
    BY <1>1, SendKeeps

-----------------------------------------------------------------------------
(* The messages of each change of the exchange take a view that agrees     *)
(* with the account before it to one that agrees with it after.            *)

LEMMA WithFacts ==
  ASSUME NEW f, f = [x \in DOMAIN f |-> f[x]], NEW o
  PROVE  /\ Without(Without(f, o), o) = Without(f, o)
         /\ \A a, b : With(With(f, o, a), o, b) = With(f, o, b)
         /\ o \in DOMAIN f => \A a : [f EXCEPT ![o] = a] = With(f, o, a)
         /\ \A a : Without(With(f, o, a), o) = Without(f, o)
  BY DEF With, Without

LEMMA OrderAgrees ==
  ASSUME NEW v, NEW account, Agrees(v, account), account = [p \in Parts |-> account[p]],
         NEW o, NEW status, NEW sz,
         NEW orders, status \in KnownStatuses => orders = Updated(account.orders, OrderMsg(o, status, sz))
  PROVE  Agrees(Effect(v, OrderMsg(o, status, sz)), [account EXCEPT !.orders = orders])
  <1> DEFINE m == OrderMsg(o, status, sz)
             e == Effect(v, m)
  <1>0. m.type = "orderUpdate" /\ m.status = status /\ m.sz = sz /\ m.order = o
    BY DEF OrderMsg
  <1>1. CASE status \in KnownStatuses
    <2>1. e = [acct |-> [v.acct EXCEPT !.orders = Updated(@, m)], unread |-> v.unread]
      BY <1>0, <1>1 DEF Effect
    <2>2. v.acct = [p \in Parts |-> v.acct[p]] /\ "orders" \in Parts
      BY DEF Agrees, Parts
    <2>3. /\ e.acct = [v.acct EXCEPT !.orders = Updated(v.acct.orders, m)]
          /\ e.unread = v.unread
      BY <2>1
    <2>4. "orders" \notin v.unread => v.acct.orders = account.orders
      BY <2>2 DEF Agrees
    <2> HIDE DEF e, m
    <2>5. e.acct = [p \in Parts |-> e.acct[p]]
      BY <2>2, <2>3
    <2>6. ASSUME NEW p \in Parts \ v.unread
          PROVE  e.acct[p] = [account EXCEPT !.orders = orders][p]
      BY <1>1, <2>2, <2>3, <2>4, <2>6 DEF Agrees, m
    <2> QED
      BY <2>3, <2>5, <2>6 DEF Agrees, e, m
  <1>2. CASE status \notin KnownStatuses
    <2>1. e = [acct |-> v.acct, unread |-> v.unread \cup {"orders"}]
      BY <1>0, <1>2 DEF Effect
    <2> QED
      BY <2>1 DEF Agrees
  <1> QED
    BY <1>1, <1>2

LEMMA SnapshotAgrees ==
  ASSUME NEW v, NEW account, Agrees(v, account), NEW B,
         NEW m, m = [type |-> "accountSnapshot", state |-> account, bad |-> B]
  PROVE  Agrees(Effect(v, m), account)
  <1>1. Effect(v, m) = [acct |-> [p \in Parts |-> IF p \in B THEN v.acct[p] ELSE account[p]],
                        unread |-> v.unread \cap B]
    BY DEF Effect
  <1> QED
    BY <1>1 DEF Agrees

(* A message with the new value of a part.                                 *)
LEMMA PartAgrees ==
  ASSUME NEW v, NEW account, Agrees(v, account), account = [p \in Parts |-> account[p]], NEW x
  PROVE  /\ Agrees(Effect(v, [type |-> "marginUpdate", margin |-> x]),
                   [account EXCEPT !.margin = x])
         /\ Agrees(Effect(v, [type |-> "positionUpdate", position |-> x]),
                   [account EXCEPT !.positions = x])
         /\ Agrees(Effect(v, [type |-> "leverageUpdate", leverage |-> x]),
                   [account EXCEPT !.leverage = x])
  <1> DEFINE a(p) == [acct |-> [v.acct EXCEPT ![p] = x], unread |-> v.unread]
  <1>1. \A p \in Parts : Agrees(a(p), [account EXCEPT ![p] = x])
    BY DEF Agrees
  <1>2. Effect(v, [type |-> "marginUpdate", margin |-> x]) = a("margin")
    BY DEF Effect
  <1>3. Effect(v, [type |-> "positionUpdate", position |-> x]) = a("positions")
    BY DEF Effect
  <1>4. Effect(v, [type |-> "leverageUpdate", leverage |-> x]) = a("leverage")
    BY DEF Effect
  <1>5. "margin" \in Parts /\ "positions" \in Parts /\ "leverage" \in Parts
    BY DEF Parts
  <1> QED
    BY <1>1, <1>2, <1>3, <1>4, <1>5

(* A fill that leaves nothing of the order takes it away, and one that     *)
(* leaves a part of it sets its size.                                      *)
LEMMA FillAgrees ==
  ASSUME NEW v, Agrees(v, exch), ExchInv, NEW o \in DOMAIN exch.orders, NEW n \in Nat \ {0},
         n <= Dir(o) * exch.orders[o],
         NEW m, m = [type |-> "fill", order |-> o, size |-> n, dir |-> Dir(o)],
         NEW left, left = exch.orders[o] - Dir(o) * n
  PROVE  Agrees(Effect(v, m),
                [exch EXCEPT !.orders = IF left = 0 THEN Without(@, o) ELSE With(@, o, left)])
  <1> DEFINE orders == IF left = 0 THEN Without(exch.orders, o) ELSE With(exch.orders, o, left)
             e == Effect(v, m)
  <1>1. Dir(o) = 1 \/ Dir(o) = -1
    BY DEF Dir
  <1>2. exch.orders[o] \in Int /\ exch.orders = [x \in DOMAIN exch.orders |-> exch.orders[x]]
    BY DEF ExchInv
  <1>3. left * Dir(o) <= 0 <=> left = 0
    BY <1>1, <1>2
  <1>4. Reduced(exch.orders, m) = orders
    <2>1. m.order = o /\ m.dir = Dir(o) /\ m.size = n
      OBVIOUS
    <2>2. Reduced(exch.orders, m) = IF left * Dir(o) <= 0 THEN Without(exch.orders, o)
                                    ELSE [exch.orders EXCEPT ![o] = left]
      BY <2>1 DEF Reduced
    <2>3. [exch.orders EXCEPT ![o] = left] = With(exch.orders, o, left)
      BY <1>2 DEF With
    <2> QED
      BY <1>3, <2>2, <2>3
  <1>5. e = [acct |-> [v.acct EXCEPT !.orders = Reduced(@, m)], unread |-> v.unread]
    BY DEF Effect
  <1>6. v.acct = [p \in Parts |-> v.acct[p]] /\ "orders" \in Parts /\ exch = [p \in Parts |-> exch[p]]
    BY DEF Agrees, Parts, ExchInv
  <1>7. /\ e.acct = [v.acct EXCEPT !.orders = Reduced(v.acct.orders, m)]
        /\ e.unread = v.unread
    BY <1>5
  <1>8. "orders" \notin v.unread => Reduced(v.acct.orders, m) = orders
    BY <1>4, <1>6 DEF Agrees
  <1> HIDE DEF e, orders
  <1>9. e.acct = [p \in Parts |-> e.acct[p]]
    BY <1>6, <1>7
  <1>10. ASSUME NEW p \in Parts \ v.unread PROVE e.acct[p] = [exch EXCEPT !.orders = orders][p]
    BY <1>6, <1>7, <1>8, <1>10 DEF Agrees
  <1>11. Agrees(e, [exch EXCEPT !.orders = orders])
    BY <1>7, <1>9, <1>10 DEF Agrees
  <1> QED
    BY <1>11 DEF e, orders

(* One exchange step at a time.                                            *)
LEMMA ExchangeMirrors ==
  ASSUME MirrorInv, ExchangeStep
  PROVE  MirrorInv'
  <1>0. ExchInv /\ exch = [p \in Parts |-> exch[p]] /\ "orders" \in Parts
    BY DEF MirrorInv, ExchInv, Parts
  <1> DEFINE R(os) == [exch EXCEPT !.orders = os]
  <1>1. ASSUME NEW o \in Orders, NEW n \in Sizes, Place(o, n) \/ Amend(o, n) PROVE MirrorInv'
    <2> DEFINE m == OrderMsg(o, "resting", Dir(o) * n)
               os == With(exch.orders, o, Dir(o) * n)
    <2>1. Send(R(os), <<m>>)
      BY <1>1 DEF Place, Amend
    <2>2. n \in Nat \ {0} /\ (Dir(o) = 1 \/ Dir(o) = -1)
      BY <1>1, AccountAssumption DEF Sizes, Dir
    <2>3. ExchInv'
      <3>1. exch' = R(os)
        BY <2>1 DEF Send
      <3>2. Dir(o) * n \in Int /\ Dir(o) * (Dir(o) * n) > 0
        BY <2>2
      <3> QED
        BY <1>0, <3>1, <3>2 DEF ExchInv, With
    <2>4. os = Updated(exch.orders, m)
      BY DEF Updated, OrderMsg, IsTerminal, LiveStatuses
    <2>5. \A v : Agrees(v, exch) => Agrees(Effect(v, m), R(os))
      BY <1>0, <2>4, OrderAgrees
    <2> HIDE DEF m, os
    <2> QED
      BY <2>1, <2>3, <2>5, SendOne
  <1>2. ASSUME NEW o \in Orders, NEW status \in EndStatuses, EndOrder(o, status) PROVE MirrorInv'
    <2> DEFINE m == OrderMsg(o, status, exch.orders[o])
               os == Without(exch.orders, o)
    <2>1. Send(R(os), <<m>>)
      BY <1>2 DEF EndOrder
    <2>2. ExchInv'
      BY <1>0, <2>1 DEF Send, ExchInv, Without
    <2>3. os = Updated(exch.orders, m)
      BY AccountAssumption DEF Updated, OrderMsg, IsTerminal
    <2>4. \A v : Agrees(v, exch) => Agrees(Effect(v, m), R(os))
      BY <1>0, <2>3, OrderAgrees
    <2> HIDE DEF m, os
    <2> QED
      BY <2>1, <2>2, <2>4, SendOne
  <1>3. ASSUME ChangeLeverage PROVE MirrorInv'
    <2> DEFINE x == exch.leverage + 1
               m == [type |-> "leverageUpdate", leverage |-> x]
    <2>1. Send([exch EXCEPT !.leverage = x], <<m>>)
      BY <1>3 DEF ChangeLeverage
    <2>2. ExchInv'
      BY <1>0, <2>1 DEF Send, ExchInv, Parts
    <2>3. \A v : Agrees(v, exch) => Agrees(Effect(v, m), [exch EXCEPT !.leverage = x])
      BY <1>0, PartAgrees
    <2> HIDE DEF m, x
    <2> QED
      BY <2>1, <2>2, <2>3, SendOne
  <1>4. ASSUME Snapshot PROVE MirrorInv'
    <2>1. PICK B \in SUBSET BadParts :
            Send(exch, <<[type |-> "accountSnapshot", state |-> exch, bad |-> B]>>)
      BY <1>4 DEF Snapshot
    <2> DEFINE m == [type |-> "accountSnapshot", state |-> exch, bad |-> B]
    <2>2. ExchInv'
      BY <1>0, <2>1 DEF Send, ExchInv
    <2>3. \A v : Agrees(v, exch) => Agrees(Effect(v, m), exch)
      BY SnapshotAgrees
    <2> HIDE DEF m
    <2> QED
      BY <2>1, <2>2, <2>3, SendOne DEF m
  <1>5. ASSUME NEW o \in Orders, NEW n \in Sizes, FillOrder(o, n) PROVE MirrorInv'
    <2> DEFINE left == exch.orders[o] - Dir(o) * n
               os == IF left = 0 THEN Without(exch.orders, o) ELSE With(exch.orders, o, left)
               f == [type |-> "fill", order |-> o, size |-> n, dir |-> Dir(o)]
               pos == exch.positions + Dir(o) * n
               mar == exch.margin + 1
               account == [exch EXCEPT !.margin = mar, !.positions = pos, !.orders = os]
               pm == [type |-> "positionUpdate", position |-> pos]
               mm == [type |-> "marginUpdate", margin |-> mar]
               status == IF left = 0 THEN "filled" ELSE "working"
               u == OrderMsg(o, status, left)
               e1 == R(os)
               e2 == [e1 EXCEPT !.positions = pos]
               update == IF left = 0 THEN <<OrderMsg(o, "filled", 0)>>
                         ELSE IF WorkingUpdate THEN <<OrderMsg(o, "working", left)>> ELSE <<>>
               msgs == <<f>> \o update \o <<pm, mm>>
    <2>1. /\ o \in DOMAIN exch.orders /\ n <= Dir(o) * exch.orders[o] /\ n \in Nat \ {0}
          /\ exch.orders[o] \in Int /\ left \in Int
      <3>1. o \in DOMAIN exch.orders /\ n <= Dir(o) * exch.orders[o]
        BY <1>5 DEF FillOrder
      <3>2. n \in Nat \ {0}
        BY <1>5, AccountAssumption DEF Sizes
      <3>3. exch.orders[o] \in Int
        BY <1>0, <3>1 DEF ExchInv
      <3> QED
        BY <3>1, <3>2, <3>3 DEF Dir
    <2>2. Dir(o) = 1 \/ Dir(o) = -1
      BY DEF Dir
    <2>3. account.margin = mar /\ account.positions = pos /\ account = [e2 EXCEPT !.margin = mar]
      BY <1>0 DEF Parts
    <2>4. Send(account, msgs)
      <3>1. PositionMsg(account) = pm /\ MarginMsg(account) = mm
        BY <2>3 DEF PositionMsg, MarginMsg
      <3>2. Send(account, <<f>> \o update \o <<PositionMsg(account), MarginMsg(account)>>)
        BY <1>5 DEF FillOrder
      <3> QED
        BY <3>1, <3>2
    <2>5. update = <<>> \/ update = <<u>>
      BY DEF OrderMsg
    <2>6. \A v : Agrees(v, exch) => Agrees(Effect(v, f), e1)
      BY <1>0, <2>1, FillAgrees
    <2>7. \A v : Agrees(v, e1) => Agrees(Effect(v, u), e1)
      <3>1. status \in KnownStatuses /\ IsTerminal("filled") /\ ~ IsTerminal("working")
        BY DEF KnownStatuses, IsTerminal, LiveStatuses
      <3>2. e1.orders = os /\ [e1 EXCEPT !.orders = os] = e1 /\ e1 = [p \in Parts |-> e1[p]]
        BY <1>0
      <3>3. exch.orders = [x \in DOMAIN exch.orders |-> exch.orders[x]]
        BY <1>0 DEF ExchInv
      <3>4. os = Updated(os, u)
        BY <3>1, <3>3 DEF Updated, OrderMsg, With, Without
      <3> HIDE DEF u, os, e1, status
      <3>5. ASSUME NEW v, Agrees(v, e1) PROVE Agrees(Effect(v, u), e1)
        <4>1. Agrees(Effect(v, u), [e1 EXCEPT !.orders = os])
          BY <3>2, <3>4, <3>5, OrderAgrees DEF u
        <4> QED
          BY <3>2, <4>1
      <3> QED
        BY <3>5
    <2>8. e1 = [p \in Parts |-> e1[p]] /\ e2 = [p \in Parts |-> e2[p]]
      BY <1>0
    <2>9. ExchInv'
      <3>1. exch' = account /\ account.orders = os /\ account = [p \in Parts |-> account[p]]
        BY <1>0, <2>4 DEF Send, Parts
      <3>2. left # 0 => Dir(o) * left > 0
        BY <2>1, <2>2
      <3>3. /\ os = [x \in DOMAIN os |-> os[x]]
            /\ \A x \in DOMAIN os : os[x] \in Int /\ Dir(x) * os[x] > 0
        BY <1>0, <2>1, <3>2 DEF ExchInv, With, Without
      <3> HIDE DEF account, os
      <3> QED
        BY <3>1, <3>3 DEF ExchInv
    <2> HIDE DEF f, u, e1, e2, update, pm, mm, account, pos, mar
    <2>10. ASSUME NEW w, Agrees(w, exch) PROVE \E x : Leads(w, msgs, x) /\ Agrees(x, account)
      <3> DEFINE w1 == Effect(w, f)
      <3>1. Agrees(w1, e1) /\ Leads(w, <<f>>, w1) /\ IsSeq(<<f>>)
        BY <2>6, <2>10, LeadsFew
      <3> HIDE DEF w1
      <3>2. PICK w2 : Leads(w1, update, w2) /\ Agrees(w2, e1)
        BY <2>5, <2>7, <3>1, LeadsFew
      <3>3. IsSeq(update)
        BY <2>5, LeadsFew
      <3> DEFINE w3 == Effect(w2, pm)
                 w4 == Effect(w3, mm)
      <3>4. Agrees(w3, e2)
        BY <2>8, <3>2, PartAgrees DEF e2, pm
      <3>5. Agrees(w4, account)
        <4> HIDE DEF w3
        <4>1. Agrees(Effect(w3, mm), [e2 EXCEPT !.margin = mar])
          BY <2>8, <3>4, PartAgrees DEF mm
        <4> QED
          BY <2>3, <4>1
      <3>6. Leads(w2, <<pm, mm>>, w4) /\ IsSeq(<<pm, mm>>)
        BY LeadsFew
      <3> HIDE DEF w3, w4
      <3>7. Leads(w, <<f>> \o update, w2) /\ IsSeq(<<f>> \o update)
        BY <3>1, <3>2, <3>3, LeadsConcat, SeqConcat
      <3>8. Leads(w, msgs, w4)
        BY <3>3, <3>6, <3>7, LeadsConcat
      <3> QED
        BY <3>5, <3>8
    <2>11. IsSeq(msgs)
      <3>1. IsSeq(<<f>>) /\ IsSeq(update) /\ IsSeq(<<pm, mm>>)
        BY <2>5, LeadsFew
      <3> QED
        BY <3>1, SeqConcat
    <2> HIDE DEF msgs
    <2> QED
      BY <2>4, <2>9, <2>10, <2>11, SendKeeps
  <1> QED
    BY <1>1, <1>2, <1>3, <1>4, <1>5 DEF ExchangeStep

-----------------------------------------------------------------------------
(* The actor handles the first message: it takes the first step of the     *)
(* path.                                                                   *)

LEMMA HandleIsEffect ==
  ASSUME HandleAccount
  PROVE  View' = Effect(View, Head(inbox)) /\ inbox # <<>> /\ inbox' = Tail(inbox)
  <1> DEFINE m == Head(inbox)
  <1>1. inbox # <<>> /\ inbox' = Tail(inbox)
    BY DEF HandleAccount
  <1> HIDE DEF m
  <1>2. ASSUME HandleSnapshot(m) PROVE View' = Effect(View, m)
    BY <1>2 DEF HandleSnapshot, Apply, View, Effect
  <1>3. ASSUME HandleOrderUpdate(m) PROVE View' = Effect(View, m)
    BY <1>3 DEF HandleOrderUpdate, Apply, View, Effect, Updated
  <1>4. ASSUME HandleMargin(m) PROVE View' = Effect(View, m)
    BY <1>4 DEF HandleMargin, Apply, View, Effect
  <1>5. ASSUME HandlePosition(m) PROVE View' = Effect(View, m)
    BY <1>5 DEF HandlePosition, Apply, View, Effect
  <1>6. ASSUME HandleFill(m) PROVE View' = Effect(View, m)
    BY <1>6 DEF HandleFill, Apply, View, Effect, Reduced
  <1>7. ASSUME HandleLeverage(m) PROVE View' = Effect(View, m)
    BY <1>7 DEF HandleLeverage, Apply, View, Effect
  <1>8. \/ HandleSnapshot(m) \/ HandleOrderUpdate(m) \/ HandleMargin(m) \/ HandlePosition(m)
        \/ HandleFill(m) \/ HandleLeverage(m)
    BY DEF HandleAccount, m
  <1>9. View' = Effect(View, m)
    BY <1>2, <1>3, <1>4, <1>5, <1>6, <1>7, <1>8
  <1> QED
    BY <1>1, <1>9 DEF m

LEMMA MirrorInit == Init => MirrorInv
  <1> SUFFICES ASSUME Init PROVE MirrorInv
    OBVIOUS
  <1>1. PICK S \in SUBSET Orders :
          exch = [Default EXCEPT !.margin = 1, !.orders = [o \in S |-> Dir(o) * MaxSize]]
    BY DEF Init
  <1>2. PICK B \in SUBSET BadParts :
          inbox = <<[type |-> "accountSnapshot", state |-> exch, bad |-> B]>>
    BY DEF Init
  <1> DEFINE m == [type |-> "accountSnapshot", state |-> exch, bad |-> B]
  <1>3. exch.orders = [o \in S |-> Dir(o) * MaxSize] /\ exch = [p \in Parts |-> exch[p]]
    BY <1>1 DEF Default, Parts
  <1>4. ExchInv
    <2>1. \A o \in S : Dir(o) * MaxSize \in Int /\ Dir(o) * (Dir(o) * MaxSize) > 0
      BY AccountAssumption DEF Dir
    <2> QED
      BY <1>3, <2>1 DEF ExchInv
  <1>5. Effect(View, m) = [acct |-> [p \in Parts |-> IF p \in B THEN acct[p] ELSE exch[p]],
                           unread |-> Parts \cap B]
    BY DEF Effect, View, Init
  <1>6. Agrees(Effect(View, m), exch)
    BY <1>5 DEF Agrees
  <1>7. Leads(View, <<m>>, Effect(View, m)) /\ IsSeq(<<m>>)
    BY LeadsFew
  <1> HIDE DEF m
  <1> QED
    BY <1>2, <1>4, <1>6, <1>7 DEF MirrorInv, m

LEMMA MirrorStep ==
  ASSUME MirrorInv, [Next]_vars
  PROVE  MirrorInv'
  <1>1. CASE ExchangeStep
    BY <1>1, ExchangeMirrors
  <1>2. CASE HandleAccount
    <2>1. PICK w : Leads(View, inbox, w) /\ Agrees(w, exch)
      BY DEF MirrorInv
    <2>2. Leads(View', inbox', w) /\ IsSeq(inbox')
      BY <1>2, <2>1, HandleIsEffect, LeadsTail DEF MirrorInv
    <2>3. exch' = exch
      BY <1>2 DEF HandleAccount
    <2> QED
      BY <2>1, <2>2, <2>3 DEF MirrorInv, ExchInv
  <1>3. CASE \/ PublishAccount \/ EmitEvent \/ ActorEnds \/ Dispatch \/ UNCHANGED vars
             \/ \E t \in Readers : ReaderStep(t)
    <2>1. exch' = exch /\ inbox' = inbox /\ View' = View
      BY <1>3 DEF PublishAccount, EmitEvent, ActorEnds, Dispatch, ReaderStep, WaitChanged, WaitNext,
                  Wake, Read, vars, View
    <2> QED
      BY <2>1 DEF MirrorInv, ExchInv
  <1> QED
    BY <1>1, <1>2, <1>3 DEF Next

(* When every message is handled, each part of the client's account whose  *)
(* last news could be read is the exchange's: orders placed, amended,      *)
(* filled in parts and ended, positions, margin and leverage, after any    *)
(* sequence of changes and snapshots.                                      *)
THEOREM Mirrors == Spec => []MirrorsExchange
  <1>1. MirrorInv => MirrorsExchange
    <2> SUFFICES ASSUME MirrorInv, inbox = <<>>, NEW p \in Parts \ unread
                 PROVE  acct[p] = exch[p]
      BY DEF MirrorsExchange
    <2>1. PICK w : Leads(View, inbox, w) /\ Agrees(w, exch)
      BY DEF MirrorInv
    <2>2. w = View
      BY <2>1, LeadsNowhere
    <2> QED
      BY <2>1, <2>2 DEF Agrees, View
  <1> QED
    BY <1>1, MirrorInit, MirrorStep, PTL DEF Spec
=============================================================================
