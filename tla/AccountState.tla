---------------------------- MODULE AccountState ----------------------------
(***************************************************************************)
(* The Rust WebSocket client's copy of the account: the actor applies the  *)
(* account messages in the order of the socket, publishes the result on a  *)
(* watch channel and queues events for the dispatch task, while tasks that *)
(* hold the handle wait on the watch channel.  Source: handle_account and  *)
(* the wait_* methods of api-rust/src/api/bulk_ws.rs.                      *)
(*                                                                         *)
(* The exchange is the environment: the true account, and the messages it  *)
(* sends after each change.  One symbol stands for all; margin, leverage   *)
(* and approvals are version numbers, sizes are small signed integers.     *)
(***************************************************************************)
EXTENDS Integers, Sequences, FiniteSets

CONSTANTS
  Orders,         \* order ids
  Sells,          \* those that are sell orders
  MaxSize,        \* bound on the size of an order
  MaxChanges,     \* bound on the changes of the account
  EventCap,       \* capacity of the event channel (32768 in the code)
  Readers,        \* tasks that wait for account changes
  BadParts,       \* the parts of a snapshot that may fail to parse
  WorkingUpdate,  \* does an orderUpdate follow a partial fill?
  EndStatuses     \* the statuses the exchange ends an order with

(* The statuses of an order that the code takes for a live one.            *)
LiveStatuses == {"pending", "placed", "resting", "working"}

Parts == {"margin", "positions", "orders", "leverage", "approvals"}

ASSUME AccountAssumption ==
  /\ Sells \subseteq Orders
  /\ MaxSize \in Nat \ {0} /\ MaxChanges \in Nat /\ EventCap \in Nat \ {0}
  /\ BadParts \subseteq Parts
  /\ WorkingUpdate \in BOOLEAN
  /\ EndStatuses \cap LiveStatuses = {}

VARIABLES
  exch,      \* the account at the exchange
  used,      \* the order ids it has given
  changes,   \* how many changes it has made
  inbox,     \* the account messages in flight
  acct,      \* the actor's account_state
  applied,   \* how many messages the actor has applied
  unread,    \* history: the parts whose last news from the exchange was not readable
  todo,      \* what is left to do of the message being handled, in order
  watch,     \* the watch channel: the published state and its version
  events,    \* the event channel
  alive,     \* does the actor run?
  reader,    \* reader[t]: where a task is in a wait
  seen,      \* seen[t]: the version its receiver has marked seen
  mark,      \* mark[t]: the version at the first poll of its wait
  got        \* got[t]: the version of the state its last wait returned

exchVars   == <<exch, used, changes>>
readerVars == <<reader, seen, mark, got>>
vars == <<exchVars, inbox, acct, applied, unread, todo, watch, events, alive, readerVars>>

Dir(o)   == IF o \in Sells THEN -1 ELSE 1
Empty    == [o \in {} |-> 0]
With(f, o, v) == [x \in DOMAIN f \cup {o} |-> IF x = o THEN v ELSE f[x]]
Without(f, o) == [x \in DOMAIN f \ {o} |-> f[x]]
Default  == [margin |-> 0, positions |-> 0, orders |-> Empty, leverage |-> 0, approvals |-> 0]

(* The first message of the stream is the snapshot of an account that may  *)
(* already have an open order.                                             *)
Init ==
  /\ \E S \in {T \in SUBSET Orders : Cardinality(T) <= 1} :
       /\ exch = [Default EXCEPT !.margin = 1, !.orders = [o \in S |-> Dir(o) * MaxSize]]
       /\ used = S
  /\ changes = 0
  /\ \E B \in SUBSET BadParts :
       inbox = <<[type |-> "accountSnapshot", state |-> exch, bad |-> B]>>
  /\ acct = Default
  /\ applied = 0
  /\ unread = Parts
  /\ todo = <<>>
  /\ watch = [state |-> Default, version |-> 0]
  /\ events = <<>>
  /\ alive = TRUE
  /\ reader = [t \in Readers |-> "idle"]
  /\ seen = [t \in Readers |-> 0]
  /\ mark = [t \in Readers |-> 0]
  /\ got = [t \in Readers |-> 0]

-----------------------------------------------------------------------------
(* The exchange (external).                                                *)

Send(account, msgs) ==
  /\ changes < MaxChanges
  /\ changes' = changes + 1
  /\ exch' = account
  /\ inbox' = inbox \o msgs
  /\ UNCHANGED <<acct, applied, unread, todo, watch, events, alive, readerVars>>

OrderMsg(o, status, sz) == [type |-> "orderUpdate", order |-> o, status |-> status, sz |-> sz]
MarginMsg(account)   == [type |-> "marginUpdate", margin |-> account.margin]
PositionMsg(account) == [type |-> "positionUpdate", position |-> account.positions]

Place(o, n) ==
  /\ o \notin used
  /\ used' = used \cup {o}
  /\ Send([exch EXCEPT !.orders = With(@, o, Dir(o) * n)],
          <<OrderMsg(o, "resting", Dir(o) * n)>>)

(* A fill is reported first, then the order when it has one, the position  *)
(* and the margin.                                                         *)
FillOrder(o, n) ==
  /\ o \in DOMAIN exch.orders
  /\ n <= Dir(o) * exch.orders[o]
  /\ LET left == exch.orders[o] - Dir(o) * n
         account == [exch EXCEPT !.margin = @ + 1,
                                 !.positions = @ + Dir(o) * n,
                                 !.orders = IF left = 0 THEN Without(@, o)
                                                        ELSE With(@, o, left)]
         update == IF left = 0 THEN <<OrderMsg(o, "filled", 0)>>
                   ELSE IF WorkingUpdate THEN <<OrderMsg(o, "working", left)>> ELSE <<>>
     IN Send(account, <<[type |-> "fill", order |-> o, size |-> n, dir |-> Dir(o)]>>
                        \o update \o <<PositionMsg(account), MarginMsg(account)>>)
  /\ UNCHANGED used

EndOrder(o, status) ==
  /\ o \in DOMAIN exch.orders
  /\ Send([exch EXCEPT !.orders = Without(@, o)], <<OrderMsg(o, status, exch.orders[o])>>)
  /\ UNCHANGED used

(* An amended order is reported with a status of a live one; the code      *)
(* counts "modified" as terminal.                                          *)
Amend(o, n) ==
  /\ o \in DOMAIN exch.orders
  /\ Send([exch EXCEPT !.orders = With(@, o, Dir(o) * n)],
          <<OrderMsg(o, "resting", Dir(o) * n)>>)
  /\ UNCHANGED used

ChangeLeverage ==
  /\ Send([exch EXCEPT !.leverage = @ + 1],
          <<[type |-> "leverageUpdate", leverage |-> exch.leverage + 1]>>)
  /\ UNCHANGED used

(* A further subscription to the account stream brings a snapshot.         *)
Snapshot ==
  /\ \E B \in SUBSET BadParts :
       Send(exch, <<[type |-> "accountSnapshot", state |-> exch, bad |-> B]>>)
  /\ UNCHANGED used

-----------------------------------------------------------------------------
(* The actor.                                                              *)

KnownStatuses ==
  {"pending", "placed", "resting", "working", "modified", "filled", "partiallyFilled",
   "cancelled", "canceled", "canceledRiskLimit", "cancelledRiskLimit", "canceledSelfCrossing",
   "cancelledSelfCrossing", "canceledReduceOnly", "cancelledReduceOnly", "canceledIOC",
   "cancelledIOC", "rejectedInvalid", "rejectedRiskLimit", "rejectedCrossing",
   "rejectedDuplicate", "triggered", "siblingCancelled", "triggerFailed"}

IsTerminal(status) == status \notin LiveStatuses

Publish    == [do |-> "publish"]
Emits(k)   == [do |-> "emit", kind |-> k, at |-> applied + 1]

(* The account becomes a; steps are still to come.                         *)
Apply(a, steps) ==
  /\ acct' = a
  /\ todo' = steps

(* Each part that parses replaces the actor's, the others are kept; the    *)
(* events go out first.                                                    *)
HandleSnapshot(m) ==
  /\ m.type = "accountSnapshot"
  /\ Apply([p \in Parts |-> IF p \in m.bad THEN acct[p] ELSE m.state[p]],
           <<Emits("Snapshot"), Publish>>)
  /\ unread' = unread \cap m.bad

(* Mutation: an order update is published with the next margin update.     *)
HandleOrderUpdateUnpublished(m) ==
  /\ m.type = "orderUpdate"
  /\ \/ /\ m.status \in KnownStatuses
        /\ Apply([acct EXCEPT !.orders = IF IsTerminal(m.status)
                                           THEN Without(@, m.order)
                                           ELSE With(@, m.order, m.sz)],
                 <<Emits("Order")>>)
        /\ UNCHANGED unread
     \/ /\ m.status \notin KnownStatuses
        /\ Apply(acct, <<>>)
        /\ unread' = unread \cup {"orders"}

(* An order whose status is not known is an update that does not parse.    *)
HandleOrderUpdate(m) ==
  /\ m.type = "orderUpdate"
  /\ \/ /\ m.status \in KnownStatuses
        /\ Apply([acct EXCEPT !.orders = IF IsTerminal(m.status)
                                           THEN Without(@, m.order)
                                           ELSE With(@, m.order, m.sz)],
                 <<Emits("Order"), Publish>>)
        /\ UNCHANGED unread
     \/ /\ m.status \notin KnownStatuses
        /\ Apply(acct, <<>>)
        /\ unread' = unread \cup {"orders"}

(* Mutation: the event is queued before the state is published.            *)
HandleMarginEventFirst(m) ==
  /\ m.type = "marginUpdate"
  /\ Apply([acct EXCEPT !.margin = m.margin], <<Emits("MarginUpdate"), Publish>>)
  /\ UNCHANGED unread

HandleMargin(m) ==
  /\ m.type = "marginUpdate"
  /\ Apply([acct EXCEPT !.margin = m.margin], <<Publish, Emits("MarginUpdate")>>)
  /\ UNCHANGED unread

HandlePosition(m) ==
  /\ m.type = "positionUpdate"
  /\ Apply([acct EXCEPT !.positions = m.position], <<Emits("Position"), Publish>>)
  /\ UNCHANGED unread

(* Mutation: the side of the fill is ignored.                              *)
HandleFillUnsigned(m) ==
  /\ m.type = "fill"
  /\ LET left == acct.orders[m.order] - m.size
         orders == IF m.order \notin DOMAIN acct.orders THEN acct.orders
                   ELSE IF left <= 0 THEN Without(acct.orders, m.order)
                   ELSE [acct.orders EXCEPT ![m.order] = left]
     IN Apply([acct EXCEPT !.orders = orders], <<Publish, Emits("Fill")>>)
  /\ UNCHANGED unread

(* The order's signed remaining size moves towards zero, and the order     *)
(* goes when it gets there or beyond.                                      *)
HandleFill(m) ==
  /\ m.type = "fill"
  /\ LET left == acct.orders[m.order] - m.dir * m.size
         orders == IF m.order \notin DOMAIN acct.orders THEN acct.orders
                   ELSE IF left * m.dir <= 0 THEN Without(acct.orders, m.order)
                   ELSE [acct.orders EXCEPT ![m.order] = left]
     IN Apply([acct EXCEPT !.orders = orders], <<Publish, Emits("Fill")>>)
  /\ UNCHANGED unread

HandleLeverage(m) ==
  /\ m.type = "leverageUpdate"
  /\ Apply([acct EXCEPT !.leverage = m.leverage], <<Emits("Leverage"), Publish>>)
  /\ UNCHANGED unread

HandleAccount ==
  /\ alive
  /\ todo = <<>>
  /\ inbox # <<>>
  /\ LET m == Head(inbox)
     IN \/ HandleSnapshot(m)
        \/ HandleOrderUpdate(m)
        \/ HandleMargin(m)
        \/ HandlePosition(m)
        \/ HandleFill(m)
        \/ HandleLeverage(m)
  /\ inbox' = Tail(inbox)
  /\ applied' = applied + 1
  /\ UNCHANGED <<exchVars, watch, events, alive, readerVars>>

(* publish_account: the value is replaced and every receiver notified.     *)
PublishAccount ==
  /\ todo # <<>>
  /\ Head(todo) = Publish
  /\ todo' = Tail(todo)
  /\ watch' = [state |-> acct, version |-> watch.version + 1]
  /\ UNCHANGED <<exchVars, inbox, acct, applied, unread, events, alive, readerVars>>

(* emit: the event is queued, or lost when the channel is full.            *)
EmitEvent ==
  /\ todo # <<>>
  /\ Head(todo).do = "emit"
  /\ todo' = Tail(todo)
  /\ events' = IF Len(events) < EventCap THEN Append(events, Head(todo)) ELSE events
  /\ UNCHANGED <<exchVars, inbox, acct, applied, unread, watch, alive, readerVars>>

(* The actor ends between two messages; the watch sender goes with it.     *)
ActorEnds ==
  /\ alive
  /\ todo = <<>>
  /\ alive' = FALSE
  /\ UNCHANGED <<exchVars, inbox, acct, applied, unread, todo, watch, events, readerVars>>

(* The dispatch task runs the handlers of the oldest event.                *)
Dispatch ==
  /\ events # <<>>
  /\ events' = Tail(events)
  /\ UNCHANGED <<exchVars, inbox, acct, applied, unread, todo, watch, alive, readerVars>>

-----------------------------------------------------------------------------
(* The tasks that wait for the account to change.                          *)

WaitChanged(t) ==
  /\ reader[t] = "idle"
  /\ reader' = [reader EXCEPT ![t] = "changed"]
  /\ mark' = [mark EXCEPT ![t] = watch.version]
  /\ UNCHANGED <<exchVars, inbox, acct, applied, unread, todo, watch, events, alive, seen, got>>

(* Mutation: an unread publication is not skipped.                         *)
WaitNextUnmarked(t) ==
  /\ reader[t] = "idle"
  /\ reader' = [reader EXCEPT ![t] = "next"]
  /\ mark' = [mark EXCEPT ![t] = watch.version]
  /\ UNCHANGED <<exchVars, inbox, acct, applied, unread, todo, watch, events, alive, seen, got>>

(* borrow_and_update() marks the current publication seen first.           *)
WaitNext(t) ==
  /\ reader[t] = "idle"
  /\ reader' = [reader EXCEPT ![t] = "next"]
  /\ mark' = [mark EXCEPT ![t] = watch.version]
  /\ seen' = [seen EXCEPT ![t] = watch.version]
  /\ UNCHANGED <<exchVars, inbox, acct, applied, unread, todo, watch, events, alive, got>>

(* changed() resolves: with the current version marked seen, or with an    *)
(* error once the sender is gone.                                          *)
Wake(t) ==
  /\ reader[t] \in {"changed", "next"}
  /\ \/ /\ watch.version > seen[t]
        /\ seen' = [seen EXCEPT ![t] = watch.version]
        /\ reader' = [reader EXCEPT ![t] = IF reader[t] = "next" THEN "readNext" ELSE "read"]
     \/ /\ watch.version = seen[t]
        /\ ~alive
        /\ reader' = [reader EXCEPT ![t] = "idle"]
        /\ UNCHANGED seen
  /\ UNCHANGED <<exchVars, inbox, acct, applied, unread, todo, watch, events, alive, mark, got>>

(* borrow(): the value there is now, which is not marked seen.             *)
Read(t) ==
  /\ reader[t] \in {"read", "readNext"}
  /\ reader' = [reader EXCEPT ![t] = "idle"]
  /\ got' = [got EXCEPT ![t] = watch.version]
  /\ UNCHANGED <<exchVars, inbox, acct, applied, unread, todo, watch, events, alive, seen, mark>>

-----------------------------------------------------------------------------
Sizes == 1..MaxSize

ExchangeStep ==
  \/ \E o \in Orders, n \in Sizes : Place(o, n) \/ FillOrder(o, n) \/ Amend(o, n)
  \/ \E o \in Orders, s \in EndStatuses : EndOrder(o, s)
  \/ ChangeLeverage
  \/ Snapshot

ReaderStep(t) == WaitChanged(t) \/ WaitNext(t) \/ Wake(t) \/ Read(t)

Next ==
  \/ ExchangeStep
  \/ HandleAccount \/ PublishAccount \/ EmitEvent \/ ActorEnds
  \/ Dispatch
  \/ \E t \in Readers : ReaderStep(t)

Spec == Init /\ [][Next]_vars

-----------------------------------------------------------------------------
(* Once every message is handled the client's account is the exchange's:   *)
(* orders, fills, positions, margin and leverage, with snapshots between   *)
(* them, lose and invent nothing.  A part that could not be read is wrong  *)
(* only until the next snapshot in which it can.                           *)
MirrorsExchange ==
  alive /\ inbox = <<>> /\ todo = <<>> => \A p \in Parts \ unread : acct[p] = exch[p]

(* "The actor publishes a new snapshot after every state-mutating          *)
(* message": between messages the hot reads give the actor's own state.    *)
PublishedIsCurrent == todo = <<>> => watch.state = acct

(* A handler of a fill or of a margin update that reads the account from   *)
(* the handle finds the change that it is told of.                         *)
EventsAfterPublication ==
  \A i \in 1..Len(events) :
    events[i].kind \in {"Fill", "MarginUpdate"} =>
      \/ events[i].at < applied
      \/ \A j \in 1..Len(todo) : todo[j] # Publish

(* wait_next_account_update() returns a publication later than its first   *)
(* poll, an unread older one being skipped.                                *)
NextIsLater ==
  [][\A t \in Readers :
       reader[t] = "readNext" /\ reader'[t] = "idle" => got'[t] > mark[t]]_vars
=============================================================================
