----------------------------- MODULE PyWsClient -----------------------------
(***************************************************************************)
(* The Python WebSocket client: connect() and disconnect(), one receive    *)
(* loop per connection which awaits the handlers and reconnects, the list  *)
(* of subscriptions and its replay, and the futures of posted requests.    *)
(* Source: api-python/bulk_api/api/bulk_ws.py.                             *)
(*                                                                         *)
(* One event loop runs everything, so a step is what happens between two   *)
(* awaits.  A connection and the receive loop created for it have the same *)
(* number; 0 is no connection, and task 0 the user's task that connects    *)
(* and disconnects.  The exchange and the network are the environment.     *)
(***************************************************************************)
EXTENDS Naturals, Sequences, FiniteSets

CONSTANTS
  Calls,         \* place_orders calls made by tasks of their own
  HandlerCalls,  \* place_orders calls awaited by a message handler
  Oracles,       \* update_oracle calls
  AutoTopics,    \* what connect() subscribes to, a sequence of topics
  UserTopics,    \* topics the user's tasks subscribe to
  Debug,         \* is the socket wrapped in LoggingWebSocket?
  Hasty,         \* may the user connect again while a receive loop is still about?
  Errors,        \* may the exchange send errors that name no request?
  UnknownStatus, \* may a reply have a status that the client does not know?
  MaxConns,      \* bound on the connections
  MaxFailures,   \* bound on the connection attempts that fail
  MaxEnds,       \* bound on the connections the other side ends
  InboxCap,      \* bound on the messages in flight when one is pushed
  NoCall         \* the handler awaits no call

Conns    == 1..MaxConns
Tasks    == 0..MaxConns
Awaited  == Calls \cup HandlerCalls
Requests == Awaited \cup Oracles
Topics   == UserTopics \cup {AutoTopics[i] : i \in 1..Len(AutoTopics)}

ASSUME PyAssumption ==
  /\ Calls \cap HandlerCalls = {} /\ Awaited \cap Oracles = {} /\ NoCall \notin Requests
  /\ Debug \in BOOLEAN /\ Hasty \in BOOLEAN /\ Errors \in BOOLEAN
  /\ UnknownStatus \in BOOLEAN
  /\ MaxConns \in Nat \ {0} /\ MaxFailures \in Nat /\ MaxEnds \in Nat /\ InboxCap \in Nat \ {0}

VARIABLES
  state,          \* ConnectionState
  ws,             \* the client's connection, 0 for None
  receiveTask,    \* the loop the client remembers, 0 for None
  subscriptions,  \* topics to replay
  requestId,      \* the last request id given
  pending,        \* the awaited calls whose future is in pending_requests
  task,           \* task[p]: where the user's task and the loops are
  job,            \* job[p]: what the connect() of p has still to subscribe to
  via,            \* via[p]: the connection it writes that to
  cancelled,      \* the loops with a cancellation to deliver
  handling,       \* handling[n]: the call a handler of loop n awaits
  off,            \* has disconnect() returned, with no connect() since?
  call,           \* call[c]: how far the request is
  id,             \* id[c]: its request id
  route,          \* route[c]: the connection it is written to
  fut,            \* fut[c]: its future
  outcome,        \* outcome[c]: how the call ended
  sub,            \* sub[t]: the user's subscribe call for topic t
  subVia,         \* subVia[t]: the connection it is written to
  conn,           \* conn[n]: a connection
  served,         \* served[n]: the topics the exchange sends on it
  inbox,          \* inbox[n]: messages in flight to the client
  exchange,       \* exchange[c]: what the exchange did with a request
  failures,       \* failed connection attempts
  ends            \* connections ended by the other side

clientVars == <<state, ws, receiveTask, subscriptions>>
taskVars   == <<task, job, via, cancelled, handling, off>>
callVars   == <<call, id, route, fut, outcome, requestId, pending>>
subVars    == <<sub, subVia>>
netVars    == <<conn, served, inbox>>
vars == <<clientVars, taskVars, callVars, subVars, netVars, exchange, failures, ends>>

Init ==
  /\ state = "DISCONNECTED"
  /\ ws = 0
  /\ receiveTask = 0
  /\ subscriptions = {}
  /\ requestId = 0
  /\ pending = {}
  /\ task = [p \in Tasks |-> IF p = 0 THEN "idle" ELSE "none"]
  /\ job = [p \in Tasks |-> <<>>]
  /\ via = [p \in Tasks |-> 0]
  /\ cancelled = {}
  /\ handling = [n \in Conns |-> NoCall]
  /\ off = FALSE
  /\ call = [c \in Requests |-> "idle"]
  /\ id = [c \in Requests |-> 0]
  /\ route = [c \in Requests |-> 0]
  /\ fut = [c \in Requests |-> "open"]
  /\ outcome = [c \in Requests |-> "none"]
  /\ sub = [t \in UserTopics |-> "idle"]
  /\ subVia = [t \in UserTopics |-> 0]
  /\ conn = [n \in Conns |-> "none"]
  /\ served = [n \in Conns |-> {}]
  /\ inbox = [n \in Conns |-> <<>>]
  /\ exchange = [c \in Requests |-> "none"]
  /\ failures = 0
  /\ ends = 0

IsConnected == state = "CONNECTED" /\ ws # 0

(* Task p may take a step of its own: it is at that point, and no          *)
(* cancellation is about to be thrown into it.                             *)
At(p, where) == task[p] = where /\ p \notin cancelled

Finished(n) == task[n] \in {"none", "done"}

-----------------------------------------------------------------------------
(* connect(), as called by the user and by _reconnect of loop p.           *)

(* connect() returns: the user goes on, the loop that reconnected ends.    *)
Return(p) == IF p = 0 THEN "idle" ELSE "done"

UserConnect ==
  /\ At(0, "idle")
  /\ state = "DISCONNECTED"
  /\ Hasty \/ \A n \in Conns : Finished(n)
  /\ state' = "CONNECTING"
  /\ task' = [task EXCEPT ![0] = "opening"]
  /\ off' = FALSE
  /\ UNCHANGED <<ws, receiveTask, subscriptions, job, via, cancelled, handling, callVars, subVars,
                 netVars, exchange, failures, ends>>

(* The back-off of _reconnect is over.                                     *)
WakeUp(n) ==
  /\ At(n, "sleep")
  /\ state' = "CONNECTING"
  /\ task' = [task EXCEPT ![n] = "opening"]
  /\ UNCHANGED <<ws, receiveTask, subscriptions, job, via, cancelled, handling, off, callVars,
                 subVars, netVars, exchange, failures, ends>>

(* Mutation: only the automatic topics are sent again.                     *)
ToSubscribeAuto == [i \in 1..Len(AutoTopics) |-> {AutoTopics[i]}]

(* What is subscribed to: everything before in one message, or the account *)
(* and the tickers one by one.                                             *)
ToSubscribe ==
  IF subscriptions # {} THEN <<subscriptions>>
                        ELSE [i \in 1..Len(AutoTopics) |-> {AutoTopics[i]}]

(* ws_connect returns a socket: the receive loop is created at once and    *)
(* the first subscription message is on its way.                           *)
Opened(p) ==
  /\ At(p, "opening")
  /\ \E n \in Conns :
       /\ conn[n] = "none"
       /\ \A k \in 1..(n - 1) : conn[k] # "none"
       /\ conn' = [conn EXCEPT ![n] = "open"]
       /\ ws' = n
       /\ receiveTask' = n
       /\ task' = [task EXCEPT ![n] = "recv",
                               ![p] = IF ToSubscribe = <<>> THEN Return(p) ELSE "subscribing"]
       /\ job' = [job EXCEPT ![p] = ToSubscribe]
       /\ via' = [via EXCEPT ![p] = n]
  /\ state' = "CONNECTED"
  /\ UNCHANGED <<subscriptions, cancelled, handling, off, callVars, subVars, served, inbox,
                 exchange, failures, ends>>

(* ws_connect raises: connect() logs it and returns False.                 *)
OpenFails(p) ==
  /\ At(p, "opening")
  /\ failures < MaxFailures
  /\ failures' = failures + 1
  /\ state' = "DISCONNECTED"
  /\ task' = [task EXCEPT ![p] = Return(p)]
  /\ UNCHANGED <<ws, receiveTask, subscriptions, job, via, cancelled, handling, off, callVars,
                 subVars, netVars, exchange, ends>>

(* A subscription message of connect() is written; the next one goes to    *)
(* the client's connection of that moment, if it still is connected.       *)
Subscribed(p) ==
  /\ At(p, "subscribing")
  /\ conn[via[p]] = "open"
  /\ served' = [served EXCEPT ![via[p]] = @ \cup Head(job[p])]
  /\ subscriptions' = subscriptions \cup Head(job[p])
  /\ job' = [job EXCEPT ![p] = Tail(@)]
  /\ \/ /\ Len(job[p]) = 1
        /\ task' = [task EXCEPT ![p] = Return(p)]
        /\ UNCHANGED <<state, via>>
     \/ /\ Len(job[p]) > 1
        /\ IsConnected
        /\ via' = [via EXCEPT ![p] = ws]
        /\ UNCHANGED <<state, task>>
     \/ /\ Len(job[p]) > 1
        /\ ~IsConnected
        /\ state' = "DISCONNECTED"
        /\ task' = [task EXCEPT ![p] = Return(p)]
        /\ UNCHANGED via
  /\ UNCHANGED <<ws, receiveTask, cancelled, handling, off, callVars, subVars, conn, inbox,
                 exchange, failures, ends>>

(* The write raises: connect() returns False, the receive loop lives on.   *)
SubscribeFails(p) ==
  /\ At(p, "subscribing")
  /\ conn[via[p]] # "open"
  /\ state' = "DISCONNECTED"
  /\ task' = [task EXCEPT ![p] = Return(p)]
  /\ job' = [job EXCEPT ![p] = <<>>]
  /\ UNCHANGED <<ws, receiveTask, subscriptions, via, cancelled, handling, off, callVars, subVars,
                 netVars, exchange, failures, ends>>

-----------------------------------------------------------------------------
(* disconnect().                                                           *)

(* Mutation: the loop is not cancelled.                                    *)
DisconnectKeepingLoop ==
  /\ At(0, "idle")
  /\ ~off
  /\ task' = [task EXCEPT ![0] = "closing"]
  /\ UNCHANGED <<clientVars, job, via, cancelled, handling, off, callVars, subVars, netVars,
                 exchange, failures, ends>>

(* The remembered loop is cancelled, and awaited.                          *)
Disconnect ==
  /\ At(0, "idle")
  /\ ~off
  /\ cancelled' = cancelled \cup {n \in {receiveTask} : n # 0 /\ ~Finished(n)}
  /\ task' = [task EXCEPT ![0] = IF receiveTask = 0 THEN "closing" ELSE "joining"]
  /\ UNCHANGED <<clientVars, job, via, handling, off, callVars, subVars, netVars, exchange,
                 failures, ends>>

(* CancelledError is thrown into the loop, wherever it awaits, and ends    *)
(* it: no except clause on its way catches it.  A call that a handler was  *)
(* awaiting goes with it and leaves its future in the map.                 *)
Cancelled(n) ==
  /\ n \in cancelled
  /\ cancelled' = cancelled \ {n}
  /\ task' = [task EXCEPT ![n] = "done"]
  /\ handling' = [handling EXCEPT ![n] = NoCall]
  /\ LET S == {c \in {handling[n]} : c # NoCall /\ call[c] # "done"}
     IN /\ call' = [c \in Requests |-> IF c \in S THEN "cancelled" ELSE call[c]]
        /\ fut' = [c \in Requests |->
                     IF c \in S /\ call[c] = "waiting" THEN "cancelled" ELSE fut[c]]
  /\ UNCHANGED <<clientVars, job, via, off, id, route, outcome, requestId, pending, subVars,
                 netVars, exchange, failures, ends>>

Joined ==
  /\ task[0] = "joining"
  /\ Finished(receiveTask)
  /\ task' = [task EXCEPT ![0] = "closing"]
  /\ UNCHANGED <<clientVars, job, via, cancelled, handling, off, callVars, subVars, netVars,
                 exchange, failures, ends>>

(* close() of the client's connection: what was in flight is dropped.      *)
CloseIt ==
  /\ conn' = [n \in Conns |-> IF n = ws /\ conn[n] = "open" THEN "closed" ELSE conn[n]]
  /\ inbox' = [n \in Conns |-> IF n = ws /\ conn[n] = "open" THEN <<>> ELSE inbox[n]]

Close ==
  /\ task[0] = "closing"
  /\ task' = [task EXCEPT ![0] = "closed"]
  /\ CloseIt
  /\ UNCHANGED <<clientVars, job, via, cancelled, handling, off, callVars, subVars, served,
                 exchange, failures, ends>>

DisconnectReturns ==
  /\ task[0] = "closed"
  /\ task' = [task EXCEPT ![0] = "idle"]
  /\ state' = "DISCONNECTED"
  /\ ws' = 0
  /\ off' = TRUE
  /\ UNCHANGED <<receiveTask, subscriptions, job, via, cancelled, handling, callVars, subVars,
                 netVars, exchange, failures, ends>>

-----------------------------------------------------------------------------
(* The receive loop.                                                       *)

(* The oldest message of loop n is m, and the loop takes it.               *)
Takes(n, m) ==
  /\ At(n, "recv")
  /\ inbox[n] # <<>>
  /\ m = Head(inbox[n])
  /\ inbox' = [inbox EXCEPT ![n] = Tail(@)]

(* The futures of the calls in S are done with value v, if they were not.  *)
Resolve(S, v) == [c \in Requests |-> IF c \in S /\ fut[c] = "open" THEN v ELSE fut[c]]

(* Mutation: whatever is pending, the id of the reply being ignored.       *)
EntryAny(i) == pending

(* The call under id i in pending_requests, as a set of at most one.       *)
Entry(i) == {c \in pending : id[c] = i}

(* _handle_post_response: the future under the reply's id is taken out and *)
(* resolved, with the responses or with an exception.  It is taken out     *)
(* before the statuses are read: one that is unknown raises, the loop logs *)
(* it and goes on, and the future stays as it is.                          *)
HandlePost(n) ==
  /\ \E m \in {Head(inbox[k]) : k \in {x \in Conns : inbox[x] # <<>>}} :
       /\ Takes(n, m)
       /\ m.type = "post"
       /\ pending' = pending \ Entry(m.id)
       /\ \/ m.body # "unreadable" /\ fut' = Resolve(Entry(m.id), m.body)
          \/ m.body = "unreadable" /\ UNCHANGED fut
  /\ UNCHANGED <<clientVars, taskVars, call, id, route, outcome, requestId, subVars, conn, served,
                 exchange, failures, ends>>

(* Mutation: the map is cleared before its futures are taken from it.      *)
HandleErrorCleared(n) ==
  /\ \E m \in {Head(inbox[k]) : k \in {x \in Conns : inbox[x] # <<>>}} :
       /\ Takes(n, m)
       /\ m.type = "error"
  /\ pending' = {}
  /\ UNCHANGED <<clientVars, taskVars, call, id, route, fut, outcome, requestId, subVars, conn,
                 served, exchange, failures, ends>>

(* _handle_error_response: an error that names no request fails them all.  *)
HandleError(n) ==
  /\ \E m \in {Head(inbox[k]) : k \in {x \in Conns : inbox[x] # <<>>}} :
       /\ Takes(n, m)
       /\ m.type = "error"
  /\ pending' = {}
  /\ fut' = Resolve(pending, "protocolError")
  /\ UNCHANGED <<clientVars, taskVars, call, id, route, outcome, requestId, subVars, conn, served,
                 exchange, failures, ends>>

(* The steps of place_orders before its first await: the id is taken, the  *)
(* future stored, the message written to the client's connection.          *)
Begins(c) ==
  /\ call[c] = "idle"
  /\ IsConnected
  /\ requestId' = requestId + 1
  /\ id' = [id EXCEPT ![c] = requestId + 1]
  /\ pending' = pending \cup {c}
  /\ route' = [route EXCEPT ![c] = ws]
  /\ call' = [call EXCEPT ![c] = "sending"]

(* Any other message runs its handlers, inside the loop: one may await a   *)
(* trading call of the client, and the loop waits with it.  (The handlers  *)
(* of errors run the same way and are left out.)                           *)
HandleUpdate(n) ==
  /\ \E m \in {Head(inbox[k]) : k \in {x \in Conns : inbox[x] # <<>>}} :
       /\ Takes(n, m)
       /\ m.type = "update"
  /\ \/ UNCHANGED <<task, handling, callVars>>
     \/ \E c \in HandlerCalls :
          /\ Begins(c)
          /\ task' = [task EXCEPT ![n] = "handling"]
          /\ handling' = [handling EXCEPT ![n] = c]
          /\ UNCHANGED <<fut, outcome>>
  /\ UNCHANGED <<clientVars, job, via, cancelled, off, subVars, conn, served, exchange, failures,
                 ends>>

HandlerReturns(n) ==
  /\ At(n, "handling")
  /\ call[handling[n]] = "done"
  /\ task' = [task EXCEPT ![n] = "recv"]
  /\ handling' = [handling EXCEPT ![n] = NoCall]
  /\ UNCHANGED <<clientVars, job, via, cancelled, off, callVars, subVars, netVars, exchange,
                 failures, ends>>

(* The connection is over and read to its end.  An abnormal end raises     *)
(* ConnectionClosed, unless LoggingWebSocket turns it into the end of the  *)
(* iteration: _reconnect closes the client's connection and sleeps.        *)
Reconnect(n) ==
  /\ At(n, "recv")
  /\ inbox[n] = <<>>
  /\ conn[n] = "lost"
  /\ ~Debug
  /\ state' = "RECONNECTING"
  /\ task' = [task EXCEPT ![n] = "sleep"]
  /\ CloseIt
  /\ UNCHANGED <<ws, receiveTask, subscriptions, job, via, cancelled, handling, off, callVars,
                 subVars, served, exchange, failures, ends>>

(* A normal end just ends the loop.                                        *)
LoopEnds(n) ==
  /\ At(n, "recv")
  /\ inbox[n] = <<>>
  /\ conn[n] \in {"clean", "closed"} \/ (conn[n] = "lost" /\ Debug)
  /\ task' = [task EXCEPT ![n] = "done"]
  /\ UNCHANGED <<clientVars, job, via, cancelled, handling, off, callVars, subVars, netVars,
                 exchange, failures, ends>>

-----------------------------------------------------------------------------
(* The tasks that trade and subscribe.                                     *)

PlaceOrders(c) ==
  /\ Begins(c)
  /\ UNCHANGED <<clientVars, taskVars, fut, outcome, subVars, netVars, exchange, failures, ends>>

(* update_oracle writes the last id given and keeps no future.             *)
UpdateOracle(c) ==
  /\ call[c] = "idle"
  /\ IsConnected
  /\ id' = [id EXCEPT ![c] = requestId]
  /\ route' = [route EXCEPT ![c] = ws]
  /\ call' = [call EXCEPT ![c] = "sending"]
  /\ UNCHANGED <<clientVars, taskVars, fut, outcome, requestId, pending, subVars, netVars,
                 exchange, failures, ends>>

(* ws.send returns: the message is written.                                *)
Sent(c) ==
  /\ call[c] = "sending"
  /\ conn[route[c]] = "open"
  /\ exchange' = [exchange EXCEPT ![c] = "received"]
  /\ call' = [call EXCEPT ![c] = IF c \in Awaited THEN "waiting" ELSE "done"]
  /\ UNCHANGED <<clientVars, taskVars, id, route, fut, outcome, requestId, pending, subVars,
                 netVars, failures, ends>>

(* ws.send raises ConnectionClosed.                                        *)
SendRaises(c) ==
  /\ call[c] = "sending"
  /\ conn[route[c]] # "open"
  /\ call' = [call EXCEPT ![c] = "done"]
  /\ outcome' = [outcome EXCEPT ![c] = "sendError"]
  /\ pending' = pending \ {c}
  /\ UNCHANGED <<clientVars, taskVars, id, route, fut, requestId, subVars, netVars, exchange,
                 failures, ends>>

(* wait_for returns what the future was resolved with, or raises it.       *)
Receive(c) ==
  /\ call[c] = "waiting"
  /\ fut[c] # "open"
  /\ call' = [call EXCEPT ![c] = "done"]
  /\ outcome' = [outcome EXCEPT ![c] = fut[c]]
  /\ UNCHANGED <<clientVars, taskVars, id, route, fut, requestId, pending, subVars, netVars,
                 exchange, failures, ends>>

(* Mutation: the future stays in the map.                                  *)
TimeoutKeeping(c) ==
  /\ call[c] = "waiting"
  /\ fut[c] = "open"
  /\ call' = [call EXCEPT ![c] = "done"]
  /\ outcome' = [outcome EXCEPT ![c] = "timeout"]
  /\ fut' = [fut EXCEPT ![c] = "cancelled"]
  /\ UNCHANGED <<clientVars, taskVars, id, route, requestId, pending, subVars, netVars, exchange,
                 failures, ends>>

(* wait_for cancels the future and raises TimeoutError; the entry goes.    *)
Timeout(c) ==
  /\ call[c] = "waiting"
  /\ fut[c] = "open"
  /\ call' = [call EXCEPT ![c] = "done"]
  /\ outcome' = [outcome EXCEPT ![c] = "timeout"]
  /\ fut' = [fut EXCEPT ![c] = "cancelled"]
  /\ pending' = pending \ {c}
  /\ UNCHANGED <<clientVars, taskVars, id, route, requestId, subVars, netVars, exchange, failures,
                 ends>>

Subscribe(t) ==
  /\ sub[t] = "idle"
  /\ IsConnected
  /\ sub' = [sub EXCEPT ![t] = "sending"]
  /\ subVia' = [subVia EXCEPT ![t] = ws]
  /\ UNCHANGED <<clientVars, taskVars, callVars, netVars, exchange, failures, ends>>

(* The topic is kept for a replay once it is written.                      *)
SubscribeReturns(t) ==
  /\ sub[t] = "sending"
  /\ \/ /\ conn[subVia[t]] = "open"
        /\ served' = [served EXCEPT ![subVia[t]] = @ \cup {t}]
        /\ subscriptions' = subscriptions \cup {t}
        /\ sub' = [sub EXCEPT ![t] = "done"]
     \/ /\ conn[subVia[t]] # "open"
        /\ sub' = [sub EXCEPT ![t] = "failed"]
        /\ UNCHANGED <<served, subscriptions>>
  /\ UNCHANGED <<state, ws, receiveTask, taskVars, callVars, subVia, conn, inbox, exchange,
                 failures, ends>>

-----------------------------------------------------------------------------
(* The exchange and the network (external).                                *)

Deliver(n, m) ==
  /\ conn[n] = "open"
  /\ inbox' = [inbox EXCEPT ![n] = Append(@, m)]

(* A request is executed, in its own time.                                 *)
Execute(c, v) ==
  /\ exchange[c] = "received"
  /\ exchange' = [exchange EXCEPT ![c] = v]
  /\ UNCHANGED <<clientVars, taskVars, callVars, subVars, netVars, failures, ends>>

Told   == [accepted |-> "toldAccepted", rejected |-> "toldRejected"]
Unread == [accepted |-> "unreadAccepted", rejected |-> "unreadRejected"]

Reply(c, body) == Deliver(route[c], [type |-> "post", id |-> id[c], body |-> body])

(* It is answered with the verdict, or with statuses that the client's     *)
(* table does not have.                                                    *)
Answer(c) ==
  /\ exchange[c] \in DOMAIN Told
  /\ \/ /\ Reply(c, exchange[c])
        /\ exchange' = [exchange EXCEPT ![c] = Told[@]]
     \/ /\ UnknownStatus
        /\ Reply(c, "unreadable")
        /\ exchange' = [exchange EXCEPT ![c] = Unread[@]]
  /\ UNCHANGED <<clientVars, taskVars, callVars, subVars, conn, served, failures, ends>>

PushUpdate(n) ==
  /\ served[n] # {}
  /\ Len(inbox[n]) < InboxCap
  /\ Deliver(n, [type |-> "update"])
  /\ UNCHANGED <<clientVars, taskVars, callVars, subVars, conn, served, exchange, failures, ends>>

PushError(n) ==
  /\ Errors
  /\ Len(inbox[n]) < InboxCap
  /\ Deliver(n, [type |-> "error"])
  /\ UNCHANGED <<clientVars, taskVars, callVars, subVars, conn, served, exchange, failures, ends>>

(* The other side ends the connection, or it breaks, and what was in       *)
(* flight is read first or lost.  (The bounds leave a connection to open.) *)
ConnectionEnds(n, how) ==
  /\ conn[n] = "open"
  /\ ends < MaxEnds /\ conn[MaxConns] = "none"
  /\ ends' = ends + 1
  /\ conn' = [conn EXCEPT ![n] = how]
  /\ \E kept \in {inbox[n], <<>>} : inbox' = [inbox EXCEPT ![n] = kept]
  /\ UNCHANGED <<clientVars, taskVars, callVars, subVars, served, exchange, failures>>

-----------------------------------------------------------------------------
ConnectStep(p) == Opened(p) \/ OpenFails(p) \/ Subscribed(p) \/ SubscribeFails(p)

DisconnectStep == Joined \/ Close \/ DisconnectReturns

LoopStep(n) ==
  \/ HandlePost(n) \/ HandleError(n) \/ HandleUpdate(n) \/ HandlerReturns(n)
  \/ Reconnect(n) \/ LoopEnds(n)
  \/ WakeUp(n) \/ Cancelled(n)

CallStep(c) == Sent(c) \/ SendRaises(c) \/ Receive(c)

Verdict(c) == Answer(c) \/ \E v \in DOMAIN Told : Execute(c, v)

Next ==
  \/ UserConnect \/ Disconnect \/ DisconnectStep
  \/ \E p \in Tasks : ConnectStep(p)
  \/ \E n \in Conns : LoopStep(n)
  \/ \E c \in Calls : PlaceOrders(c)
  \/ \E c \in Oracles : UpdateOracle(c)
  \/ \E c \in Requests : CallStep(c) \/ Verdict(c)
  \/ \E c \in Awaited : Timeout(c)
  \/ \E t \in UserTopics : Subscribe(t) \/ SubscribeReturns(t)
  \/ \E n \in Conns :
       PushUpdate(n) \/ PushError(n) \/ \E how \in {"lost", "clean"} : ConnectionEnds(n, how)

Spec == Init /\ [][Next]_vars

(* The event loop runs every task that is ready, and a write or a          *)
(* connection attempt ends one way or another.  The exchange answers what  *)
(* it received.  The user's calls, the timers and the network are free.    *)
Fairness ==
  /\ \A p \in Tasks : WF_vars(ConnectStep(p))
  /\ \A n \in Conns : WF_vars(LoopStep(n))
  /\ WF_vars(DisconnectStep)
  /\ \A c \in Requests : WF_vars(CallStep(c)) /\ SF_vars(Verdict(c))

FairSpec == Spec /\ Fairness

-----------------------------------------------------------------------------
(* What is shown of it.                                                    *)

AnswerIsTrue(c) ==
  /\ outcome[c] = "accepted" => exchange[c] \in {"accepted", "toldAccepted", "unreadAccepted"}
  /\ outcome[c] = "rejected" => exchange[c] \in {"rejected", "toldRejected", "unreadRejected"}
  /\ outcome[c] = "sendError" => exchange[c] = "none"

(* What place_orders returns about the exchange is true of its own order,  *)
(* for every call whose id no update_oracle has used, across timeouts,     *)
(* errors, and reconnections in mid-call.                                  *)
OwnAnswersAreTrue ==
  \A c \in Awaited : (\A x \in Oracles : id[x] # id[c]) => AnswerIsTrue(c)

(* The caller's view of a request, as module RequestReply has it: a call   *)
(* that is cancelled has returned without an answer.                       *)
PhaseOf(c) ==
  CASE call[c] = "idle"                  -> "new"
    [] call[c] \in {"sending", "waiting"} -> "open"
    [] OTHER                             -> "done"
ResultOf(c) ==
  CASE outcome[c] \in {"accepted", "rejected"} -> outcome[c]
    [] outcome[c] = "sendError"                -> "notSent"
    [] outcome[c] = "none"                     -> IF call[c] = "cancelled" THEN "unknown" ELSE "none"
    [] OTHER                                   -> "unknown"
VerdictOf(c) ==
  CASE exchange[c] \in {"accepted", "toldAccepted", "unreadAccepted"} -> "accepted"
    [] exchange[c] \in {"rejected", "toldRejected", "unreadRejected"} -> "rejected"
    [] OTHER                                       -> "none"

(* Where nobody updates an oracle, place_orders keeps the contract of      *)
(* module RequestReply: it returns once, what it returns is the exchange's *)
(* verdict on this request, and an order it failed to send is never        *)
(* executed, not even after the call.                                      *)
Contract ==
  INSTANCE RequestReply WITH
    Requests <- Awaited,
    phase    <- [c \in Awaited |-> PhaseOf(c)],
    result   <- [c \in Awaited |-> ResultOf(c)],
    verdict  <- [c \in Awaited |-> VerdictOf(c)]
ImplementsContract == Contract!Spec

(* The calls that somebody waits for.                                      *)
Awaiting == {c \in Awaited : call[c] \in {"sending", "waiting"} /\ fut[c] = "open"}

(* The exchange answered under the id of c, in a way the client could not  *)
(* read.                                                                   *)
AnsweredUnread(c) ==
  \E r \in Requests : id[r] = id[c] /\ exchange[r] \in {"unreadAccepted", "unreadRejected"}

(* pending_requests and the calls that wait are kept in step.  Timeouts,   *)
(* errors, failed writes and late replies leave no future in it that       *)
(* nobody waits for; only a call that was cancelled does.  And a call that *)
(* waits can still be reached there by its reply or by an error, unless    *)
(* its reply has been taken and could not be read: only that call is left  *)
(* to its timeout.                                                         *)
PendingIsAwaited ==
  /\ {c \in pending : call[c] # "cancelled"} \subseteq Awaiting
  /\ \A c \in Awaiting \ pending : AnsweredUnread(c)

(* When disconnect() has returned and until the user connects again, the   *)
(* client stays disconnected: no loop that was about to reconnect, or in   *)
(* the middle of it, brings a connection back.                             *)
DisconnectIsFinal ==
  off => state = "DISCONNECTED" /\ ws = 0 /\ \A n \in Conns : conn[n] # "open"

(* "All active subscriptions are replayed once the connection is           *)
(* re-established": when no connect() is under way, the exchange serves    *)
(* every topic of the list on the client's connection.                     *)
SubscriptionsReplayed ==
  IsConnected /\ conn[ws] = "open" /\ (\A p \in Tasks : task[p] # "subscribing")
    => subscriptions \subseteq served[ws]

(* A call whose request the exchange received is answered, while the       *)
(* connection lasts: it does not depend on its timeout.                    *)
CallsAreAnswered == \A c \in Awaited : call[c] = "waiting" ~> call[c] # "waiting"
=============================================================================
