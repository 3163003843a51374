------------------------------ MODULE WsClient ------------------------------
(***************************************************************************)
(* The Rust WebSocket client: the tasks that hold a clone of the           *)
(* BulkWsClient handle, the bounded command channel, the Actor task that   *)
(* owns the socket and the map of pending requests, the oneshot reply      *)
(* channels, the event queue with its dispatch task, and the exchange at   *)
(* the other end of the socket.  Source: api-rust/src/api/bulk_ws.rs.      *)
(*                                                                         *)
(* A task of the program makes one call, so a call and its task are one    *)
(* model value.  The exchange and the socket are the environment: they are *)
(* modelled from how the client uses them.                                 *)
(***************************************************************************)
EXTENDS Naturals, Sequences, FiniteSets

CONSTANTS
  Requests,     \* calls of place_orders and update_oracle
  Readers,      \* calls of open_orders
  Subscribers,  \* calls of subscribe_*
  Stoppers,     \* calls of shutdown
  Waiters,      \* calls of closed
  Watchers,     \* tasks that call subscribe_disconnect and wait for the reason
  Cancellable,  \* the calls of shutdown and closed a task may drop half-way
  InitialSubs,  \* whether the configuration yields initial subscriptions
  Bodies,       \* the kinds of message the exchange sends: AllBodies or fewer
  QueueCap,     \* capacity of the command channel (512 in the code)
  EventCap,     \* capacity of the event channel (32768 in the code)
  InboxCap,     \* bound on the messages in flight to the client
  NoOne         \* no task: the lock is free, no command is being written

Replies   == {"ok", "failed", "ackOk", "ackError", "other"}
AllBodies == Replies \cup {"update"}

Closers == Stoppers \cup Waiters
Callers == Requests \cup Readers \cup Subscribers \cup Stoppers
Awaiting == Requests \cup Readers

ASSUME CallsAssumption ==
  /\ Requests \cap Readers = {}
  /\ (Requests \cup Readers) \cap Subscribers = {}
  /\ (Requests \cup Readers \cup Subscribers) \cap Closers = {}
  /\ Stoppers \cap Waiters = {}
  /\ NoOne \notin Callers \cup Waiters

ASSUME BoundsAssumption ==
  /\ Cancellable \subseteq Closers
  /\ InitialSubs \in BOOLEAN
  /\ Bodies \subseteq AllBodies
  /\ QueueCap \in Nat \ {0} /\ EventCap \in Nat \ {0} /\ InboxCap \in Nat \ {0}

VARIABLES
  call,        \* call[c]: how far the task is in its call
  outcome,     \* outcome[c]: what the call returned
  nextId,      \* the handle's next_request_id
  id,          \* id[r]: the request id of the call, 0 before it has one
  cmds,        \* the command channel, as the calls whose command is queued
  chan,        \* chan[c]: the oneshot channel the call waits on
  pc,          \* control state of the Actor task
  cur,         \* the call whose command the actor is writing to the socket
  pending,     \* calls in the actor's map of pending requests
  connected,   \* the shared connected flag
  handle,      \* is the actor's JoinHandle still in its mutex?
  lock,        \* who holds that mutex
  watcher,     \* watcher[w]: state of the broadcast receiver
  events,      \* the event channel
  seen,        \* the kinds of event the registered handlers were called with
  net,         \* is the socket up?
  inbox,       \* messages in flight from the exchange
  exchange     \* exchange[r]: what the exchange did with the request

callerVars == <<call, outcome, nextId, id>>
actorVars  == <<pc, cur, pending, connected>>
closeVars  == <<handle, lock>>
eventVars  == <<events, seen>>
netVars    == <<net, inbox, exchange>>
vars == <<callerVars, cmds, chan, actorVars, closeVars, watcher, eventVars, netVars>>

ActorStates == {"start", "loop", "write", "flag", "drain", "broadcast", "closing", "exited"}
CallStates  == {"idle", "sending", "waiting", "locking", "joining", "done", "cancelled"}
Answers     == {"responses", "failed", "ackOk", "ackError"}
ChanStates  == Answers \cup {"open", "dropped", "sendError", "disconnected", "orders"}
Outcomes    == (ChanStates \ {"open"}) \cup {"none", "timeout", "gone", "queued"}
ExchangeStates == {"none", "received", "accepted", "rejected", "toldAccepted", "toldRejected"}
EventKinds  == {"Connected", "Disconnected", "Error", "Update"}
Messages    == [id : Nat, body : AllBodies]

Init ==
  /\ call     = [c \in Callers \cup Waiters |-> "idle"]
  /\ outcome  = [c \in Callers |-> "none"]
  /\ nextId   = 1
  /\ id       = [r \in Requests |-> 0]
  /\ cmds     = <<>>
  /\ chan     = [c \in Awaiting |-> "open"]
  /\ pc       = "start"
  /\ cur      = NoOne
  /\ pending  = {}
  /\ connected = TRUE
  /\ handle   = TRUE
  /\ lock     = NoOne
  /\ watcher  = [w \in Watchers |-> "idle"]
  /\ events   = <<>>
  /\ seen     = {}
  /\ net      = "up"
  /\ inbox    = <<>>
  /\ exchange = [r \in Requests |-> "none"]

-----------------------------------------------------------------------------
(* The calling tasks.                                                      *)

(* The first part of a call, up to the send on the command channel; a      *)
(* trading call takes the next id before it queues for the channel.        *)
Begin(c) ==
  /\ call[c] = "idle"
  /\ call' = [call EXCEPT ![c] = "sending"]
  /\ \/ /\ c \in Requests
        /\ id' = [id EXCEPT ![c] = nextId]
        /\ nextId' = nextId + 1
     \/ c \notin Requests /\ UNCHANGED <<id, nextId>>
  /\ UNCHANGED <<outcome, cmds, chan, actorVars, closeVars, watcher, eventVars, netVars>>

(* Where a call stands once its command is in the channel: a trading call  *)
(* and open_orders wait for the reply, subscribe returns, and shutdown     *)
(* goes on to the actor's JoinHandle.                                      *)
AfterSend(c) ==
  CASE c \in Awaiting    -> "waiting"
    [] c \in Subscribers -> "done"
    [] c \in Stoppers    -> "locking"

(* cmd_tx.send(..) gets a slot.                                            *)
Enqueue(c) ==
  /\ call[c] = "sending"
  /\ pc # "exited"
  /\ Len(cmds) < QueueCap
  /\ cmds' = Append(cmds, c)
  /\ call' = [call EXCEPT ![c] = AfterSend(c)]
  /\ outcome' = IF c \in Subscribers THEN [outcome EXCEPT ![c] = "queued"] ELSE outcome
  /\ UNCHANGED <<nextId, id, chan, actorVars, closeVars, watcher, eventVars, netVars>>

(* cmd_tx.send(..) fails, the actor having dropped the receiver: an error  *)
(* for every call but shutdown, which ignores it.                          *)
SendFails(c) ==
  /\ call[c] = "sending"
  /\ pc = "exited"
  /\ \/ /\ c \in Stoppers
        /\ call' = [call EXCEPT ![c] = "locking"]
        /\ UNCHANGED outcome
     \/ /\ c \notin Stoppers
        /\ call' = [call EXCEPT ![c] = "done"]
        /\ outcome' = [outcome EXCEPT ![c] = "gone"]
  /\ UNCHANGED <<nextId, id, cmds, chan, actorVars, closeVars, watcher, eventVars, netVars>>

(* The oneshot resolves, with a value or because its sender was dropped.   *)
Receive(c) ==
  /\ call[c] = "waiting"
  /\ chan[c] # "open"
  /\ call' = [call EXCEPT ![c] = "done"]
  /\ outcome' = [outcome EXCEPT ![c] = chan[c]]
  /\ UNCHANGED <<nextId, id, cmds, chan, actorVars, closeVars, watcher, eventVars, netVars>>

(* time::timeout(default_timeout, resp_rx) fires.  open_orders has none.   *)
(* The actor keeps the entry and its sender.                               *)
Timeout(r) ==
  /\ call[r] = "waiting"
  /\ chan[r] = "open"
  /\ call' = [call EXCEPT ![r] = "done"]
  /\ outcome' = [outcome EXCEPT ![r] = "timeout"]
  /\ UNCHANGED <<nextId, id, cmds, chan, actorVars, closeVars, watcher, eventVars, netVars>>

(* closed() goes straight to the mutex of the JoinHandle.                  *)
BeginClosed(c) ==
  /\ call[c] = "idle"
  /\ call' = [call EXCEPT ![c] = "locking"]
  /\ UNCHANGED <<outcome, nextId, id, cmds, chan, actorVars, closeVars, watcher, eventVars, netVars>>

(* Mutation: the guard is released before the join.                        *)
TakeHandleUnguarded(c) ==
  /\ call[c] = "locking"
  /\ lock = NoOne
  /\ handle' = FALSE
  /\ call' = [call EXCEPT ![c] = IF handle THEN "joining" ELSE "done"]
  /\ UNCHANGED <<lock, outcome, nextId, id, cmds, chan, actorVars, watcher, eventVars, netVars>>

(* if let Some(h) = actor_handle.lock().await.take(): the guard lives as   *)
(* long as the body, so whoever finds the handle holds the mutex while it  *)
(* joins; whoever does not returns.                                        *)
TakeHandle(c) ==
  /\ call[c] = "locking"
  /\ lock = NoOne
  /\ handle' = FALSE
  /\ \/ handle /\ call' = [call EXCEPT ![c] = "joining"] /\ lock' = c
     \/ ~handle /\ call' = [call EXCEPT ![c] = "done"] /\ UNCHANGED lock
  /\ UNCHANGED <<outcome, nextId, id, cmds, chan, actorVars, watcher, eventVars, netVars>>

(* Mutation: the mutex stays locked after the join.                        *)
JoinedKeepingLock(c) ==
  /\ call[c] = "joining"
  /\ pc = "exited"
  /\ call' = [call EXCEPT ![c] = "done"]
  /\ UNCHANGED <<lock, outcome, nextId, id, cmds, chan, actorVars, handle, watcher, eventVars,
                 netVars>>

(* h.await resolves when the actor task has ended, a panic included.       *)
Joined(c) ==
  /\ call[c] = "joining"
  /\ pc = "exited"
  /\ call' = [call EXCEPT ![c] = "done"]
  /\ lock' = NoOne
  /\ UNCHANGED <<outcome, nextId, id, cmds, chan, actorVars, handle, watcher, eventVars, netVars>>

(* The task drops the future of shutdown() or closed(), as a select! or a  *)
(* timeout around it does: the guard is released and, when the handle had  *)
(* been taken, it is dropped and the actor task detached.                  *)
CancelClose(c) ==
  /\ c \in Cancellable
  /\ call[c] \in {"locking", "joining"}
  /\ call' = [call EXCEPT ![c] = "cancelled"]
  /\ lock' = IF lock = c THEN NoOne ELSE lock
  /\ UNCHANGED <<outcome, nextId, id, cmds, chan, actorVars, handle, watcher, eventVars, netVars>>

(* subscribe_disconnect(): the receiver sees what is broadcast from now on.*)
(* "late": is_connected() was already false when it was taken.             *)
Watch(w) ==
  /\ watcher[w] = "idle"
  /\ watcher' = [watcher EXCEPT ![w] = IF connected THEN "subscribed" ELSE "late"]
  /\ UNCHANGED <<callerVars, cmds, chan, actorVars, closeVars, eventVars, netVars>>

-----------------------------------------------------------------------------
(* The Actor task.                                                         *)

(* Mutation: the event channel is not bounded.                             *)
EmitUnbounded(e) ==
  /\ events' = Append(events, e)
  /\ UNCHANGED seen

(* emit: try_send on the event channel, the event is lost when it is full. *)
Emit(e) ==
  /\ events' = IF Len(events) < EventCap THEN Append(events, e) ELSE events
  /\ UNCHANGED seen

(* The senders of the calls in S are dropped or used with value v.         *)
Resolve(S, v) ==
  [c \in Awaiting |-> IF c \in S /\ chan[c] = "open" THEN v ELSE chan[c]]

Queued == {cmds[i] : i \in 1..Len(cmds)}

(* Mutation: the entry of a caller that gave up is left in the map.        *)
EntryWaiting(i) == {r \in pending : id[r] = i /\ call[r] = "waiting"}

(* Mutation: whatever is pending, the id of the reply being ignored.       *)
EntryAny(i) == pending

(* The entry of the pending map under id i, as a set of at most one call.  *)
Entry(i) == {r \in pending : id[r] = i}

(* Mutation: the queued commands outlive the task.                         *)
DieKeepingQueue ==
  /\ pc' = "exited"
  /\ cur' = NoOne
  /\ cmds' = <<>>
  /\ pending' = {}
  /\ chan' = Resolve(pending, "dropped")

(* The task ends: the Actor is dropped, with the receiver of the command   *)
(* channel, the commands still in it and the senders it owns.              *)
Die ==
  /\ pc' = "exited"
  /\ cur' = NoOne
  /\ cmds' = <<>>
  /\ pending' = {}
  /\ chan' = Resolve(pending \cup Queued, "dropped")

(* run(): the initial subscriptions are sent, then Connected is emitted.   *)
Start ==
  /\ pc = "start"
  /\ pc' = "loop"
  /\ Emit("Connected")
  /\ UNCHANGED <<callerVars, cmds, chan, cur, pending, connected, closeVars, watcher, netVars>>

(* Sending them fails: run() returns at once.                              *)
StartFails ==
  /\ pc = "start"
  /\ InitialSubs
  /\ net = "down"
  /\ Die
  /\ UNCHANGED <<callerVars, connected, closeVars, watcher, eventVars, netVars>>

(* Mutation: a lost connection returns from run() without the teardown.    *)
ReadEndsReturns ==
  /\ pc = "loop"
  /\ net = "down"
  /\ inbox = <<>>
  /\ Die
  /\ UNCHANGED <<callerVars, connected, closeVars, watcher, eventVars, netVars>>

(* ws_read yields a Close frame, an error or the end of the stream.        *)
ReadEnds ==
  /\ pc = "loop"
  /\ net = "down"
  /\ inbox = <<>>
  /\ pc' = "flag"
  /\ UNCHANGED <<callerVars, cmds, chan, cur, pending, connected, closeVars, watcher,
                 eventVars, netVars>>

(* What each kind of reply resolves the waiting call with.                 *)
AnswerOf(body) ==
  CASE body = "ok"       -> "responses"
    [] body = "failed"   -> "failed"
    [] body = "ackOk"    -> "ackOk"
    [] body = "ackError" -> "ackError"

(* handle_message, handle_post_response: the entry with the reply's id is  *)
(* taken out and resolved; a refused action is also an Error event.        *)
HandlePost ==
  /\ pc = "loop"
  /\ inbox # <<>>
  /\ LET m == Head(inbox)
         S == Entry(m.id)
     IN /\ m.body \in Replies \ {"other"}
        /\ pending' = pending \ S
        /\ chan' = Resolve(S, AnswerOf(m.body))
        /\ \/ m.body = "failed" /\ Emit("Error")
           \/ m.body # "failed" /\ UNCHANGED eventVars
  /\ inbox' = Tail(inbox)
  /\ UNCHANGED <<callerVars, cmds, pc, cur, connected, closeVars, watcher, net, exchange>>

(* A reply of any other type is a panic, which ends the task.              *)
HandlePostPanics ==
  /\ pc = "loop"
  /\ inbox # <<>>
  /\ Head(inbox).body = "other"
  /\ inbox' = Tail(inbox)
  /\ Die
  /\ UNCHANGED <<callerVars, connected, closeVars, watcher, eventVars, net, exchange>>

(* Tickers, trades, books, candles and account messages, whose effect on   *)
(* the calls is the event they emit.                                       *)
HandleUpdate ==
  /\ pc = "loop"
  /\ inbox # <<>>
  /\ Head(inbox).body = "update"
  /\ inbox' = Tail(inbox)
  /\ Emit("Update")
  /\ UNCHANGED <<callerVars, cmds, chan, actorVars, closeVars, watcher, net, exchange>>

(* Command::Tx: the entry is inserted, under its id, before the write.     *)
TakeTx ==
  /\ pc = "loop"
  /\ cmds # <<>>
  /\ LET r == Head(cmds)
         old == Entry(id[r])
     IN /\ r \in Requests
        /\ pending' = (pending \ old) \cup {r}
        /\ chan' = Resolve(old, "dropped")
        /\ cur' = r
  /\ cmds' = Tail(cmds)
  /\ pc' = "write"
  /\ UNCHANGED <<callerVars, connected, closeVars, watcher, eventVars, netVars>>

(* Command::Subscribe, and AsyncTx and SendRaw, which no method sends.     *)
TakeSubscribe ==
  /\ pc = "loop"
  /\ cmds # <<>>
  /\ Head(cmds) \in Subscribers
  /\ cur' = Head(cmds)
  /\ cmds' = Tail(cmds)
  /\ pc' = "write"
  /\ UNCHANGED <<callerVars, chan, pending, connected, closeVars, watcher, eventVars, netVars>>

(* Command::GetOrders is answered from the actor's own state.              *)
TakeGetOrders ==
  /\ pc = "loop"
  /\ cmds # <<>>
  /\ Head(cmds) \in Readers
  /\ chan' = Resolve({Head(cmds)}, "orders")
  /\ cmds' = Tail(cmds)
  /\ UNCHANGED <<callerVars, actorVars, closeVars, watcher, eventVars, netVars>>

TakeShutdown ==
  /\ pc = "loop"
  /\ cmds # <<>>
  /\ Head(cmds) \in Stoppers
  /\ cmds' = Tail(cmds)
  /\ pc' = "flag"
  /\ UNCHANGED <<callerVars, chan, cur, pending, connected, closeVars, watcher, eventVars, netVars>>

TakeCommand == TakeTx \/ TakeSubscribe \/ TakeGetOrders \/ TakeShutdown

(* The write returns Ok: the message is on its way, and reaches the        *)
(* exchange if the socket is still up.                                     *)
WriteDone ==
  /\ pc = "write"
  /\ pc' = "loop"
  /\ cur' = NoOne
  /\ exchange' = IF cur \in Requests /\ net = "up"
                   THEN [exchange EXCEPT ![cur] = "received"]
                   ELSE exchange
  /\ UNCHANGED <<callerVars, cmds, chan, pending, connected, closeVars, watcher, eventVars,
                 net, inbox>>

(* The write fails: a Tx takes its entry back and returns the error, any   *)
(* other command only logs it.                                             *)
WriteFails ==
  /\ pc = "write"
  /\ net = "down"
  /\ pc' = "loop"
  /\ cur' = NoOne
  /\ LET S == IF cur \in Requests THEN Entry(id[cur]) ELSE {}
     IN /\ pending' = pending \ S
        /\ chan' = Resolve(S, "sendError")
  /\ UNCHANGED <<callerVars, cmds, connected, closeVars, watcher, eventVars, netVars>>

(* Mutation: the flag is left up.                                          *)
FlagForgotten ==
  /\ pc = "flag"
  /\ pc' = "drain"
  /\ UNCHANGED <<callerVars, cmds, chan, cur, pending, connected, closeVars, watcher,
                 eventVars, netVars>>

(* handle_disconnect, step by step as other threads see it.                *)
FlagDown ==
  /\ pc = "flag"
  /\ connected' = FALSE
  /\ pc' = "drain"
  /\ UNCHANGED <<callerVars, cmds, chan, cur, pending, closeVars, watcher, eventVars, netVars>>

DrainPending(r) ==
  /\ pc = "drain"
  /\ r \in pending
  /\ pending' = pending \ {r}
  /\ chan' = Resolve({r}, "disconnected")
  /\ UNCHANGED <<callerVars, cmds, pc, cur, connected, closeVars, watcher, eventVars, netVars>>

EmitDisconnected ==
  /\ pc = "drain"
  /\ pending = {}
  /\ pc' = "broadcast"
  /\ Emit("Disconnected")
  /\ UNCHANGED <<callerVars, cmds, chan, cur, pending, connected, closeVars, watcher, netVars>>

Broadcast ==
  /\ pc = "broadcast"
  /\ pc' = "closing"
  /\ watcher' = [w \in Watchers |-> IF watcher[w] = "idle" THEN "idle" ELSE "notified"]
  /\ UNCHANGED <<callerVars, cmds, chan, cur, pending, connected, closeVars, eventVars, netVars>>

(* ws_write.close() is awaited with the command channel still open; then   *)
(* the task ends.                                                          *)
Exit ==
  /\ pc = "closing"
  /\ Die
  /\ UNCHANGED <<callerVars, connected, closeVars, watcher, eventVars, netVars>>

-----------------------------------------------------------------------------
(* The dispatch task: the handlers run, in the order of the events.        *)
Dispatch ==
  /\ events # <<>>
  /\ events' = Tail(events)
  /\ seen' = seen \cup {Head(events)}
  /\ UNCHANGED <<callerVars, cmds, chan, actorVars, closeVars, watcher, netVars>>

-----------------------------------------------------------------------------
(* The exchange and the socket (external).                                 *)

(* The exchange executes a request it received, and may answer it, once,   *)
(* with a reply that tells its verdict.                                    *)
Execute(r, v) ==
  /\ exchange[r] = "received"
  /\ exchange' = [exchange EXCEPT ![r] = v]
  /\ UNCHANGED <<callerVars, cmds, chan, actorVars, closeVars, watcher, eventVars, net, inbox>>

Telling == [accepted |-> {"ok", "ackOk", "other"}, rejected |-> {"failed", "ackError", "other"}]

Answer(r, v, b) ==
  /\ net = "up"
  /\ Len(inbox) < InboxCap
  /\ exchange[r] = v
  /\ b \in Bodies \cap Telling[v]
  /\ inbox' = Append(inbox, [id |-> id[r], body |-> b])
  /\ exchange' = [exchange EXCEPT ![r] = IF v = "accepted" THEN "toldAccepted" ELSE "toldRejected"]
  /\ UNCHANGED <<callerVars, cmds, chan, actorVars, closeVars, watcher, eventVars, net>>

PushUpdate ==
  /\ "update" \in Bodies
  /\ net = "up"
  /\ Len(inbox) < InboxCap
  /\ inbox' = Append(inbox, [id |-> 0, body |-> "update"])
  /\ UNCHANGED <<callerVars, cmds, chan, actorVars, closeVars, watcher, eventVars, net, exchange>>

(* The connection ends; what was in flight is read first or lost with it.  *)
NetDown ==
  /\ net = "up"
  /\ net' = "down"
  /\ inbox' \in {inbox, <<>>}
  /\ UNCHANGED <<callerVars, cmds, chan, actorVars, closeVars, watcher, eventVars, exchange>>

-----------------------------------------------------------------------------
CallStep(c) == Begin(c) \/ Enqueue(c) \/ SendFails(c)

CloseStep(c) == TakeHandle(c) \/ Joined(c)

HandleMessage == HandlePost \/ HandlePostPanics \/ HandleUpdate

Teardown ==
  \/ FlagDown
  \/ \E r \in Requests : DrainPending(r)
  \/ EmitDisconnected
  \/ Broadcast
  \/ Exit

Next ==
  \/ \E c \in Callers : CallStep(c)
  \/ \E c \in Awaiting : Receive(c)
  \/ \E r \in Requests : Timeout(r)
  \/ \E c \in Waiters : BeginClosed(c)
  \/ \E c \in Closers : CloseStep(c) \/ CancelClose(c)
  \/ \E w \in Watchers : Watch(w)
  \/ Start \/ StartFails
  \/ ReadEnds \/ HandleMessage \/ TakeCommand
  \/ WriteDone \/ WriteFails
  \/ Teardown
  \/ Dispatch
  \/ \E r \in Requests, v \in {"accepted", "rejected"} :
       Execute(r, v) \/ \E b \in Bodies : Answer(r, v, b)
  \/ PushUpdate
  \/ NetDown

Spec == Init /\ [][Next]_vars

(* Weak fairness of what the runtime drives: the actor while its branch is *)
(* ready, the tasks whose future is ready, the timers, the dispatch task,  *)
(* and a socket write, which completes or fails.  Strong fairness of the   *)
(* select! branches, polled in random order, of the slots of the command   *)
(* channel and of the mutex, both first come first served.  The calls      *)
(* themselves, the exchange and the loss of the connection are free.       *)
Fairness ==
  /\ WF_vars(Start \/ StartFails)
  /\ WF_vars(WriteDone \/ WriteFails)
  /\ WF_vars(Teardown)
  /\ SF_vars(ReadEnds \/ HandleMessage)
  /\ SF_vars(TakeCommand)
  /\ \A c \in Callers : SF_vars(Enqueue(c)) /\ WF_vars(SendFails(c))
  /\ \A c \in Awaiting : WF_vars(Receive(c))
  /\ \A r \in Requests : WF_vars(Timeout(r))
  /\ \A c \in Closers : SF_vars(TakeHandle(c)) /\ WF_vars(Joined(c))
  /\ WF_vars(Dispatch)

FairSpec == Spec /\ Fairness

-----------------------------------------------------------------------------
(* What is shown of it.                                                    *)

TypeOK ==
  /\ call \in [Callers \cup Waiters -> CallStates]
  /\ outcome \in [Callers -> Outcomes]
  /\ nextId \in Nat \ {0}
  /\ id \in [Requests -> Nat]
  /\ cmds \in Seq(Callers) /\ Len(cmds) <= QueueCap
  /\ chan \in [Awaiting -> ChanStates]
  /\ pc \in ActorStates
  /\ cur \in Requests \cup Subscribers \cup {NoOne}
  /\ pending \in SUBSET Requests
  /\ connected \in BOOLEAN
  /\ handle \in BOOLEAN
  /\ lock \in Closers \cup {NoOne}
  /\ watcher \in [Watchers -> {"idle", "subscribed", "late", "notified"}]
  /\ events \in Seq(EventKinds) /\ Len(events) <= EventCap
  /\ seen \in SUBSET EventKinds
  /\ net \in {"up", "down"}
  /\ inbox \in Seq(Messages)
  /\ exchange \in [Requests -> ExchangeStates]

Accepted(r) == exchange[r] \in {"accepted", "toldAccepted"}
Rejected(r) == exchange[r] \in {"rejected", "toldRejected"}

(* What a trading call returns about the exchange is true of its own       *)
(* request, however ids, replies, timeouts and failures interleave: the    *)
(* answer of handle_post_response reaches the call the exchange answered,  *)
(* and a call told that its request was not sent is never executed.        *)
AnswersAreTrue ==
  \A r \in Requests :
    /\ outcome[r] \in {"responses", "ackOk"} => Accepted(r)
    /\ outcome[r] \in {"failed", "ackError"} => Rejected(r)
    /\ outcome[r] \in {"sendError", "gone"} => exchange[r] = "none"

(* The caller's view of a request, as module RequestReply has it.          *)
PhaseOf(r) ==
  CASE call[r] = "idle" -> "new"
    [] call[r] = "done" -> "done"
    [] OTHER            -> "open"
ResultOf(r) ==
  CASE outcome[r] \in {"responses", "ackOk"}  -> "accepted"
    [] outcome[r] \in {"failed", "ackError"}  -> "rejected"
    [] outcome[r] \in {"sendError", "gone"}   -> "notSent"
    [] outcome[r] = "none"                    -> "none"
    [] OTHER                                  -> "unknown"
VerdictOf(r) ==
  CASE Accepted(r) -> "accepted"
    [] Rejected(r) -> "rejected"
    [] OTHER       -> "none"

(* The client implements the contract of module RequestReply.              *)
Contract ==
  INSTANCE RequestReply WITH
    phase   <- [r \in Requests |-> PhaseOf(r)],
    result  <- [r \in Requests |-> ResultOf(r)],
    verdict <- [r \in Requests |-> VerdictOf(r)]
ImplementsContract == Contract!Spec

(* When the actor task has ended, however it ended, no call is left        *)
(* waiting on a oneshot whose sender is still alive somewhere.             *)
NoStrandedCall ==
  pc = "exited" => \A c \in Awaiting : call[c] = "waiting" => chan[c] # "open"

(* handle_disconnect flips the flag first: a caller failed by it, a task   *)
(* woken by the broadcast and a handler called with Disconnected all find  *)
(* is_connected() false.                                                   *)
NoticeMeansFlagDown ==
  \/ \E r \in Requests : outcome[r] = "disconnected"
  \/ \E w \in Watchers : watcher[w] = "notified"
  \/ "Disconnected" \in seen
  => ~connected

(* The pending map holds no entry whose sender was used, and while the     *)
(* connection lasts none whose reply has already been handled: a reply     *)
(* frees the entry even when the caller timed out.                         *)
NoStaleEntry ==
  \A r \in pending :
    /\ chan[r] = "open"
    /\ net = "up" /\ exchange[r] \in {"toldAccepted", "toldRejected"}
         => \E i \in 1..Len(inbox) : inbox[i].id = id[r]

(* Once shutdown() or closed() has returned, the actor task has ended,     *)
(* unless a task dropped such a call half-way, the JoinHandle with it.     *)
ReturnedMeansExited ==
  (\E c \in Closers : call[c] = "done") /\ (\A c \in Closers : call[c] # "cancelled")
    => pc = "exited"

(* Every call that is made returns, whatever the exchange and the socket   *)
(* do; only the trading calls have a timeout.                              *)
CallsReturn ==
  \A c \in Awaiting \cup Subscribers : call[c] # "idle" ~> call[c] = "done"

(* shutdown() stops the actor and returns; a task in closed() returns too, *)
(* whichever of them holds the JoinHandle.                                 *)
ShutdownCompletes ==
  \A c \in Stoppers : call[c] = "sending" ~> call[c] \in {"done", "cancelled"}
ClosedCompletes ==
  \A c \in Waiters :
    (call[c] \in {"locking", "joining"} /\ pc = "exited") ~> call[c] \in {"done", "cancelled"}

(* A receiver taken while is_connected() was true gets the reason after a  *)
(* lost connection or a shutdown.                                          *)
WatchersNotified ==
  \A w \in Watchers :
    (watcher[w] = "subscribed" /\ (net = "down" \/ pc = "flag")) ~> watcher[w] = "notified"

(* Such a receiver fires whatever the way the actor ends.                  *)
ExitFiresWatchers ==
  \A w \in Watchers : (watcher[w] = "subscribed" /\ pc = "exited") ~> watcher[w] = "notified"
=============================================================================
