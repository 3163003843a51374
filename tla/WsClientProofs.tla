--------------------------- MODULE WsClientProofs ---------------------------
(***************************************************************************)
(* Proofs about WsClient: type correctness, and the inductive invariant    *)
(* from which the truth of the answers and the absence of stranded calls   *)
(* follow, for any sets of calls and any capacities; that WsClient         *)
(* implements RequestReply, every step one step of the contract or none;   *)
(* and the end of the connection and of the actor: nobody is told of it    *)
(* while the connected flag is still up, and shutdown and closed return    *)
(* only after the actor.                                                   *)
(***************************************************************************)
EXTENDS WsClient, SequenceTheorems, TLAPS

(* No id is given twice, and a call has one as soon as it has begun.       *)
IdsUnique ==
  /\ \A r \in Requests : id[r] < nextId /\ (id[r] = 0 <=> call[r] = "idle")
  /\ \A r, q \in Requests : id[r] = id[q] /\ id[r] # 0 => r = q

(* A call that has not got its command into the channel.                   *)
Unsent(r) == call[r] \in {"idle", "sending"}

(* A command is in the channel at most once, and only after it was sent.   *)
QueueOnce ==
  /\ \A i, j \in 1..Len(cmds) : cmds[i] = cmds[j] => i = j
  /\ \A c \in Queued : ~Unsent(c)

(* What can be said of a request by the place its command has reached.     *)
Undecided(r) ==
  exchange[r] = "none" /\ chan[r] = "open" /\ outcome[r] \in {"none", "timeout"}
PlaceInv ==
  /\ \A r \in Requests : Unsent(r) => Undecided(r) /\ outcome[r] = "none" /\ cur # r
  /\ \A r \in Requests : r \in Queued => Undecided(r) /\ r \notin pending /\ cur # r
  /\ cur \in Requests => Undecided(cur) /\ cur \in pending
  /\ \A r \in pending : ~Unsent(r) /\ chan[r] = "open" /\ outcome[r] \in {"none", "timeout"}
  /\ pc = "write" <=> cur # NoOne
  /\ pc = "exited" => cmds = <<>> /\ pending = {}

(* The request will never reach the exchange.                              *)
NeverSent(r) == exchange[r] = "none" /\ r \notin Queued /\ cur # r /\ ~Unsent(r)

(* What a oneshot or a return value says of the request is true.           *)
TrueOf(r, answer) ==
  /\ answer \in {"responses", "ackOk"} => Accepted(r)
  /\ answer \in {"failed", "ackError"} => Rejected(r)
  /\ answer \in {"sendError", "gone"} => NeverSent(r)
AnswerInv == \A r \in Requests : TrueOf(r, chan[r]) /\ TrueOf(r, outcome[r])

(* A reply in flight carries the id of a request and its verdict.          *)
Tells(m, r) ==
  /\ id[r] = m.id
  /\ m.body \in {"ok", "ackOk"} => Accepted(r)
  /\ m.body \in {"failed", "ackError"} => Rejected(r)
InFlight == {inbox[i] : i \in 1..Len(inbox)}
InboxInv ==
  \A m \in InFlight : m.body \in Replies => m.id # 0 /\ \E r \in Requests : Tells(m, r)

(* Every waiting call has its sender in the channel or in the map.         *)
WaitingInv ==
  \A c \in Awaiting : call[c] = "waiting" /\ chan[c] = "open" => c \in Queued \cup pending

IInv ==
  TypeOK /\ IdsUnique /\ QueueOnce /\ PlaceInv /\ AnswerInv /\ InboxInv /\ WaitingInv

USE DEF Callers, Closers, Awaiting, callerVars, actorVars, closeVars, eventVars, netVars,
        Emit, Resolve, Entry, Die, Replies, AllBodies, ExchangeStates

(* What taking the head of a queue leaves behind.                          *)
LEMMA TailFacts ==
  ASSUME NEW S, NEW q \in Seq(S), q # <<>>
  PROVE  /\ Head(q) \in S /\ Head(q) = q[1]
         /\ Tail(q) \in Seq(S)
         /\ Len(Tail(q)) = Len(q) - 1 /\ Len(q) \in Nat /\ Len(q) > 0
         /\ \A i \in 1..Len(Tail(q)) : Tail(q)[i] = q[i + 1] /\ i + 1 \in 1..Len(q)
  BY HeadTailProperties, LenProperties

(* Every variable keeps its type; the channels keep within their capacity. *)
LEMMA TypeInit == Init => TypeOK
  BY CallsAssumption, BoundsAssumption
  DEF Init, TypeOK, CallStates, Outcomes, ChanStates, Answers, ActorStates, EventKinds

LEMMA TypeStep == TypeOK /\ [Next]_vars => TypeOK'
  <1> SUFFICES ASSUME TypeOK, [Next]_vars PROVE TypeOK'
    OBVIOUS
  <1> USE CallsAssumption, BoundsAssumption
      DEF TypeOK, CallStates, Outcomes, ChanStates, Answers, ActorStates, EventKinds
  <1>1. ASSUME NEW c \in Callers, Begin(c) PROVE TypeOK'
    <2>1. CASE c \in Requests
      BY <1>1, <2>1 DEF Begin
    <2>2. CASE c \notin Requests
      BY <1>1, <2>2 DEF Begin
    <2> QED
      BY <2>1, <2>2
  <1>2. ASSUME NEW c \in Callers, Enqueue(c) PROVE TypeOK'
    BY <1>2 DEF Enqueue, AfterSend
  <1>3. ASSUME NEW c \in Callers, SendFails(c) PROVE TypeOK'
    <2>1. CASE c \in Stoppers
      BY <1>3, <2>1 DEF SendFails
    <2>2. CASE c \notin Stoppers
      <3>1. call' \in [Callers \cup Waiters -> CallStates]
        BY <1>3, <2>2 DEF SendFails
      <3>2. outcome' \in [Callers -> Outcomes]
        BY <1>3, <2>2 DEF SendFails
      <3> QED
        BY <1>3, <3>1, <3>2 DEF SendFails
    <2> QED
      BY <2>1, <2>2
  <1>4. ASSUME NEW c \in Awaiting, Receive(c) PROVE TypeOK'
    BY <1>4 DEF Receive
  <1>5. ASSUME NEW c \in Requests, Timeout(c) PROVE TypeOK'
    BY <1>5 DEF Timeout
  <1>6. ASSUME NEW c \in Waiters, BeginClosed(c) PROVE TypeOK'
    BY <1>6 DEF BeginClosed
  <1>7. ASSUME NEW c \in Closers, TakeHandle(c) PROVE TypeOK'
    BY <1>7 DEF TakeHandle
  <1>8. ASSUME NEW c \in Closers, Joined(c) PROVE TypeOK'
    BY <1>8 DEF Joined
  <1>9. ASSUME NEW c \in Closers, CancelClose(c) PROVE TypeOK'
    BY <1>9 DEF CancelClose
  <1>10. ASSUME NEW c \in Watchers, Watch(c) PROVE TypeOK'
    BY <1>10 DEF Watch
  <1>11. ASSUME Start PROVE TypeOK'
    BY <1>11 DEF Start
  <1>12. ASSUME StartFails PROVE TypeOK'
    BY <1>12 DEF StartFails
  <1>13. ASSUME ReadEnds PROVE TypeOK'
    BY <1>13 DEF ReadEnds
  <1>14. ASSUME HandlePost PROVE TypeOK'
    <2>1. Tail(inbox) \in Seq(Messages)
      BY <1>14, TailFacts DEF HandlePost
    <2>2. \A S, v : v \in ChanStates => Resolve(S, v) \in [Awaiting -> ChanStates]
      OBVIOUS
    <2>3. AnswerOf(Head(inbox).body) \in ChanStates
      BY <1>14 DEF HandlePost, AnswerOf
    <2>4. chan' \in [Awaiting -> ChanStates] /\ pending' \in SUBSET Requests
      BY <1>14, <2>2, <2>3 DEF HandlePost
    <2>5. events' \in Seq(EventKinds) /\ Len(events') <= EventCap /\ seen' \in SUBSET EventKinds
      <3>1. CASE Emit("Error")
        BY <3>1
      <3>2. CASE UNCHANGED eventVars
        BY <3>2
      <3> QED
        BY <1>14, <3>1, <3>2 DEF HandlePost
    <2> QED
      BY <1>14, <2>1, <2>4, <2>5 DEF HandlePost
  <1>15. ASSUME HandlePostPanics PROVE TypeOK'
    BY <1>15, TailFacts DEF HandlePostPanics
  <1>16. ASSUME HandleUpdate PROVE TypeOK'
    BY <1>16, TailFacts DEF HandleUpdate
  <1>17. ASSUME TakeTx PROVE TypeOK'
    BY <1>17, TailFacts DEF TakeTx
  <1>18. ASSUME TakeSubscribe PROVE TypeOK'
    BY <1>18, TailFacts DEF TakeSubscribe
  <1>19. ASSUME TakeGetOrders PROVE TypeOK'
    BY <1>19, TailFacts DEF TakeGetOrders
  <1>20. ASSUME TakeShutdown PROVE TypeOK'
    BY <1>20, TailFacts DEF TakeShutdown
  <1>21. ASSUME WriteDone PROVE TypeOK'
    BY <1>21 DEF WriteDone
  <1>22. ASSUME WriteFails PROVE TypeOK'
    BY <1>22 DEF WriteFails
  <1>23. ASSUME FlagDown PROVE TypeOK'
    BY <1>23 DEF FlagDown
  <1>24. ASSUME NEW c \in Requests, DrainPending(c) PROVE TypeOK'
    BY <1>24 DEF DrainPending
  <1>25. ASSUME EmitDisconnected PROVE TypeOK'
    BY <1>25 DEF EmitDisconnected
  <1>26. ASSUME Broadcast PROVE TypeOK'
    BY <1>26 DEF Broadcast
  <1>27. ASSUME Exit PROVE TypeOK'
    BY <1>27 DEF Exit
  <1>28. ASSUME Dispatch PROVE TypeOK'
    <2>1. Head(events) \in EventKinds /\ Tail(events) \in Seq(EventKinds)
          /\ Len(Tail(events)) <= Len(events) /\ Len(Tail(events)) \in Nat
      BY <1>28, TailFacts DEF Dispatch
    <2>2. Len(events') <= EventCap
      BY <1>28, <2>1, LenProperties DEF Dispatch
    <2>3. seen' \in SUBSET EventKinds
      BY <1>28, <2>1 DEF Dispatch
    <2> QED
      BY <1>28, <2>1, <2>2, <2>3 DEF Dispatch
  <1>29. ASSUME NEW c \in Requests, NEW v \in {"accepted", "rejected"}, Execute(c, v) PROVE TypeOK'
    BY <1>29 DEF Execute
  <1>30. ASSUME NEW c \in Requests, NEW v \in {"accepted", "rejected"}, NEW b \in Bodies, Answer(c, v, b) PROVE TypeOK'
    BY <1>30 DEF Answer, Messages
  <1>31. ASSUME PushUpdate PROVE TypeOK'
    BY <1>31 DEF PushUpdate, Messages
  <1>32. ASSUME NetDown PROVE TypeOK'
    <2>1. <<>> \in Seq(Messages)
      BY EmptySeq
    <2> QED
      BY <1>32, <2>1 DEF NetDown
  <1>33. CASE UNCHANGED vars
    BY <1>33 DEF vars
  <1> HIDE DEF TypeOK, Callers, Closers, Awaiting
  <1> QED
    BY <1>1, <1>2, <1>3, <1>4, <1>5, <1>6, <1>7, <1>8, <1>9, <1>10, <1>11, <1>12, <1>13, <1>14, <1>15, <1>16, <1>17, <1>18, <1>19, <1>20, <1>21, <1>22, <1>23, <1>24, <1>25, <1>26, <1>27, <1>28, <1>29, <1>30, <1>31, <1>32, <1>33
    DEF Next, CallStep, CloseStep, HandleMessage, TakeCommand, Teardown

THEOREM TypeCorrect == Spec => []TypeOK
  BY TypeInit, TypeStep, PTL DEF Spec
(* The channel as a set: what a send adds and what a receive takes.        *)
LEMMA QueueAppend ==
  ASSUME TypeOK, NEW c \in Callers, cmds' = Append(cmds, c)
  PROVE  /\ Queued' = Queued \cup {c}
         /\ c \notin Queued /\ (\A i, j \in 1..Len(cmds) : cmds[i] = cmds[j] => i = j)
              => \A i, j \in 1..Len(cmds') : cmds'[i] = cmds'[j] => i = j
  <1>1. cmds \in Seq(Callers) /\ Len(cmds) \in Nat
    BY LenProperties DEF TypeOK
  <1>2. /\ Len(cmds') = Len(cmds) + 1
        /\ \A i \in 1..Len(cmds) : cmds'[i] = cmds[i]
        /\ cmds'[Len(cmds) + 1] = c
    BY <1>1, AppendProperties
  <1>3. \A i \in 1..Len(cmds') : i \in 1..Len(cmds) \/ i = Len(cmds) + 1
    BY <1>1, <1>2
  <1>4. \A i \in 1..Len(cmds) : i \in 1..Len(cmds')
    BY <1>1, <1>2
  <1>5. Len(cmds) + 1 \in 1..Len(cmds')
    BY <1>1, <1>2
  <1>6. Queued' = Queued \cup {c}
    BY <1>2, <1>3, <1>4, <1>5 DEF Queued
  <1> QED
    BY <1>2, <1>3, <1>6 DEF Queued

LEMMA QueueTail ==
  ASSUME TypeOK, QueueOnce, cmds # <<>>, cmds' = Tail(cmds)
  PROVE  /\ Head(cmds) \in Queued
         /\ Queued' = Queued \ {Head(cmds)}
         /\ \A i, j \in 1..Len(cmds') : cmds'[i] = cmds'[j] => i = j
  <1>1. cmds \in Seq(Callers)
    BY DEF TypeOK
  <1>2. Head(cmds) = cmds[1] /\ Len(cmds') = Len(cmds) - 1 /\ Len(cmds) \in Nat /\ Len(cmds) > 0
        /\ \A i \in 1..Len(cmds') : cmds'[i] = cmds[i + 1] /\ i + 1 \in 1..Len(cmds)
    BY <1>1, TailFacts
  <1>3. \A i \in 1..Len(cmds) : i # 1 => i - 1 \in 1..Len(cmds') /\ cmds'[i - 1] = cmds[i]
    BY <1>2
  <1>4. 1 \in 1..Len(cmds)
    BY <1>2
  <1>5. Queued' = Queued \ {Head(cmds)}
    BY <1>2, <1>3, <1>4 DEF Queued, QueueOnce
  <1>6. ASSUME NEW i \in 1..Len(cmds'), NEW j \in 1..Len(cmds'), cmds'[i] = cmds'[j]
        PROVE  i = j
    <2>1. cmds[i + 1] = cmds[j + 1] /\ i + 1 \in 1..Len(cmds) /\ j + 1 \in 1..Len(cmds)
      BY <1>2, <1>6
    <2> QED
      BY <2>1, <1>2 DEF QueueOnce
  <1> QED
    BY <1>2, <1>4, <1>5, <1>6 DEF Queued

LEMMA InvInit == Init => IInv
  BY TypeInit, CallsAssumption
  DEF Init, IInv, IdsUnique, QueueOnce, PlaceInv, AnswerInv, TrueOf, InboxInv, WaitingInv,
      Unsent, Undecided, Queued, InFlight

(* The messages in flight, as a set.                                       *)
LEMMA InboxTail ==
  ASSUME TypeOK, inbox # <<>>, inbox' = Tail(inbox)
  PROVE  Head(inbox) \in InFlight /\ InFlight' \subseteq InFlight
  <1>1. inbox \in Seq(Messages)
    BY DEF TypeOK
  <1>2. Head(inbox) = inbox[1] /\ Len(inbox) \in Nat /\ Len(inbox) > 0
        /\ \A i \in 1..Len(inbox') : inbox'[i] = inbox[i + 1] /\ i + 1 \in 1..Len(inbox)
    BY <1>1, TailFacts
  <1> QED
    BY <1>2 DEF InFlight

LEMMA InboxAppend ==
  ASSUME TypeOK, NEW m, inbox' = Append(inbox, m), m \in Messages
  PROVE  InFlight' = InFlight \cup {m}
  <1>1. inbox \in Seq(Messages) /\ Len(inbox) \in Nat
    BY LenProperties DEF TypeOK
  <1>2. /\ Len(inbox') = Len(inbox) + 1
        /\ \A i \in 1..Len(inbox) : inbox'[i] = inbox[i]
        /\ inbox'[Len(inbox) + 1] = m
    BY <1>1, AppendProperties
  <1>3. \A i \in 1..Len(inbox') : i \in 1..Len(inbox) \/ i = Len(inbox) + 1
    BY <1>1, <1>2
  <1>4. \A i \in 1..Len(inbox) : i \in 1..Len(inbox')
    BY <1>1, <1>2
  <1>5. Len(inbox) + 1 \in 1..Len(inbox')
    BY <1>1, <1>2
  <1> QED
    BY <1>2, <1>3, <1>4, <1>5 DEF InFlight

USE DEF IdsUnique, Unsent, Undecided, PlaceInv, NeverSent, TrueOf, AnswerInv, Accepted, Rejected,
        WaitingInv

(* A queue of calls holds calls.                                           *)
LEMMA QueuedCallers == TypeOK => Queued \subseteq Callers
  BY LenProperties DEF Queued, TypeOK

(* A step that touches no request, no channel and no command.              *)
LEMMA Frame ==
  ASSUME IInv, TypeOK', InboxInv',
         UNCHANGED <<outcome, nextId, id, cmds, chan, cur, pending, exchange>>,
         \A c \in Callers : Unsent(c)' => Unsent(c),
         \A c \in Awaiting : call'[c] = call[c],
         pc' = "write" <=> pc = "write",
         pc' = "exited" => pc = "exited"
  PROVE  IInv'
  <1>1. Queued' = Queued /\ Queued \subseteq Callers /\ pending \subseteq Requests
    BY QueuedCallers DEF Queued, IInv, TypeOK
  <1>2. QueueOnce'
    BY <1>1 DEF IInv, QueueOnce
  <1>3. IdsUnique'
    BY DEF IInv
  <1>4. \A r \in Requests : Unsent(r)' <=> Unsent(r)
    OBVIOUS
  <1>5. PlaceInv'
    BY <1>1, <1>4 DEF IInv
  <1>6. AnswerInv'
    <2> SUFFICES ASSUME NEW r \in Requests PROVE TrueOf(r, chan[r])' /\ TrueOf(r, outcome[r])'
      BY DEF AnswerInv
    <2>1. TrueOf(r, chan[r]) /\ TrueOf(r, outcome[r])
      BY DEF IInv, AnswerInv
    <2> QED
      BY <1>1, <1>4, <2>1
  <1>7. WaitingInv'
    BY <1>1 DEF IInv
  <1> QED
    BY <1>2, <1>3, <1>5, <1>6, <1>7 DEF IInv

(* The end of the task resolves whatever was queued or pending.            *)
LEMMA DieInv ==
  ASSUME IInv, TypeOK', InboxInv', Die, UNCHANGED <<callerVars, exchange>>
  PROVE  IInv'
  <1>1. Queued' = {} /\ Queued \subseteq Callers
    BY LenProperties DEF Queued, IInv, TypeOK
  <1>2. QueueOnce'
    BY <1>1 DEF QueueOnce
  <1>3. IdsUnique'
    BY DEF IInv
  <1>4. \A r \in Requests : chan'[r] = chan[r] \/ chan'[r] = "dropped"
    OBVIOUS
  <1>5. \A r \in Requests : ~(r \in pending \cup Queued) => chan'[r] = chan[r]
    OBVIOUS
  <1>6. PlaceInv'
    BY <1>1, <1>5, CallsAssumption DEF IInv, QueueOnce, TypeOK
  <1>7. AnswerInv'
    BY <1>1, <1>4, CallsAssumption DEF IInv, TypeOK
  <1>8. WaitingInv'
    BY <1>1 DEF IInv
  <1> QED
    BY <1>2, <1>3, <1>6, <1>7, <1>8 DEF IInv

(* A step that keeps the ids given, the verdicts and adds no message.      *)
LEMMA InboxKeep ==
  ASSUME InboxInv, InFlight' \subseteq InFlight,
         \A r \in Requests : id[r] # 0 => id'[r] = id[r],
         \A r \in Requests : Accepted(r) => Accepted(r)',
         \A r \in Requests : Rejected(r) => Rejected(r)'
  PROVE  InboxInv'
  <1> SUFFICES ASSUME NEW m \in InFlight', m.body \in Replies
               PROVE  m.id # 0 /\ \E r \in Requests : Tells(m, r)'
    BY DEF InboxInv
  <1>1. PICK r \in Requests : m.id # 0 /\ Tells(m, r)
    BY DEF InboxInv
  <1> QED
    BY <1>1 DEF Tells

LEMMA FrameSteps ==
  ASSUME IInv, TypeOK',
         \/ Start \/ ReadEnds \/ FlagDown \/ EmitDisconnected \/ Broadcast
         \/ HandleUpdate \/ Dispatch \/ NetDown
         \/ \E w \in Watchers : Watch(w)
         \/ \E c \in Waiters : BeginClosed(c)
         \/ \E c \in Closers : TakeHandle(c) \/ Joined(c) \/ CancelClose(c)
  PROVE  IInv'
  <1>1. TypeOK /\ InboxInv
    BY DEF IInv
  <1>2. UNCHANGED <<outcome, nextId, id, cmds, chan, cur, pending, exchange>>
    BY DEF Start, ReadEnds, FlagDown, EmitDisconnected, Broadcast, HandleUpdate, Dispatch, NetDown,
           Watch, BeginClosed, TakeHandle, Joined, CancelClose
  <1>3. InFlight' \subseteq InFlight
    <2>1. CASE HandleUpdate
      BY <1>1, <2>1, InboxTail DEF HandleUpdate
    <2>2. CASE inbox' = <<>>
      BY <2>2 DEF InFlight
    <2>3. CASE inbox' = inbox
      BY <2>3 DEF InFlight
    <2> QED
      BY <2>1, <2>2, <2>3
      DEF Start, ReadEnds, FlagDown, EmitDisconnected, Broadcast, Dispatch, NetDown,
          Watch, BeginClosed, TakeHandle, Joined, CancelClose
  <1>4. InboxInv'
    BY <1>1, <1>2, <1>3, InboxKeep
  <1>5. \/ UNCHANGED call
        \/ \E c \in Closers : /\ call' = [call EXCEPT ![c] = call'[c]]
                              /\ call'[c] \notin {"idle", "sending"}
    <2>1. CASE \E c \in Waiters : BeginClosed(c)
      BY <1>1, <2>1 DEF BeginClosed, TypeOK
    <2>2. ASSUME NEW c \in Closers, TakeHandle(c) \/ Joined(c) \/ CancelClose(c)
          PROVE  \E d \in Closers : /\ call' = [call EXCEPT ![d] = call'[d]]
                                    /\ call'[d] \notin {"idle", "sending"}
      <3>1. c \in DOMAIN call
        BY <1>1 DEF TypeOK
      <3>2. \E v \in {"joining", "done", "cancelled"} : call' = [call EXCEPT ![c] = v]
        BY <2>2 DEF TakeHandle, Joined, CancelClose
      <3> QED
        BY <3>1, <3>2
    <2> QED
      BY <2>1, <2>2
      DEF Start, ReadEnds, FlagDown, EmitDisconnected, Broadcast, HandleUpdate, Dispatch, NetDown,
          Watch
  <1>6. /\ \A c \in Callers : Unsent(c)' => Unsent(c)
        /\ \A c \in Awaiting : call'[c] = call[c]
    BY <1>1, <1>5, CallsAssumption DEF TypeOK
  <1>7. /\ pc' = "write" <=> pc = "write"
        /\ pc' = "exited" => pc = "exited"
    BY DEF Start, ReadEnds, FlagDown, EmitDisconnected, Broadcast, HandleUpdate, Dispatch, NetDown,
           Watch, BeginClosed, TakeHandle, Joined, CancelClose
  <1> QED
    BY <1>2, <1>4, <1>6, <1>7, Frame

LEMMA DieSteps ==
  ASSUME IInv, TypeOK', StartFails \/ HandlePostPanics \/ Exit
  PROVE  IInv'
  <1>1. Die /\ UNCHANGED <<callerVars, exchange>>
    BY DEF StartFails, HandlePostPanics, Exit
  <1>2. InFlight' \subseteq InFlight
    BY InboxTail DEF StartFails, HandlePostPanics, Exit, IInv, InFlight
  <1>3. InboxInv'
    BY <1>1, <1>2, InboxKeep DEF IInv
  <1> QED
    BY <1>1, <1>3, DieInv

(* The steps of the calls.                                                 *)
LEMMA BeginInv ==
  ASSUME IInv, TypeOK', NEW c \in Callers, Begin(c)
  PROVE  IInv'
  <1>1. /\ call \in [Callers \cup Waiters -> CallStates] /\ id \in [Requests -> Nat]
        /\ nextId \in Nat \ {0} /\ nextId' \in Nat /\ pending \subseteq Requests
        /\ Queued' = Queued /\ InFlight' = InFlight
    BY DEF Begin, IInv, TypeOK, Queued, InFlight
  <1>2. /\ call[c] = "idle" /\ call' = [call EXCEPT ![c] = "sending"]
        /\ UNCHANGED <<outcome, chan, cmds, pc, cur, pending, exchange>>
        /\ \A r \in Requests : \/ r = c /\ id'[r] = nextId /\ nextId' = nextId + 1
                               \/ r # c /\ id'[r] = id[r] /\ nextId' >= nextId
    BY <1>1 DEF Begin
  <1>3. IdsUnique'
    <2>1. \A r \in Requests : id[r] < nextId /\ id[r] \in Nat /\ (id[r] = 0 <=> call[r] = "idle")
      BY <1>1 DEF IInv
    <2>2. \A r \in Requests : id'[r] < nextId'
      BY <1>1, <1>2, <2>1
    <2>3. \A r \in Requests : id'[r] = 0 <=> call'[r] = "idle"
      BY <1>1, <1>2, <2>1
    <2>4. \A r, q \in Requests : id'[r] = id'[q] /\ id'[r] # 0 => r = q
      BY <1>1, <1>2, <2>1 DEF IInv
    <2> QED
      BY <2>2, <2>3, <2>4
  <1>4. InboxInv'
    BY <1>1, <1>2, InboxKeep DEF IInv
  <1>5. \A r \in Callers : Unsent(r)' <=> Unsent(r)
    BY <1>1, <1>2
  <1>6. QueueOnce'
    BY <1>1, <1>2, <1>5, QueuedCallers DEF IInv, QueueOnce
  <1>7. PlaceInv'
    BY <1>1, <1>2, <1>5 DEF IInv
  <1>8. AnswerInv'
    BY <1>1, <1>2, <1>5 DEF IInv
  <1>9. WaitingInv'
    BY <1>1, <1>2 DEF IInv
  <1> QED
    BY <1>3, <1>4, <1>6, <1>7, <1>8, <1>9 DEF IInv

LEMMA EnqueueInv ==
  ASSUME IInv, TypeOK', NEW c \in Callers, Enqueue(c)
  PROVE  IInv'
  <1>1. /\ call \in [Callers \cup Waiters -> CallStates] /\ outcome \in [Callers -> Outcomes]
        /\ pending \subseteq Requests /\ InFlight' = InFlight
    BY DEF Enqueue, IInv, TypeOK, InFlight
  <1>2. /\ call[c] = "sending" /\ call' = [call EXCEPT ![c] = AfterSend(c)]
        /\ UNCHANGED <<chan, pc, cur, pending, exchange, id, nextId>> /\ pc # "exited"
    BY DEF Enqueue
  <1>3. AfterSend(c) \in {"waiting", "done", "locking"} /\ (c \in Awaiting => AfterSend(c) = "waiting")
    BY CallsAssumption DEF AfterSend
  <1>4. \A r \in Requests : outcome'[r] = outcome[r]
    BY <1>1, CallsAssumption DEF Enqueue
  <1>5. c \notin Queued
    BY <1>2 DEF IInv, QueueOnce
  <1>6. /\ Queued' = Queued \cup {c}
        /\ \A i, j \in 1..Len(cmds') : cmds'[i] = cmds'[j] => i = j
    BY <1>5, QueueAppend DEF Enqueue, IInv, QueueOnce
  <1>7. /\ ~Unsent(c)' /\ Unsent(c)
        /\ \A r \in Callers \ {c} : Unsent(r)' <=> Unsent(r)
    BY <1>1, <1>2, <1>3
  <1>8. QueueOnce'
    BY <1>6, <1>7, QueuedCallers DEF IInv, QueueOnce
  <1>9. IdsUnique'
    BY <1>1, <1>2, <1>3 DEF IInv
  <1>10. InboxInv'
    BY <1>1, <1>2, InboxKeep DEF IInv
  <1>11. PlaceInv'
    BY <1>1, <1>2, <1>4, <1>6, <1>7 DEF IInv
  <1>12. AnswerInv'
    BY <1>2, <1>4, <1>6, <1>7 DEF IInv
  <1>13. WaitingInv'
    BY <1>1, <1>2, <1>3, <1>6 DEF IInv
  <1> QED
    BY <1>8, <1>9, <1>10, <1>11, <1>12, <1>13 DEF IInv

LEMMA SendFailsInv ==
  ASSUME IInv, TypeOK', NEW c \in Callers, SendFails(c)
  PROVE  IInv'
  <1>1. /\ call \in [Callers \cup Waiters -> CallStates] /\ outcome \in [Callers -> Outcomes]
        /\ InFlight' = InFlight /\ Queued' = Queued
    BY DEF SendFails, IInv, TypeOK, InFlight, Queued
  <1>2. /\ call[c] = "sending" /\ pc = "exited" /\ UNCHANGED <<chan, cmds, pc, cur, pending, exchange, id, nextId>>
        /\ \/ call' = [call EXCEPT ![c] = "locking"] /\ c \in Stoppers /\ UNCHANGED outcome
           \/ call' = [call EXCEPT ![c] = "done"] /\ outcome' = [outcome EXCEPT ![c] = "gone"]
    BY DEF SendFails
  <1>3. Queued = {} /\ pending = {} /\ cur = NoOne
    BY <1>2 DEF IInv, Queued
  <1>4. /\ ~Unsent(c)' /\ Unsent(c)
        /\ \A r \in Callers \ {c} : Unsent(r)' <=> Unsent(r)
    BY <1>1, <1>2
  <1>5. QueueOnce'
    BY <1>1, <1>2, <1>3 DEF IInv, QueueOnce
  <1>6. IdsUnique'
    BY <1>1, <1>2 DEF IInv
  <1>7. InboxInv'
    BY <1>1, <1>2, InboxKeep DEF IInv
  <1>8. PlaceInv'
    BY <1>1, <1>2, <1>3, <1>4 DEF IInv
  <1>9. AnswerInv'
    BY <1>1, <1>2, <1>3, <1>4, CallsAssumption DEF IInv
  <1>10. WaitingInv'
    BY <1>1, <1>2 DEF IInv
  <1> QED
    BY <1>5, <1>6, <1>7, <1>8, <1>9, <1>10 DEF IInv

LEMMA ReturnInv ==
  ASSUME IInv, TypeOK', NEW c \in Awaiting, Receive(c) \/ (c \in Requests /\ Timeout(c))
  PROVE  IInv'
  <1>1. /\ call \in [Callers \cup Waiters -> CallStates] /\ outcome \in [Callers -> Outcomes]
        /\ InFlight' = InFlight /\ Queued' = Queued
    BY DEF Receive, Timeout, IInv, TypeOK, InFlight, Queued
  <1>2. /\ call[c] = "waiting" /\ UNCHANGED <<chan, cmds, pc, cur, pending, exchange, id, nextId>>
        /\ call' = [call EXCEPT ![c] = "done"]
        /\ \/ chan[c] # "open" /\ outcome' = [outcome EXCEPT ![c] = chan[c]]
           \/ chan[c] = "open" /\ outcome' = [outcome EXCEPT ![c] = "timeout"]
    BY DEF Receive, Timeout
  <1>3. \A r \in Callers : Unsent(r)' <=> Unsent(r)
    BY <1>1, <1>2
  <1>4. QueueOnce'
    BY <1>1, <1>2, <1>3, QueuedCallers DEF IInv, QueueOnce
  <1>5. IdsUnique'
    BY <1>1, <1>2 DEF IInv
  <1>6. InboxInv'
    BY <1>1, <1>2, InboxKeep DEF IInv
  <1>7. PlaceInv'
    <2>1. pending \subseteq Requests
      BY DEF IInv, TypeOK
    <2>2. \A r \in Requests : outcome'[r] # outcome[r] => r = c
      BY <1>1, <1>2
    <2>3. \A r \in Requests : chan[r] = "open" /\ outcome'[r] # outcome[r] => outcome'[r] = "timeout"
      BY <1>1, <1>2
    <2> QED
      BY <1>1, <1>2, <1>3, <2>1, <2>2, <2>3 DEF IInv
  <1>8. AnswerInv'
    BY <1>1, <1>2, <1>3 DEF IInv
  <1>9. WaitingInv'
    BY <1>1, <1>2 DEF IInv
  <1> QED
    BY <1>4, <1>5, <1>6, <1>7, <1>8, <1>9 DEF IInv

(* The steps of the actor.                                                 *)
LEMMA HandlePostInv ==
  ASSUME IInv, TypeOK', HandlePost
  PROVE  IInv'
  <1> DEFINE m == Head(inbox)
             S == Entry(m.id)
  <1>1. /\ UNCHANGED <<call, outcome, nextId, id, cmds, pc, cur, exchange>>
        /\ pc = "loop" /\ pending' = pending \ S /\ chan' = Resolve(S, AnswerOf(m.body))
        /\ m \in InFlight /\ InFlight' \subseteq InFlight /\ Queued' = Queued
        /\ m.body \in {"ok", "failed", "ackOk", "ackError"}
    BY InboxTail DEF HandlePost, IInv, Queued
  <1>2. AnswerOf(m.body) \in {"responses", "failed", "ackOk", "ackError"}
    BY <1>1 DEF AnswerOf
  <1>3. \A r \in S : TrueOf(r, AnswerOf(m.body))
    <2>1. PICK q \in Requests : m.id # 0 /\ Tells(m, q)
      BY <1>1 DEF IInv, InboxInv
    <2>2. S \subseteq {q}
      BY <2>1 DEF IInv, Tells, TypeOK
    <2> QED
      BY <1>1, <2>1, <2>2 DEF Tells, AnswerOf
  <1>4. \A c \in Awaiting : \/ c \notin S /\ chan'[c] = chan[c]
                            \/ c \in S /\ chan[c] = "open" /\ chan'[c] = AnswerOf(m.body)
    BY <1>1 DEF IInv
  <1>5. InboxInv'
    BY <1>1, InboxKeep DEF IInv
  <1>6. QueueOnce' /\ IdsUnique'
    BY <1>1 DEF IInv, QueueOnce
  <1>7. PlaceInv'
    BY <1>1, <1>4, CallsAssumption DEF IInv, TypeOK
  <1>8. AnswerInv'
    BY <1>1, <1>3, <1>4 DEF IInv
  <1>9. WaitingInv'
    BY <1>1, <1>2, <1>4 DEF IInv
  <1> QED
    BY <1>5, <1>6, <1>7, <1>8, <1>9 DEF IInv

LEMMA TakeCommandInv ==
  ASSUME IInv, TypeOK', TakeCommand
  PROVE  IInv'
  <1> DEFINE h == Head(cmds)
  <1>1. /\ UNCHANGED <<call, outcome, nextId, id, exchange>>
        /\ pc = "loop" /\ cur = NoOne /\ cmds # <<>> /\ cmds' = Tail(cmds)
        /\ InFlight' = InFlight /\ pending \subseteq Requests
    BY DEF TakeCommand, TakeTx, TakeSubscribe, TakeGetOrders, TakeShutdown, InFlight, IInv, TypeOK
  <1>2. /\ h \in Queued /\ Queued' = Queued \ {h} /\ h \in Callers
        /\ \A i, j \in 1..Len(cmds') : cmds'[i] = cmds'[j] => i = j
    BY <1>1, QueueTail, QueuedCallers DEF IInv
  <1>3. QueueOnce'
    BY <1>1, <1>2 DEF QueueOnce, IInv
  <1>4. IdsUnique'
    BY <1>1 DEF IInv
  <1>5. InboxInv'
    BY <1>1, InboxKeep DEF IInv
  <1>6. CASE TakeTx
    <2>1. h \in Requests /\ cur' = h /\ pc' = "write" /\ pending' = (pending \ Entry(id[h])) \cup {h}
          /\ chan' = Resolve(Entry(id[h]), "dropped")
      BY <1>6 DEF TakeTx
    <2>2. ~Unsent(h) /\ h \notin pending
      BY <1>2, <2>1 DEF IInv, QueueOnce
    <2>3. Entry(id[h]) = {}
      BY <1>1, <2>1, <2>2 DEF IInv
    <2>4. \A c \in Awaiting : chan'[c] = chan[c]
      BY <2>1, <2>3
    <2>5. pending' = pending \cup {h}
      BY <2>1, <2>3
    <2> HIDE DEF h, Entry, Resolve
    <2>6. PlaceInv'
      BY <1>1, <1>2, <2>1, <2>2, <2>4, <2>5, CallsAssumption DEF IInv
    <2>7. AnswerInv'
      BY <1>1, <1>2, <2>1, <2>4 DEF IInv
    <2>8. WaitingInv'
      BY <1>1, <1>2, <2>4, <2>5 DEF IInv
    <2> QED
      BY <1>3, <1>4, <1>5, <2>6, <2>7, <2>8 DEF IInv
  <1>7. CASE TakeSubscribe \/ TakeShutdown
    <2>1. /\ h \in Subscribers \cup Stoppers /\ UNCHANGED <<pending, chan>>
          /\ \/ pc' = "write" /\ cur' = h
             \/ pc' = "flag" /\ UNCHANGED cur
      BY <1>7 DEF TakeSubscribe, TakeShutdown
    <2>2. h \notin Awaiting /\ h # NoOne
      BY <2>1, CallsAssumption
    <2> HIDE DEF h
    <2>3. PlaceInv'
      BY <1>1, <1>2, <2>1, <2>2 DEF IInv
    <2>4. AnswerInv'
      BY <1>1, <1>2, <2>1, <2>2, CallsAssumption DEF IInv
    <2>5. WaitingInv'
      BY <1>1, <1>2, <2>1, <2>2 DEF IInv
    <2> QED
      BY <1>3, <1>4, <1>5, <2>3, <2>4, <2>5 DEF IInv
  <1>8. CASE TakeGetOrders
    <2>1. /\ h \in Readers /\ UNCHANGED <<pc, cur, pending>> /\ chan' = Resolve({h}, "orders")
      BY <1>8 DEF TakeGetOrders
    <2>2. h \notin Requests
      BY <2>1, CallsAssumption
    <2>3. \A r \in Requests : chan'[r] = chan[r]
      BY <2>1, <2>2
    <2> HIDE DEF h
    <2>4. PlaceInv'
      BY <1>1, <1>2, <2>1, <2>3 DEF IInv
    <2>5. AnswerInv'
      BY <1>1, <1>2, <2>1, <2>2, <2>3 DEF IInv
    <2>6. WaitingInv'
      BY <1>1, <1>2, <2>1 DEF IInv
    <2> QED
      BY <1>3, <1>4, <1>5, <2>4, <2>5, <2>6 DEF IInv
  <1> QED
    BY <1>6, <1>7, <1>8 DEF TakeCommand

LEMMA WriteInv ==
  ASSUME IInv, TypeOK', WriteDone \/ WriteFails
  PROVE  IInv'
  <1>1. /\ UNCHANGED <<call, outcome, nextId, id, cmds>>
        /\ pc = "write" /\ pc' = "loop" /\ cur # NoOne /\ cur' = NoOne
        /\ InFlight' = InFlight /\ Queued' = Queued /\ pending \subseteq Requests
    BY DEF WriteDone, WriteFails, InFlight, Queued, IInv, TypeOK
  <1>2. QueueOnce' /\ IdsUnique'
    BY <1>1 DEF IInv, QueueOnce
  <1>3. CASE WriteDone
    <2>1. UNCHANGED <<chan, pending>>
      BY <1>3 DEF WriteDone
    <2>2. \A r \in Requests : r # cur => exchange'[r] = exchange[r]
      BY <1>3 DEF WriteDone, IInv, TypeOK
    <2>3. cur \in Requests => Undecided(cur) /\ cur \in pending /\ ~Unsent(cur)
      BY DEF IInv
    <2>4. InboxInv'
      BY <1>1, <2>2, <2>3, InboxKeep DEF IInv
    <2>5. PlaceInv'
      BY <1>1, <2>1, <2>2, <2>3, CallsAssumption DEF IInv
    <2>6. AnswerInv'
      BY <1>1, <2>1, <2>2, <2>3, CallsAssumption DEF IInv
    <2>7. WaitingInv'
      BY <1>1, <2>1 DEF IInv
    <2> QED
      BY <1>2, <2>4, <2>5, <2>6, <2>7 DEF IInv
  <1>4. CASE WriteFails
    <2>1. PICK S \in SUBSET Requests :
            /\ S \subseteq {cur} /\ pending' = pending \ S /\ chan' = Resolve(S, "sendError")
            /\ UNCHANGED exchange
      <3>1. CASE cur \in Requests
        <4>1. Entry(id[cur]) \subseteq {cur} /\ Entry(id[cur]) \subseteq Requests
          BY <1>1, <3>1 DEF IInv
        <4> QED
          BY <1>4, <3>1, <4>1 DEF WriteFails
      <3>2. CASE cur \notin Requests
        <4>1. pending' = pending \ {} /\ chan' = Resolve({}, "sendError") /\ UNCHANGED exchange
          <5> HIDE DEF Resolve, Entry
          <5>1. (IF cur \in Requests THEN Entry(id[cur]) ELSE {}) = {}
            BY <3>2
          <5> QED
            BY <1>4, <5>1, Zenon DEF WriteFails
        <4>2. {} \in SUBSET Requests /\ {} \subseteq {cur}
          OBVIOUS
        <4> HIDE DEF Resolve
        <4> QED
          BY <4>1, <4>2, Zenon
      <3> QED
        BY <3>1, <3>2
    <2>2. \A c \in Awaiting : \/ chan'[c] = chan[c] /\ (c \notin S \/ chan[c] # "open")
                              \/ chan'[c] = "sendError" /\ c = cur /\ c \in Requests
      BY <2>1
    <2>3. InboxInv'
      BY <1>1, <2>1, InboxKeep DEF IInv
    <2>4. PlaceInv'
      BY <1>1, <2>1, <2>2, CallsAssumption DEF IInv
    <2>5. AnswerInv'
      BY <1>1, <2>1, <2>2, CallsAssumption DEF IInv
    <2>6. WaitingInv'
      BY <1>1, <2>1, <2>2 DEF IInv
    <2> QED
      BY <1>2, <2>3, <2>4, <2>5, <2>6 DEF IInv
  <1> QED
    BY <1>3, <1>4

LEMMA DrainInv ==
  ASSUME IInv, TypeOK', NEW r \in Requests, DrainPending(r)
  PROVE  IInv'
  <1>1. /\ UNCHANGED <<call, outcome, nextId, id, cmds, pc, cur, exchange>> /\ cur = NoOne
        /\ InFlight' = InFlight /\ Queued' = Queued /\ pc = "drain" /\ r \in pending
        /\ pending' = pending \ {r} /\ chan' = Resolve({r}, "disconnected")
        /\ pending \subseteq Requests
    BY DEF DrainPending, InFlight, Queued, IInv, TypeOK
  <1>2. \A c \in Awaiting : \/ c # r /\ chan'[c] = chan[c]
                            \/ c = r /\ chan'[c] = "disconnected"
    BY <1>1 DEF IInv
  <1>3. QueueOnce' /\ IdsUnique'
    BY <1>1 DEF IInv, QueueOnce
  <1>4. InboxInv'
    BY <1>1, InboxKeep DEF IInv
  <1>5. PlaceInv'
    BY <1>1, <1>2, CallsAssumption DEF IInv
  <1>6. AnswerInv'
    BY <1>1, <1>2 DEF IInv
  <1>7. WaitingInv'
    BY <1>1, <1>2 DEF IInv
  <1> QED
    BY <1>3, <1>4, <1>5, <1>6, <1>7 DEF IInv

(* The steps of the exchange.                                              *)
LEMMA ExecuteInv ==
  ASSUME IInv, TypeOK', NEW r \in Requests, NEW v \in {"accepted", "rejected"}, Execute(r, v)
  PROVE  IInv'
  <1>1. /\ UNCHANGED <<call, outcome, nextId, id, cmds, chan, pc, cur, pending>>
        /\ InFlight' = InFlight /\ Queued' = Queued
    BY DEF Execute, InFlight, Queued
  <1>2. exchange[r] = "received" /\ exchange'[r] = v
        /\ \A q \in Requests \ {r} : exchange'[q] = exchange[q]
    BY DEF Execute, IInv, TypeOK
  <1>3. QueueOnce' /\ IdsUnique' /\ WaitingInv'
    BY <1>1 DEF IInv, QueueOnce
  <1>4. InboxInv'
    BY <1>1, <1>2, InboxKeep DEF IInv
  <1>5. PlaceInv'
    BY <1>1, <1>2 DEF IInv
  <1>6. AnswerInv'
    BY <1>1, <1>2 DEF IInv
  <1> QED
    BY <1>3, <1>4, <1>5, <1>6 DEF IInv

LEMMA AnswerStepInv ==
  ASSUME IInv, TypeOK', NEW r \in Requests, NEW v \in {"accepted", "rejected"}, NEW b \in Bodies,
         Answer(r, v, b)
  PROVE  IInv'
  <1> DEFINE m == [id |-> id[r], body |-> b]
  <1>1. /\ UNCHANGED <<call, outcome, nextId, id, cmds, chan, pc, cur, pending>>
        /\ Queued' = Queued
    BY DEF Answer, Queued
  <1>2. /\ exchange[r] = v
        /\ exchange'[r] = IF v = "accepted" THEN "toldAccepted" ELSE "toldRejected"
        /\ \A q \in Requests \ {r} : exchange'[q] = exchange[q]
    BY DEF Answer, IInv, TypeOK
  <1>3. \A q \in Requests : (Accepted(q) <=> Accepted(q)') /\ (Rejected(q) <=> Rejected(q)')
    BY <1>2
  <1>4. QueueOnce' /\ IdsUnique' /\ WaitingInv'
    BY <1>1 DEF IInv, QueueOnce
  <1>5. InboxInv'
    <2>1. m \in Messages
      BY BoundsAssumption DEF IInv, TypeOK, Messages
    <2>2. InFlight' = InFlight \cup {m}
      BY <2>1, InboxAppend DEF Answer, IInv
    <2>3. m.id # 0
      BY <1>2 DEF IInv
    <2>4. Tells(m, r)'
      BY <1>1, <1>2 DEF Answer, Telling, Tells
    <2>5. ASSUME NEW n \in InFlight, n.body \in Replies
          PROVE  n.id # 0 /\ \E q \in Requests : Tells(n, q)'
      <3>1. PICK q \in Requests : n.id # 0 /\ Tells(n, q)
        BY <2>5 DEF IInv, InboxInv
      <3> QED
        BY <1>1, <1>3, <3>1 DEF Tells
    <2>6. m' = m
      BY <1>1
    <2> HIDE DEF m
    <2> QED
      BY <2>2, <2>3, <2>4, <2>5, <2>6 DEF InboxInv
  <1>6. PlaceInv'
    BY <1>1, <1>2 DEF IInv
  <1>7. AnswerInv'
    BY <1>1, <1>2, <1>3 DEF IInv
  <1> QED
    BY <1>4, <1>5, <1>6, <1>7 DEF IInv

LEMMA PushUpdateInv ==
  ASSUME IInv, TypeOK', PushUpdate
  PROVE  IInv'
  <1>1. UNCHANGED <<call, outcome, nextId, id, cmds, chan, pc, cur, pending, exchange>>
    BY DEF PushUpdate
  <1>2. [id |-> 0, body |-> "update"] \in Messages
    BY DEF Messages
  <1>3. InFlight' = InFlight \cup {[id |-> 0, body |-> "update"]}
    BY <1>2, InboxAppend DEF PushUpdate, IInv
  <1>4. InboxInv'
    <2> SUFFICES ASSUME NEW m \in InFlight', m.body \in Replies
                 PROVE  m.id # 0 /\ \E r \in Requests : Tells(m, r)'
      BY DEF InboxInv
    <2>1. PICK r \in Requests : m.id # 0 /\ Tells(m, r)
      BY <1>3 DEF IInv, InboxInv
    <2> QED
      BY <1>1, <2>1 DEF Tells
  <1> QED
    BY <1>1, <1>4, Frame

LEMMA InvStep == IInv /\ [Next]_vars => IInv'
  <1> SUFFICES ASSUME IInv, [Next]_vars PROVE IInv'
    OBVIOUS
  <1>1. TypeOK'
    BY TypeStep DEF IInv
  <1>2. CASE UNCHANGED vars
    <2>1. /\ UNCHANGED <<call, outcome, nextId, id, cmds, chan, pc, cur, pending, exchange>>
          /\ InFlight' = InFlight
      BY <1>2 DEF vars, InFlight
    <2>2. InboxInv'
      BY <2>1, InboxKeep DEF IInv
    <2> QED
      BY <1>1, <2>1, <2>2, Frame
  <1>3. CASE Next
    <2>1. ASSUME NEW c \in Callers, CallStep(c) PROVE IInv'
      BY <1>1, <2>1, BeginInv, EnqueueInv, SendFailsInv DEF CallStep
    <2>2. ASSUME NEW c \in Awaiting, Receive(c) PROVE IInv'
      <3>1. Receive(c) \/ (c \in Requests /\ Timeout(c))
        BY <2>2
      <3> QED
        BY <1>1, <3>1, ReturnInv
    <2>3. ASSUME NEW r \in Requests, Timeout(r) PROVE IInv'
      BY <1>1, <2>3, ReturnInv DEF Awaiting
    <2>4. ASSUME \/ Start \/ ReadEnds \/ FlagDown \/ EmitDisconnected \/ Broadcast
                 \/ HandleUpdate \/ Dispatch \/ NetDown
                 \/ \E w \in Watchers : Watch(w)
                 \/ \E c \in Waiters : BeginClosed(c)
                 \/ \E c \in Closers : CloseStep(c) \/ CancelClose(c)
          PROVE  IInv'
      BY <1>1, <2>4, FrameSteps DEF CloseStep
    <2>5. ASSUME StartFails \/ HandlePostPanics \/ Exit PROVE IInv'
      BY <1>1, <2>5, DieSteps
    <2>6. ASSUME NEW r \in Requests, DrainPending(r) PROVE IInv'
      BY <1>1, <2>6, DrainInv
    <2>7. ASSUME NEW r \in Requests, NEW v \in {"accepted", "rejected"},
                 Execute(r, v) \/ \E b \in Bodies : Answer(r, v, b)
          PROVE  IInv'
      BY <1>1, <2>7, ExecuteInv, AnswerStepInv
    <2> HIDE DEF Callers, Closers, Awaiting
    <2> QED
      BY <1>1, <1>3, <2>1, <2>2, <2>3, <2>4, <2>5, <2>6, <2>7,
         HandlePostInv, TakeCommandInv, WriteInv, PushUpdateInv
      DEF Next, HandleMessage, Teardown
  <1> QED
    BY <1>2, <1>3

(* IInv is an inductive invariant of the specification.                    *)
THEOREM Inductive == Spec => []IInv
  BY InvInit, InvStep, PTL DEF Spec

(* What place_orders and update_oracle return about the exchange is true   *)
(* of the call's own request, whatever the interleaving of replies,        *)
(* timeouts, write failures and the end of the actor.                      *)
THEOREM AnswersTrue == Spec => []AnswersAreTrue
  <1>1. IInv => AnswersAreTrue
    BY DEF IInv, AnswersAreTrue
  <1> QED
    BY <1>1, Inductive, PTL

(* No call waits for a oneshot whose sender died with the actor, a panic   *)
(* of the actor included.                                                  *)
THEOREM NoStranded == Spec => []NoStrandedCall
  <1>1. IInv => NoStrandedCall
    BY LenProperties DEF IInv, NoStrandedCall, Queued, TypeOK
  <1> QED
    BY <1>1, Inductive, PTL

-----------------------------------------------------------------------------
(* The answer to a pending request that the exchange has given is still in *)
(* flight as long as the connection lasts; what is no reply has no id.     *)
Told(r) == exchange[r] \in {"toldAccepted", "toldRejected"}
StaleInv ==
  /\ \A m \in InFlight : m.body = "update" => m.id = 0
  /\ net = "up" => \A r \in pending : Told(r) => \E m \in InFlight : m.id = id[r]

LEMMA StaleInit == Init => StaleInv
  BY DEF Init, StaleInv, InFlight

(* A step that takes no answer to a request it leaves pending.             *)
LEMMA StaleKeep ==
  ASSUME StaleInv, InFlight' \subseteq InFlight,
         net' = "up" => net = "up",
         \A r \in pending' : Told(r)' => r \in pending /\ Told(r) /\ id'[r] = id[r],
         \A r \in pending', m \in InFlight \ InFlight' : net' = "up" => m.id # id'[r]
  PROVE  StaleInv'
  BY DEF StaleInv

(* The steps that leave the messages in flight alone.                      *)
LEMMA StaleQuiet ==
  ASSUME IInv, StaleInv, UNCHANGED inbox, net' = net, [Next]_vars
  PROVE  StaleInv'
  <1>1. InFlight' = InFlight
    BY DEF InFlight
  <1>2. pending \subseteq Requests /\ \A r \in pending : call[r] # "idle"
    BY DEF IInv, TypeOK
  <1>3. \A r \in pending : id'[r] = id[r]
    <2>1. UNCHANGED id \/ \E c \in Callers : Begin(c)
      BY DEF Next, vars, CallStep, Enqueue, SendFails, Receive, Timeout, BeginClosed, CloseStep,
             TakeHandle, Joined, CancelClose, Watch, Start, StartFails, ReadEnds, HandleMessage,
             HandlePost, HandlePostPanics, HandleUpdate, TakeCommand, TakeTx, TakeSubscribe,
             TakeGetOrders, TakeShutdown, WriteDone, WriteFails, Teardown, FlagDown, DrainPending,
             EmitDisconnected, Broadcast, Exit, Dispatch, Execute, Answer, PushUpdate, NetDown
    <2> QED
      BY <1>2, <2>1 DEF Begin, IInv, TypeOK
  <1>4. \A r \in Requests : Told(r)' => Told(r)
    <2>1. \/ UNCHANGED exchange
          \/ WriteDone
          \/ \E r \in Requests, v \in {"accepted", "rejected"} :
               Execute(r, v) \/ \E b \in Bodies : Answer(r, v, b)
      BY DEF Next, vars, CallStep, Begin, Enqueue, SendFails, Receive, Timeout, BeginClosed,
             CloseStep, TakeHandle, Joined, CancelClose, Watch, Start, StartFails, ReadEnds,
             HandleMessage, HandlePost, HandlePostPanics, HandleUpdate, TakeCommand, TakeTx,
             TakeSubscribe, TakeGetOrders, TakeShutdown, WriteFails, Teardown, FlagDown,
             DrainPending, EmitDisconnected, Broadcast, Exit, Dispatch, PushUpdate, NetDown
    <2>2. \A r \in Requests : \A v, b : ~Answer(r, v, b)
      <3> SUFFICES ASSUME NEW r \in Requests, NEW v, NEW b, Answer(r, v, b) PROVE FALSE
        OBVIOUS
      <3>1. inbox \in Seq(Messages) /\ inbox' = Append(inbox, [id |-> id[r], body |-> b])
            /\ b \in Bodies /\ id[r] \in Nat
        BY DEF Answer, IInv, TypeOK
      <3>2. [id |-> id[r], body |-> b] \in Messages
        BY <3>1, BoundsAssumption DEF Messages
      <3>3. Len(inbox') = Len(inbox) + 1 /\ Len(inbox) \in Nat
        BY <3>1, <3>2, AppendProperties, LenProperties
      <3> QED
        BY <3>3
    <2>3. CASE UNCHANGED exchange
      BY <2>3 DEF Told
    <2>4. CASE WriteDone
      BY <2>4 DEF WriteDone, Told, IInv, TypeOK
    <2>5. ASSUME NEW r \in Requests, NEW v \in {"accepted", "rejected"}, Execute(r, v)
          PROVE  \A q \in Requests : Told(q)' => Told(q)
      BY <2>5 DEF Execute, Told, IInv, TypeOK
    <2> QED
      BY <2>1, <2>2, <2>3, <2>4, <2>5
  <1>5. \A r \in pending' : r \in pending \/ (r \in Requests /\ ~Told(r))
    <2>1. pending' \subseteq pending \/ TakeTx
      BY DEF Next, vars, CallStep, Begin, Enqueue, SendFails, Receive, Timeout, BeginClosed,
             CloseStep, TakeHandle, Joined, CancelClose, Watch, Start, StartFails, ReadEnds,
             HandleMessage, HandlePost, HandlePostPanics, HandleUpdate, TakeCommand,
             TakeSubscribe, TakeGetOrders, TakeShutdown, WriteDone, WriteFails, Teardown, FlagDown,
             DrainPending, EmitDisconnected, Broadcast, Exit, Dispatch, Execute, Answer, PushUpdate,
             NetDown
    <2>2. CASE TakeTx
      <3>1. Head(cmds) \in Queued /\ Head(cmds) \in Requests
        BY <2>2, QueueTail DEF TakeTx, IInv
      <3>2. exchange[Head(cmds)] = "none"
        BY <3>1 DEF IInv
      <3>3. pending' \subseteq pending \cup {Head(cmds)}
        BY <2>2 DEF TakeTx
      <3> QED
        BY <3>1, <3>2, <3>3 DEF Told
    <2> QED
      BY <2>1, <2>2
  <1> QED
    BY <1>1, <1>2, <1>3, <1>4, <1>5, StaleKeep

(* A message is taken: a reply takes its request out of the map.           *)
LEMMA StaleTake ==
  ASSUME IInv, StaleInv, HandlePost \/ HandlePostPanics \/ HandleUpdate
  PROVE  StaleInv'
  <1>1. inbox \in Seq(Messages) /\ inbox # <<>> /\ inbox' = Tail(inbox)
    BY DEF HandlePost, HandlePostPanics, HandleUpdate, IInv, TypeOK
  <1>2. InFlight' \subseteq InFlight /\ Head(inbox) \in InFlight
    BY <1>1, InboxTail DEF IInv
  <1>3. InFlight \subseteq InFlight' \cup {Head(inbox)}
    <2>1. /\ Head(inbox) = inbox[1] /\ Len(inbox') = Len(inbox) - 1 /\ Len(inbox) \in Nat
          /\ \A i \in 1..Len(inbox') : inbox'[i] = inbox[i + 1]
      BY <1>1, TailFacts
    <2>2. \A i \in 1..Len(inbox) : i # 1 => i - 1 \in 1..Len(inbox') /\ inbox'[i - 1] = inbox[i]
      BY <2>1
    <2> QED
      BY <2>1, <2>2 DEF InFlight
  <1>4. UNCHANGED <<id, exchange, net>>
    BY DEF HandlePost, HandlePostPanics, HandleUpdate
  <1>5. pending' \subseteq pending /\ pending \subseteq Requests
    BY DEF HandlePost, HandlePostPanics, HandleUpdate, IInv, TypeOK
  <1>6. \A r \in pending' : Head(inbox).id # id'[r]
    <2>1. CASE HandlePost
      BY <1>4, <2>1 DEF HandlePost
    <2>2. CASE HandlePostPanics
      BY <2>2 DEF HandlePostPanics
    <2>3. CASE HandleUpdate
      <3>1. Head(inbox).id = 0
        BY <1>2, <2>3 DEF HandleUpdate, StaleInv
      <3>2. \A r \in pending : id[r] # 0
        BY <1>5 DEF IInv
      <3> QED
        BY <1>4, <1>5, <3>1, <3>2
    <2> QED
      BY <2>1, <2>2, <2>3
  <1>7. \A r \in pending' : Told(r)' => r \in pending /\ Told(r) /\ id'[r] = id[r]
    BY <1>4, <1>5 DEF Told
  <1> QED
    BY <1>2, <1>3, <1>4, <1>6, <1>7, StaleKeep

(* A message is added: an answer is in flight from then on.                *)
LEMMA StaleAdd ==
  ASSUME IInv, StaleInv,
         \/ PushUpdate
         \/ \E r \in Requests, v \in {"accepted", "rejected"}, b \in Bodies : Answer(r, v, b)
  PROVE  StaleInv'
  <1>1. UNCHANGED <<id, pending, net>> /\ pending \subseteq Requests
    BY DEF PushUpdate, Answer, IInv, TypeOK
  <1>2. CASE PushUpdate
    <2>1. [id |-> 0, body |-> "update"] \in Messages
      BY DEF Messages
    <2>2. InFlight' = InFlight \cup {[id |-> 0, body |-> "update"]}
      BY <1>2, <2>1, InboxAppend DEF PushUpdate, IInv
    <2>3. UNCHANGED exchange
      BY <1>2 DEF PushUpdate
    <2> QED
      BY <1>1, <2>2, <2>3 DEF StaleInv, Told
  <1>3. ASSUME NEW r \in Requests, NEW v \in {"accepted", "rejected"}, NEW b \in Bodies,
               Answer(r, v, b)
        PROVE  StaleInv'
    <2> DEFINE m == [id |-> id[r], body |-> b]
    <2>1. inbox' = Append(inbox, m) /\ m \in Messages
      BY <1>3, BoundsAssumption DEF Answer, Messages, IInv, TypeOK
    <2>2. InFlight' = InFlight \cup {m}
      BY <2>1, InboxAppend DEF IInv
    <2>3. m.id = id[r] /\ m.body # "update"
      BY <1>3 DEF Answer, Telling
    <2>4. \A q \in Requests : q # r => (Told(q)' <=> Told(q))
      BY <1>3 DEF Answer, Told, IInv, TypeOK
    <2> HIDE DEF m
    <2> QED
      BY <1>1, <2>2, <2>3, <2>4 DEF StaleInv
  <1> QED
    BY <1>2, <1>3

LEMMA StaleStep == IInv /\ StaleInv /\ [Next]_vars => StaleInv'
  <1> SUFFICES ASSUME IInv, StaleInv, [Next]_vars PROVE StaleInv'
    OBVIOUS
  <1>1. CASE NetDown
    <2>1. InFlight' \subseteq InFlight
      BY <1>1 DEF NetDown, InFlight
    <2> QED
      BY <1>1, <2>1 DEF NetDown, StaleInv
  <1>2. ASSUME ~NetDown,
               ~(HandlePost \/ HandlePostPanics \/ HandleUpdate \/ PushUpdate),
               \A r \in Requests, v \in {"accepted", "rejected"}, b \in Bodies : ~Answer(r, v, b)
        PROVE  UNCHANGED inbox /\ net' = net
    BY <1>2
    DEF Next, vars, CallStep, Begin, Enqueue, SendFails, Receive, Timeout, BeginClosed, CloseStep,
        TakeHandle, Joined, CancelClose, Watch, Start, StartFails, ReadEnds, HandleMessage,
        TakeCommand, TakeTx, TakeSubscribe, TakeGetOrders, TakeShutdown, WriteDone, WriteFails,
        Teardown, FlagDown, DrainPending, EmitDisconnected, Broadcast, Exit, Dispatch, Execute
  <1> QED
    BY <1>1, <1>2, StaleQuiet, StaleTake, StaleAdd

(* The map of pending requests holds no entry whose sender was used, and   *)
(* none whose answer has been handled while the connection lasts.          *)
THEOREM NothingStale == Spec => []NoStaleEntry
  <1>1. IInv /\ StaleInv => NoStaleEntry
    BY DEF IInv, StaleInv, NoStaleEntry, InFlight, Told
  <1> QED
    BY <1>1, StaleInit, StaleStep, Inductive, PTL DEF Spec

-----------------------------------------------------------------------------
(* The contract, and the end of the connection.                            *)

USE DEF Callers, Closers, Awaiting, callerVars, actorVars, closeVars, eventVars, netVars,
        Emit, Die, Replies, AllBodies, ExchangeStates

(* The caller's view of a request does not change.                         *)
Same(r) ==
  PhaseOf(r)' = PhaseOf(r) /\ ResultOf(r)' = ResultOf(r) /\ VerdictOf(r)' = VerdictOf(r)

(* The step of the contract that each change of that view is.              *)
LEMMA NothingSeen ==
  ASSUME \A r \in Requests : Same(r)
  PROVE  UNCHANGED Contract!vars
  BY DEF Contract!vars, Same

LEMMA SeenAsIssue ==
  ASSUME NEW r \in Requests, PhaseOf(r) = "new", PhaseOf(r)' = "open",
         ResultOf(r)' = ResultOf(r), VerdictOf(r)' = VerdictOf(r),
         \A q \in Requests \ {r} : Same(q)
  PROVE  Contract!Next
  <1>1. Contract!Issue(r)
    BY DEF Contract!Issue, Same
  <1> QED
    BY <1>1 DEF Contract!Next

LEMMA SeenAsReturn ==
  ASSUME NEW r \in Requests, NEW a \in Contract!Results,
         PhaseOf(r) = "open", PhaseOf(r)' = "done",
         ResultOf(r)' = a, VerdictOf(r)' = VerdictOf(r),
         \/ a \in {"accepted", "rejected"} /\ VerdictOf(r) = a
         \/ a = "notSent" /\ VerdictOf(r) = "none"
         \/ a = "unknown",
         \A q \in Requests \ {r} : Same(q)
  PROVE  Contract!Next
  <1>1. Contract!Return(r, a)
    BY DEF Contract!Return, Contract!Verdicts, Same
  <1> QED
    BY <1>1 DEF Contract!Next

LEMMA SeenAsExecute ==
  ASSUME NEW r \in Requests, NEW v \in {"accepted", "rejected"},
         PhaseOf(r) # "new", VerdictOf(r) = "none", ResultOf(r) # "notSent",
         VerdictOf(r)' = v, PhaseOf(r)' = PhaseOf(r), ResultOf(r)' = ResultOf(r),
         \A q \in Requests \ {r} : Same(q)
  PROVE  Contract!Next
  <1>1. Contract!Execute(r, v) /\ v \in Contract!Verdicts
    BY DEF Contract!Execute, Contract!Verdicts, Same
  <1> QED
    BY <1>1 DEF Contract!Next

LEMMA KeptIsSame ==
  ASSUME NEW r \in Requests,
         call'[r] = call[r], outcome'[r] = outcome[r], exchange'[r] = exchange[r]
  PROVE  Same(r)
  BY DEF Same, PhaseOf, ResultOf, VerdictOf, Accepted, Rejected

-----------------------------------------------------------------------------
LEMMA ContractInit == Init => Contract!Init
  <1> SUFFICES ASSUME Init PROVE Contract!Init
    OBVIOUS
  <1>1. \A r \in Requests : call[r] = "idle" /\ outcome[r] = "none" /\ exchange[r] = "none"
    BY DEF Init
  <1>2. \A r \in Requests : PhaseOf(r) = "new" /\ ResultOf(r) = "none" /\ VerdictOf(r) = "none"
    BY <1>1 DEF PhaseOf, ResultOf, VerdictOf, Accepted, Rejected
  <1> QED
    BY <1>2 DEF Contract!Init

(* The steps of the calls.                                                 *)
LEMMA CallSteps ==
  ASSUME IInv, NEW c \in Callers, CallStep(c)
  PROVE  Contract!Next \/ UNCHANGED Contract!vars
  <1>1. /\ call \in [Callers \cup Waiters -> CallStates] /\ outcome \in [Callers -> Outcomes]
        /\ UNCHANGED exchange
    BY DEF IInv, TypeOK, CallStep, Begin, Enqueue, SendFails
  <1>2. \A q \in Requests \ {c} : Same(q)
    BY <1>1, KeptIsSame DEF CallStep, Begin, Enqueue, SendFails
  <1>3. CASE c \notin Requests
    BY <1>2, <1>3, NothingSeen
  <1>4. CASE c \in Requests /\ Begin(c)
    <2>1. PhaseOf(c) = "new" /\ PhaseOf(c)' = "open"
      BY <1>1, <1>4 DEF Begin, PhaseOf
    <2>2. ResultOf(c)' = ResultOf(c) /\ VerdictOf(c)' = VerdictOf(c)
      BY <1>1, <1>4 DEF Begin, ResultOf, VerdictOf, Accepted, Rejected
    <2> QED
      BY <1>2, <1>4, <2>1, <2>2, SeenAsIssue
  <1>5. CASE c \in Requests /\ Enqueue(c)
    <2>1. call[c] = "sending" /\ call'[c] = "waiting" /\ outcome'[c] = outcome[c]
      BY <1>1, <1>5, CallsAssumption DEF Enqueue, AfterSend
    <2>2. Same(c)
      BY <1>1, <2>1 DEF Same, PhaseOf, ResultOf, VerdictOf, Accepted, Rejected
    <2> QED
      BY <1>2, <2>2, NothingSeen
  <1>6. CASE c \in Requests /\ SendFails(c)
    <2>1. call[c] = "sending" /\ call'[c] = "done" /\ outcome'[c] = "gone"
      BY <1>1, <1>6, CallsAssumption DEF SendFails
    <2>2. exchange[c] = "none"
      BY <1>6, <2>1 DEF IInv, PlaceInv, Unsent, Undecided
    <2>3. PhaseOf(c) = "open" /\ PhaseOf(c)' = "done" /\ ResultOf(c)' = "notSent"
      BY <2>1 DEF PhaseOf, ResultOf
    <2>4. VerdictOf(c)' = VerdictOf(c) /\ VerdictOf(c) = "none"
      BY <1>1, <2>2 DEF VerdictOf, Accepted, Rejected
    <2> QED
      BY <1>2, <1>6, <2>3, <2>4, SeenAsReturn DEF Contract!Results
  <1> QED
    BY <1>3, <1>4, <1>5, <1>6 DEF CallStep

LEMMA ReceiveStep ==
  ASSUME IInv, NEW c \in Awaiting, Receive(c) \/ (c \in Requests /\ Timeout(c))
  PROVE  Contract!Next \/ UNCHANGED Contract!vars
  <1>1. /\ call \in [Callers \cup Waiters -> CallStates] /\ outcome \in [Callers -> Outcomes]
        /\ chan[c] \in ChanStates
    BY DEF IInv, TypeOK
  <1>2. PICK a \in ChanStates \cup {"timeout"} :
          /\ a # "open"
          /\ a = chan[c] \/ a = "timeout"
          /\ call[c] = "waiting"
          /\ call' = [call EXCEPT ![c] = "done"]
          /\ outcome' = [outcome EXCEPT ![c] = a]
          /\ UNCHANGED exchange
    BY <1>1 DEF Receive, Timeout
  <1>3. \A q \in Requests \ {c} : Same(q)
    BY <1>1, <1>2, KeptIsSame
  <1>4. CASE c \notin Requests
    BY <1>3, <1>4, NothingSeen
  <1>5. CASE c \in Requests
    <2>1. PhaseOf(c) = "open" /\ PhaseOf(c)' = "done"
      BY <1>1, <1>2 DEF PhaseOf
    <2>2. VerdictOf(c)' = VerdictOf(c)
      BY <1>2 DEF VerdictOf, Accepted, Rejected
    <2>3. outcome'[c] = a
      BY <1>1, <1>2
    <2>4. TrueOf(c, chan[c])
      BY <1>5 DEF IInv, AnswerInv
    <2>5. CASE a \in {"responses", "ackOk"}
      <3>1. ResultOf(c)' = "accepted"
        BY <2>3, <2>5 DEF ResultOf
      <3>2. VerdictOf(c) = "accepted"
        BY <1>2, <2>4, <2>5 DEF TrueOf, VerdictOf, Accepted, Rejected
      <3> QED
        BY <1>3, <1>5, <2>1, <2>2, <3>1, <3>2, SeenAsReturn DEF Contract!Results
    <2>6. CASE a \in {"failed", "ackError"}
      <3>1. ResultOf(c)' = "rejected"
        BY <2>3, <2>6 DEF ResultOf
      <3>2. VerdictOf(c) = "rejected"
        BY <1>2, <2>4, <2>6 DEF TrueOf, VerdictOf, Accepted, Rejected
      <3> QED
        BY <1>3, <1>5, <2>1, <2>2, <3>1, <3>2, SeenAsReturn DEF Contract!Results
    <2>7. CASE a = "sendError"
      <3>1. ResultOf(c)' = "notSent"
        BY <2>3, <2>7 DEF ResultOf
      <3>2. VerdictOf(c) = "none"
        BY <1>2, <2>4, <2>7 DEF TrueOf, NeverSent, VerdictOf, Accepted, Rejected
      <3> QED
        BY <1>3, <1>5, <2>1, <2>2, <3>1, <3>2, SeenAsReturn DEF Contract!Results
    <2>8. CASE a \in {"dropped", "disconnected", "orders", "timeout"}
      <3>1. ResultOf(c)' = "unknown"
        BY <2>3, <2>8 DEF ResultOf
      <3> QED
        BY <1>3, <1>5, <2>1, <2>2, <3>1, SeenAsReturn DEF Contract!Results
    <2> QED
      BY <1>2, <2>5, <2>6, <2>7, <2>8 DEF ChanStates, Answers
  <1> QED
    BY <1>4, <1>5

(* The exchange executes a request.                                        *)
LEMMA ExecuteStep ==
  ASSUME IInv, NEW r \in Requests, NEW v \in {"accepted", "rejected"}, Execute(r, v)
  PROVE  Contract!Next
  <1>1. /\ exchange \in [Requests -> ExchangeStates] /\ exchange[r] = "received"
        /\ exchange' = [exchange EXCEPT ![r] = v] /\ UNCHANGED <<call, outcome>>
    BY DEF IInv, TypeOK, Execute
  <1>2. \A q \in Requests \ {r} : Same(q)
    BY <1>1, KeptIsSame
  <1>3. call[r] # "idle"
    BY <1>1 DEF IInv, PlaceInv, Unsent, Undecided
  <1>4. outcome[r] \notin {"sendError", "gone"}
    BY <1>1 DEF IInv, AnswerInv, TrueOf, NeverSent
  <1>5. PhaseOf(r) # "new" /\ PhaseOf(r)' = PhaseOf(r)
    BY <1>1, <1>3 DEF PhaseOf
  <1>6. ResultOf(r) # "notSent" /\ ResultOf(r)' = ResultOf(r)
    BY <1>1, <1>4 DEF ResultOf
  <1>7. VerdictOf(r) = "none" /\ VerdictOf(r)' = v
    BY <1>1 DEF VerdictOf, Accepted, Rejected
  <1> QED
    BY <1>2, <1>5, <1>6, <1>7, SeenAsExecute

(* A request arrives at the exchange, or is answered by it: the verdict    *)
(* stays what it is.                                                       *)
LEMMA ExchangeSteps ==
  ASSUME IInv,
         WriteDone \/ \E r \in Requests, v \in {"accepted", "rejected"}, b \in Bodies : Answer(r, v, b)
  PROVE  UNCHANGED Contract!vars
  <1>1. exchange \in [Requests -> ExchangeStates] /\ UNCHANGED <<call, outcome>>
    BY DEF IInv, TypeOK, WriteDone, Answer
  <1>2. CASE WriteDone
    <2> SUFFICES ASSUME NEW q \in Requests PROVE Same(q)
      BY NothingSeen
    <2>1. exchange'[q] = exchange[q] \/ (exchange[q] = "none" /\ exchange'[q] = "received")
      BY <1>1, <1>2 DEF WriteDone, IInv, PlaceInv, Undecided
    <2> QED
      BY <1>1, <2>1 DEF Same, PhaseOf, ResultOf, VerdictOf, Accepted, Rejected
  <1>3. ASSUME NEW r \in Requests, NEW v \in {"accepted", "rejected"}, NEW b \in Bodies,
               Answer(r, v, b)
        PROVE  UNCHANGED Contract!vars
    <2> SUFFICES ASSUME NEW q \in Requests PROVE Same(q)
      BY NothingSeen
    <2>1. \/ exchange'[q] = exchange[q]
          \/ exchange[q] = "accepted" /\ exchange'[q] = "toldAccepted"
          \/ exchange[q] = "rejected" /\ exchange'[q] = "toldRejected"
      BY <1>1, <1>3 DEF Answer
    <2> QED
      BY <1>1, <2>1 DEF Same, PhaseOf, ResultOf, VerdictOf, Accepted, Rejected
  <1> QED
    BY <1>2, <1>3

(* The other steps of the actor and its environment, and those of shutdown *)
(* and closed, touch no trading call and no verdict.                       *)
LEMMA UnseenSteps ==
  ASSUME IInv,
         \/ Start \/ StartFails \/ ReadEnds \/ HandleMessage \/ TakeCommand
         \/ WriteFails \/ Teardown \/ Dispatch \/ PushUpdate \/ NetDown
         \/ \E w \in Watchers : Watch(w)
         \/ UNCHANGED vars
  PROVE  UNCHANGED Contract!vars
  <1>1. UNCHANGED <<call, outcome, exchange>>
    BY DEF Start, StartFails, ReadEnds, HandleMessage, HandlePost, HandlePostPanics, HandleUpdate,
           TakeCommand, TakeTx, TakeSubscribe, TakeGetOrders, TakeShutdown, WriteFails,
           Teardown, FlagDown, DrainPending, EmitDisconnected, Broadcast, Exit,
           Dispatch, PushUpdate, NetDown, Watch, vars
  <1> QED
    BY <1>1, KeptIsSame, NothingSeen

LEMMA CloserSteps ==
  ASSUME IInv, NEW c \in Closers \cup Waiters,
         BeginClosed(c) \/ CloseStep(c) \/ CancelClose(c)
  PROVE  UNCHANGED Contract!vars
  <1>1. call \in [Callers \cup Waiters -> CallStates] /\ c \notin Requests
    BY CallsAssumption DEF IInv, TypeOK
  <1>2. UNCHANGED <<outcome, exchange>>
    BY DEF BeginClosed, CloseStep, TakeHandle, Joined, CancelClose
  <1>3. \A q \in Requests : call'[q] = call[q]
    BY <1>1 DEF BeginClosed, CloseStep, TakeHandle, Joined, CancelClose
  <1> QED
    BY <1>2, <1>3, KeptIsSame, NothingSeen

LEMMA ContractStep == IInv /\ [Next]_vars => Contract!Next \/ UNCHANGED Contract!vars
  <1> SUFFICES ASSUME IInv, [Next]_vars PROVE Contract!Next \/ UNCHANGED Contract!vars
    OBVIOUS
  <1>1. CASE UNCHANGED vars
    BY <1>1, UnseenSteps
  <1>2. ASSUME NEW c \in Callers, CallStep(c) PROVE Contract!Next \/ UNCHANGED Contract!vars
    BY <1>2, CallSteps
  <1>3. ASSUME NEW c \in Awaiting, Receive(c) PROVE Contract!Next \/ UNCHANGED Contract!vars
    BY <1>3, ReceiveStep
  <1>4. ASSUME NEW r \in Requests, Timeout(r) PROVE Contract!Next \/ UNCHANGED Contract!vars
    BY <1>4, ReceiveStep DEF Awaiting
  <1>5. ASSUME \/ \E c \in Waiters : BeginClosed(c)
               \/ \E c \in Closers : CloseStep(c) \/ CancelClose(c)
        PROVE  UNCHANGED Contract!vars
    BY <1>5, CloserSteps
  <1>6. ASSUME NEW r \in Requests, NEW v \in {"accepted", "rejected"},
               Execute(r, v) \/ \E b \in Bodies : Answer(r, v, b)
        PROVE  Contract!Next \/ UNCHANGED Contract!vars
    BY <1>6, ExecuteStep, ExchangeSteps
  <1>7. WriteDone => UNCHANGED Contract!vars
    BY ExchangeSteps
  <1> HIDE DEF Callers, Closers, Awaiting
  <1> QED
    BY <1>1, <1>2, <1>3, <1>4, <1>5, <1>6, <1>7, UnseenSteps DEF Next

(* What a trading call tells its caller keeps to the contract of           *)
(* RequestReply: an accepted or rejected is the exchange's verdict on this *)
(* very request, and a request returned as not sent is never executed, not *)
(* even after the call.                                                    *)
THEOREM Implements == Spec => ImplementsContract
  BY ContractInit, ContractStep, Inductive, PTL DEF Spec, ImplementsContract, Contract!Spec

-----------------------------------------------------------------------------
(* The end of the connection and of the actor.                             *)

USE DEF Resolve, Entry

(* Nothing that announces a lost connection exists: no resolved oneshot,   *)
(* no event, no broadcast, and the teardown has not passed its first step. *)
Quiet ==
  /\ \A c \in Awaiting : chan[c] # "disconnected"
  /\ \A c \in Callers : outcome[c] # "disconnected"
  /\ \A w \in Watchers : watcher[w] # "notified"
  /\ "Disconnected" \notin seen
  /\ \A i \in 1..Len(events) : events[i] # "Disconnected"
  /\ pc \notin {"drain", "broadcast", "closing"}

FlagInv == connected => Quiet

LEMMA FlagInit == Init => FlagInv
  BY DEF Init, FlagInv, Quiet

(* The flag never rises again, and while it is up the steps that announce  *)
(* the end are not possible.                                               *)
LEMMA FlagStep == TypeOK /\ FlagInv /\ [Next]_vars => FlagInv'
  <1> SUFFICES ASSUME TypeOK, FlagInv, [Next]_vars, connected' PROVE Quiet'
    BY DEF FlagInv
  <1>1. connected
    BY DEF Next, vars, CallStep, Begin, Enqueue, SendFails, Receive, Timeout, BeginClosed, CloseStep,
           TakeHandle, Joined, CancelClose, Watch, Start, StartFails, ReadEnds, HandleMessage,
           HandlePost, HandlePostPanics, HandleUpdate, TakeCommand, TakeTx, TakeSubscribe,
           TakeGetOrders, TakeShutdown, WriteDone, WriteFails, Teardown, FlagDown, DrainPending,
           EmitDisconnected, Broadcast, Exit, Dispatch, Execute, Answer, PushUpdate, NetDown
  <1>2. Quiet
    BY <1>1 DEF FlagInv
  <1>3. /\ pc \in {"start", "loop", "write", "flag", "exited"}
        /\ chan \in [Awaiting -> ChanStates] /\ outcome \in [Callers -> Outcomes]
        /\ events \in Seq(EventKinds)
    BY <1>2 DEF Quiet, TypeOK, ActorStates
  <1>4. ~FlagDown /\ ~EmitDisconnected /\ ~Broadcast /\ ~Exit /\ \A r \in Requests : ~DrainPending(r)
    BY <1>2 DEF Quiet, FlagDown, EmitDisconnected, Broadcast, Exit, DrainPending
  <1>5. pc' \notin {"drain", "broadcast", "closing"}
    BY <1>3, <1>4
    DEF Next, vars, CallStep, Begin, Enqueue, SendFails, Receive, Timeout, BeginClosed, CloseStep,
        TakeHandle, Joined, CancelClose, Watch, Start, StartFails, ReadEnds, HandleMessage,
        HandlePost, HandlePostPanics, HandleUpdate, TakeCommand, TakeTx, TakeSubscribe,
        TakeGetOrders, TakeShutdown, WriteDone, WriteFails, Teardown,
        Dispatch, Execute, Answer, PushUpdate, NetDown
  <1>6. \A c \in Awaiting : chan'[c] # "disconnected"
    <2>1. \/ UNCHANGED chan
          \/ \E S \in SUBSET Awaiting, v \in ChanStates \ {"disconnected"} : chan' = Resolve(S, v)
      <3>1. pending \subseteq Awaiting /\ \A i : Entry(i) \subseteq Awaiting
        BY DEF TypeOK
      <3>2. CASE Die
        <4>1. chan' = Resolve((pending \cup Queued) \cap Awaiting, "dropped")
          BY <3>2
        <4> QED
          BY <4>1 DEF ChanStates
      <3>3. CASE HandlePost
        <4>1. PICK m : m.body \in Replies \ {"other"} /\ chan' = Resolve(Entry(m.id), AnswerOf(m.body))
          BY <3>3 DEF HandlePost
        <4>2. AnswerOf(m.body) \in {"responses", "failed", "ackOk", "ackError"}
          BY <4>1 DEF AnswerOf
        <4> QED
          BY <3>1, <4>1, <4>2 DEF ChanStates, Answers
      <3>4. CASE TakeTx
        BY <3>1, <3>4 DEF TakeTx, ChanStates
      <3>5. CASE TakeGetOrders
        BY <3>5 DEF TakeGetOrders, ChanStates
      <3>6. CASE WriteFails
        <4> DEFINE S == IF cur \in Requests THEN Entry(id[cur]) ELSE {}
        <4>1. chan' = Resolve(S, "sendError")
          BY <3>6 DEF WriteFails
        <4>2. S \in SUBSET Awaiting
          BY <3>1
        <4>3. "sendError" \in ChanStates \ {"disconnected"}
          BY DEF ChanStates
        <4> HIDE DEF S, Resolve
        <4> QED
          BY <4>1, <4>2, <4>3
      <3> QED
        BY <1>4, <3>2, <3>3, <3>4, <3>5, <3>6
        DEF Next, vars, CallStep, Begin, Enqueue, SendFails, Receive, Timeout, BeginClosed, CloseStep,
            TakeHandle, Joined, CancelClose, Watch, Start, StartFails, ReadEnds, HandleMessage,
            HandlePostPanics, HandleUpdate, TakeCommand, TakeSubscribe, TakeShutdown, WriteDone,
            Teardown, Dispatch, Execute, Answer, PushUpdate, NetDown
    <2> QED
      BY <1>2, <2>1 DEF Quiet
  <1>7. \A c \in Callers : outcome'[c] # "disconnected"
    <2>1. \/ UNCHANGED outcome
          \/ \E c \in Callers, v \in {"queued", "gone", "timeout"} : outcome' = [outcome EXCEPT ![c] = v]
          \/ \E c \in Awaiting : outcome' = [outcome EXCEPT ![c] = chan[c]]
      BY DEF Next, vars, CallStep, Begin, Enqueue, SendFails, Receive, Timeout, BeginClosed, CloseStep,
             TakeHandle, Joined, CancelClose, Watch, Start, StartFails, ReadEnds, HandleMessage,
             HandlePost, HandlePostPanics, HandleUpdate, TakeCommand, TakeTx, TakeSubscribe,
             TakeGetOrders, TakeShutdown, WriteDone, WriteFails, Teardown, FlagDown, DrainPending,
             EmitDisconnected, Broadcast, Exit, Dispatch, Execute, Answer, PushUpdate, NetDown
    <2> QED
      BY <1>2, <1>3, <2>1 DEF Quiet
  <1>8. \A w \in Watchers : watcher'[w] # "notified"
    <2>1. UNCHANGED watcher \/ \E w \in Watchers : Watch(w)
      BY <1>4
      DEF Next, vars, CallStep, Begin, Enqueue, SendFails, Receive, Timeout, BeginClosed, CloseStep,
          TakeHandle, Joined, CancelClose, Start, StartFails, ReadEnds, HandleMessage,
          HandlePost, HandlePostPanics, HandleUpdate, TakeCommand, TakeTx, TakeSubscribe,
          TakeGetOrders, TakeShutdown, WriteDone, WriteFails, Teardown,
          Dispatch, Execute, Answer, PushUpdate, NetDown
    <2> QED
      BY <1>2, <2>1 DEF Quiet, Watch, TypeOK
  <1>9. "Disconnected" \notin seen' /\ \A i \in 1..Len(events') : events'[i] # "Disconnected"
    <2>1. \/ UNCHANGED <<events, seen>>
          \/ Dispatch
          \/ \E e \in {"Connected", "Error", "Update"} : Emit(e)
      BY <1>4
      DEF Next, vars, CallStep, Begin, Enqueue, SendFails, Receive, Timeout, BeginClosed, CloseStep,
          TakeHandle, Joined, CancelClose, Watch, Start, StartFails, ReadEnds, HandleMessage,
          HandlePost, HandlePostPanics, HandleUpdate, TakeCommand, TakeTx, TakeSubscribe,
          TakeGetOrders, TakeShutdown, WriteDone, WriteFails, Teardown,
          Execute, Answer, PushUpdate, NetDown
    <2>2. CASE UNCHANGED <<events, seen>>
      BY <1>2, <2>2 DEF Quiet
    <2>3. CASE Dispatch
      BY <1>2, <1>3, <2>3, TailFacts DEF Quiet, Dispatch
    <2>4. ASSUME NEW e \in {"Connected", "Error", "Update"}, Emit(e)
          PROVE  "Disconnected" \notin seen' /\ \A i \in 1..Len(events') : events'[i] # "Disconnected"
      <3>1. seen' = seen /\ events' \in {events, Append(events, e)}
        BY <2>4
      <3>2. \A i \in 1..Len(Append(events, e)) : Append(events, e)[i] # "Disconnected"
        BY <1>2, <1>3, <2>4, AppendProperties DEF Quiet, EventKinds
      <3> QED
        BY <1>2, <3>1, <3>2 DEF Quiet
    <2> QED
      BY <2>1, <2>2, <2>3, <2>4
  <1> QED
    BY <1>5, <1>6, <1>7, <1>8, <1>9 DEF Quiet

(* Whoever learns that the connection ended, through the error of a call,  *)
(* the broadcast or the event, finds is_connected() false.                 *)
THEOREM FlagDownFirst == Spec => []NoticeMeansFlagDown
  <1>1. TypeOK /\ FlagInv => NoticeMeansFlagDown
    BY DEF FlagInv, Quiet, NoticeMeansFlagDown
  <1> QED
    BY <1>1, FlagInit, FlagStep, TypeCorrect, PTL DEF Spec

-----------------------------------------------------------------------------
(* As long as no shutdown() or closed() has been dropped half-way, a task  *)
(* that has returned from one finds the actor ended, and while the actor   *)
(* runs without its JoinHandle in the mutex somebody joins it and holds    *)
(* the mutex.                                                              *)
NobodyCancelled == \A c \in Closers : call[c] # "cancelled"
JoinInv ==
  NobodyCancelled /\ pc # "exited" =>
    /\ \A c \in Closers : call[c] # "done"
    /\ ~handle => \E c \in Closers : call[c] = "joining" /\ lock = c

LEMMA JoinInit == Init => JoinInv
  BY DEF Init, JoinInv

LEMMA JoinStep == TypeOK /\ JoinInv /\ [Next]_vars => JoinInv'
  <1> SUFFICES ASSUME TypeOK, JoinInv, [Next]_vars, NobodyCancelled', pc' # "exited"
               PROVE  /\ \A c \in Closers : call'[c] # "done"
                      /\ ~handle' => \E c \in Closers : call'[c] = "joining" /\ lock' = c
    BY DEF JoinInv
  <1>1. call \in [Callers \cup Waiters -> CallStates]
    BY DEF TypeOK
  <1>2. pc # "exited"
    BY DEF Next, vars, CallStep, Begin, Enqueue, SendFails, Receive, Timeout, BeginClosed, CloseStep,
           TakeHandle, Joined, CancelClose, Watch, Start, StartFails, ReadEnds, HandleMessage,
           HandlePost, HandlePostPanics, HandleUpdate, TakeCommand, TakeTx, TakeSubscribe,
           TakeGetOrders, TakeShutdown, WriteDone, WriteFails, Teardown, FlagDown, DrainPending,
           EmitDisconnected, Broadcast, Exit, Dispatch, Execute, Answer, PushUpdate, NetDown
  <1>3. \/ \A c \in Closers :
             call'[c] = call[c] \/ (call[c] \in {"idle", "sending"} /\ call'[c] \in {"sending", "locking"})
        \/ \E c \in Closers : TakeHandle(c) \/ CancelClose(c)
    <2>1. ASSUME NEW c \in Callers, CallStep(c)
          PROVE  \A d \in Closers :
                   call'[d] = call[d] \/ (call[d] \in {"idle", "sending"} /\ call'[d] \in {"sending", "locking"})
      <3>1. CASE Begin(c)
        BY <1>1, <3>1 DEF Begin
      <3>2. CASE Enqueue(c)
        <4>1. c \in Closers => AfterSend(c) = "locking"
          BY CallsAssumption DEF AfterSend
        <4> QED
          BY <1>1, <3>2, <4>1 DEF Enqueue
      <3>3. ~SendFails(c)
        BY <1>2 DEF SendFails
      <3> QED
        BY <2>1, <3>1, <3>2, <3>3 DEF CallStep
    <2>2. ASSUME NEW c \in Awaiting, Receive(c) \/ Timeout(c)
          PROVE  \A d \in Closers : call'[d] = call[d]
      BY <1>1, <2>2, CallsAssumption DEF Receive, Timeout
    <2>3. ASSUME NEW c \in Waiters, BeginClosed(c)
          PROVE  \A d \in Closers : call'[d] = call[d] \/ (call[d] = "idle" /\ call'[d] = "locking")
      BY <1>1, <2>3 DEF BeginClosed
    <2>4. \A c \in Closers : ~Joined(c)
      BY <1>2 DEF Joined
    <2> QED
      BY <2>1, <2>2, <2>3, <2>4
      DEF Next, vars, CloseStep, Watch, Start, StartFails, ReadEnds, HandleMessage,
          HandlePost, HandlePostPanics, HandleUpdate, TakeCommand, TakeTx, TakeSubscribe,
          TakeGetOrders, TakeShutdown, WriteDone, WriteFails, Teardown, FlagDown, DrainPending,
          EmitDisconnected, Broadcast, Exit, Dispatch, Execute, Answer, PushUpdate, NetDown
  <1>4. \A c \in Closers : ~CancelClose(c)
    BY <1>1 DEF CancelClose, NobodyCancelled
  <1>5. NobodyCancelled
    <2> SUFFICES ASSUME NEW c \in Closers, call[c] = "cancelled" PROVE FALSE
      BY DEF NobodyCancelled
    <2>1. call'[c] # "cancelled"
      BY DEF NobodyCancelled
    <2> QED
      BY <1>1, <1>3, <1>4, <2>1 DEF TakeHandle
  <1>6. /\ \A c \in Closers : call[c] # "done"
        /\ ~handle => \E c \in Closers : call[c] = "joining" /\ lock = c
    BY <1>2, <1>5 DEF JoinInv
  <1>7. ASSUME NEW c \in Closers, TakeHandle(c)
        PROVE  /\ \A d \in Closers : call'[d] # "done"
               /\ \E d \in Closers : call'[d] = "joining" /\ lock' = d
    <2>1. handle
      BY <1>6, <1>7, CallsAssumption DEF TakeHandle
    <2> QED
      BY <1>1, <1>6, <1>7, <2>1 DEF TakeHandle
  <1>8. ASSUME ~\E c \in Closers : TakeHandle(c)
        PROVE  /\ \A c \in Closers : call'[c] # "done"
               /\ ~handle' => \E c \in Closers : call'[c] = "joining" /\ lock' = c
    <2>1. \A c \in Closers : /\ call'[c] # "done"
                             /\ call[c] = "joining" => call'[c] = "joining"
      BY <1>3, <1>4, <1>6, <1>8
    <2>2. UNCHANGED <<handle, lock>>
      <3>1. \A c \in Closers : ~Joined(c)
        BY <1>2 DEF Joined
      <3> QED
        BY <1>4, <1>8, <3>1
        DEF Next, vars, CallStep, Begin, Enqueue, SendFails, Receive, Timeout, BeginClosed, CloseStep,
            Watch, Start, StartFails, ReadEnds, HandleMessage,
            HandlePost, HandlePostPanics, HandleUpdate, TakeCommand, TakeTx, TakeSubscribe,
            TakeGetOrders, TakeShutdown, WriteDone, WriteFails, Teardown, FlagDown, DrainPending,
            EmitDisconnected, Broadcast, Exit, Dispatch, Execute, Answer, PushUpdate, NetDown
    <2>3. ASSUME ~handle' PROVE \E c \in Closers : call'[c] = "joining" /\ lock' = c
      <3>1. handle' = handle /\ lock' = lock
        BY <2>2
      <3>2. PICK c \in Closers : call[c] = "joining" /\ lock = c
        BY <1>6, <2>3, <3>1
      <3> QED
        BY <2>1, <3>1, <3>2
    <2> QED
      BY <2>1, <2>3
  <1> QED
    BY <1>7, <1>8

(* shutdown() and closed() return only when the actor task has ended,      *)
(* whoever of them gets the JoinHandle, as long as none is cancelled.      *)
THEOREM ReturnsAfterExit == Spec => []ReturnedMeansExited
  <1>1. JoinInv => ReturnedMeansExited
    BY DEF JoinInv, NobodyCancelled, ReturnedMeansExited
  <1> QED
    BY <1>1, JoinInit, JoinStep, TypeCorrect, PTL DEF Spec
=============================================================================
