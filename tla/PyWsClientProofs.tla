-------------------------- MODULE PyWsClientProofs --------------------------
(***************************************************************************)
(* Proofs about the requests of PyWsClient: what place_orders returns is   *)
(* true of its own order, and pending_requests is in step with what is     *)
(* awaited, for any calls, any handlers, and any number of connections.    *)
(* Then about its connections: what disconnect() ends stays ended,         *)
(* wherever the reconnections are when it is called, and no subscription   *)
(* is lost over a reconnection.                                            *)
(***************************************************************************)
EXTENDS PyWsClient, SequenceTheorems, TLAPS

CallStates     == {"idle", "sending", "waiting", "done", "cancelled"}
Verdicts       == {"accepted", "rejected"}
FutureStates   == Verdicts \cup {"open", "cancelled", "protocolError"}
Outcomes       == FutureStates \cup {"none", "sendError", "timeout"}
ExchangeStates == {"none", "received", "accepted", "rejected", "toldAccepted", "toldRejected",
                   "unreadAccepted", "unreadRejected"}
Messages       == [type : {"post"}, id : Nat, body : Verdicts \cup {"unreadable"}]
                    \cup [type : {"update", "error"}]

Types ==
  /\ call \in [Requests -> CallStates] /\ \A x \in Oracles : call[x] # "waiting"
  /\ id \in [Requests -> Nat] /\ requestId \in Nat
  /\ pending \subseteq Awaited
  /\ fut \in [Requests -> FutureStates]
  /\ outcome \in [Requests -> Outcomes]
  /\ exchange \in [Requests -> ExchangeStates]
  /\ inbox \in [Conns -> Seq(Messages)]
  /\ handling \in [Conns -> HandlerCalls \cup {NoCall}]

(* An awaited call has an id of its own among the awaited ones.            *)
IdsGiven ==
  /\ \A c \in Requests : id[c] <= requestId /\ (call[c] = "idle" => id[c] = 0)
  /\ \A c \in Awaited : id[c] = 0 => call[c] = "idle"
  /\ \A c, d \in Awaited : id[c] = id[d] /\ id[c] # 0 => c = d

(* How far a request can be at the exchange, by how far its call is.       *)
Unsent(c) == call[c] \in {"idle", "sending"}
Placed ==
  /\ \A c \in Requests : Unsent(c) => exchange[c] = "none" /\ outcome[c] = "none"
  /\ \A c \in Requests : call[c] = "idle" => fut[c] = "open" /\ c \notin pending
  /\ \A c \in Requests : outcome[c] # "none" => call[c] = "done"
  /\ \A c \in Requests : outcome[c] = "sendError" => exchange[c] = "none"
  /\ \A n \in Conns : handling[n] # NoCall => call[handling[n]] # "idle"

(* No update_oracle has used the id of c.                                  *)
Own(c) == \A x \in Oracles : id[x] # id[c]

Accepted(c) == exchange[c] \in {"accepted", "toldAccepted", "unreadAccepted"}
Rejected(c) == exchange[c] \in {"rejected", "toldRejected", "unreadRejected"}
GivenUp(c)  == exchange[c] \in {"unreadAccepted", "unreadRejected"}
TrueOf(c, v) == (v = "accepted" => Accepted(c)) /\ (v = "rejected" => Rejected(c))

AnswersHeld == \A c \in Awaited : Own(c) => TrueOf(c, fut[c]) /\ TrueOf(c, outcome[c])

(* A reply in flight tells the verdict on a request with its id, or is     *)
(* the unreadable one to it.                                               *)
Tells(m) ==
  \E c \in Requests : /\ ~Unsent(c) /\ id[c] = m.id /\ TrueOf(c, m.body)
                      /\ m.body = "unreadable" => GivenUp(c)
Mail ==
  \A n \in Conns : \A i \in 1..Len(inbox[n]) :
    inbox[n][i].type = "post" => Tells(inbox[n][i])

CallInv == Types /\ IdsGiven /\ Placed /\ AnswersHeld /\ Mail /\ PendingIsAwaited

USE DEF Requests, Awaited, clientVars, taskVars, callVars, subVars, netVars

LEMMA CallInit == Init => CallInv
  <1> SUFFICES ASSUME Init PROVE CallInv
    OBVIOUS
  <1>1. Types
    BY PyAssumption DEF Init, Types, CallStates, FutureStates, Outcomes, ExchangeStates
  <1>2. IdsGiven /\ Placed
    BY DEF Init, IdsGiven, Placed
  <1>3. AnswersHeld /\ Mail /\ PendingIsAwaited
    BY DEF Init, AnswersHeld, TrueOf, Mail, PendingIsAwaited, Awaiting
  <1> QED
    BY <1>1, <1>2, <1>3 DEF CallInv

-----------------------------------------------------------------------------
(* What becomes of the messages in flight.                                 *)

(* Every reply in flight was in flight before.                             *)
OldMail ==
  \A n \in Conns : \A i \in 1..Len(inbox'[n]) :
    inbox'[n][i].type = "post" => \E j \in 1..Len(inbox[n]) : inbox[n][j] = inbox'[n][i]

(* What taking the head of a queue leaves behind.                          *)
LEMMA TailFacts ==
  ASSUME NEW S, NEW q \in Seq(S), q # <<>>
  PROVE  /\ Head(q) \in S /\ Head(q) = q[1] /\ 1 \in 1..Len(q)
         /\ Tail(q) \in Seq(S)
         /\ \A i \in 1..Len(Tail(q)) : Tail(q)[i] = q[i + 1] /\ i + 1 \in 1..Len(q)
  BY HeadTailProperties, LenProperties

LEMMA SameMail == UNCHANGED inbox => OldMail
  BY DEF OldMail

(* The message of one connection is taken.                                 *)
LEMMA TakenMail ==
  ASSUME Types, NEW n \in Conns, NEW m, Takes(n, m)
  PROVE  /\ OldMail /\ inbox' \in [Conns -> Seq(Messages)]
         /\ m \in Messages /\ \E i \in 1..Len(inbox[n]) : inbox[n][i] = m
  <1>1. /\ inbox[n] \in Seq(Messages) /\ inbox[n] # <<>> /\ m = Head(inbox[n])
        /\ inbox' = [inbox EXCEPT ![n] = Tail(inbox[n])]
    BY DEF Types, Takes
  <1>2. /\ m \in Messages /\ m = inbox[n][1] /\ 1 \in 1..Len(inbox[n])
        /\ Tail(inbox[n]) \in Seq(Messages)
        /\ \A i \in 1..Len(Tail(inbox[n])) :
             Tail(inbox[n])[i] = inbox[n][i + 1] /\ i + 1 \in 1..Len(inbox[n])
    BY <1>1, TailFacts
  <1>3. inbox'[n] = Tail(inbox[n]) /\ \A k \in Conns : k # n => inbox'[k] = inbox[k]
    BY <1>1 DEF Types
  <1>4. ASSUME NEW k \in Conns, NEW i \in 1..Len(inbox'[k])
        PROVE  \E j \in 1..Len(inbox[k]) : inbox[k][j] = inbox'[k][i]
    <2>1. CASE k = n
      BY <1>2, <1>3, <2>1, Zenon
    <2>2. CASE k # n
      BY <1>3, <2>2, Zenon
    <2> QED
      BY <2>1, <2>2
  <1>5. OldMail
    BY <1>4 DEF OldMail
  <1> QED
    BY <1>1, <1>2, <1>5 DEF Types

(* Some connections lose what was in flight.                               *)
LEMMA LostMail ==
  ASSUME Types, DOMAIN inbox' = Conns, inbox' = [n \in Conns |-> inbox'[n]],
         \A n \in Conns : inbox'[n] = inbox[n] \/ inbox'[n] = <<>>
  PROVE  OldMail /\ inbox' \in [Conns -> Seq(Messages)]
  <1>1. \A n \in Conns : inbox[n] \in Seq(Messages)
    BY DEF Types
  <1>2. inbox' \in [Conns -> Seq(Messages)]
    <2>1. \A n \in Conns : inbox'[n] \in Seq(Messages)
      BY <1>1, EmptySeq, ZenonT(30)
    <2> QED
      BY <2>1
  <1>3. OldMail
    BY DEF OldMail
  <1> QED
    BY <1>2, <1>3

(* A message is put in flight.                                             *)
LEMMA DeliveredMail ==
  ASSUME Types, NEW n, NEW m \in Messages, Deliver(n, m)
  PROVE  /\ inbox' \in [Conns -> Seq(Messages)]
         /\ \A k \in Conns : \A i \in 1..Len(inbox'[k]) :
              inbox'[k][i] = m \/ \E j \in 1..Len(inbox[k]) : inbox[k][j] = inbox'[k][i]
  <1>1. inbox' = [inbox EXCEPT ![n] = Append(inbox[n], m)]
    BY DEF Deliver
  <1>2. \A k \in Conns : inbox[k] \in Seq(Messages) /\ Append(inbox[k], m) \in Seq(Messages)
                         /\ (inbox'[k] = inbox[k] \/ inbox'[k] = Append(inbox[k], m))
    BY <1>1, AppendProperties DEF Types
  <1>3. inbox' \in [Conns -> Seq(Messages)]
    <2>1. \A k \in Conns : inbox'[k] \in Seq(Messages)
      BY <1>2
    <2>2. inbox' = [k \in Conns |-> inbox'[k]]
      BY <1>1 DEF Types
    <2> QED
      BY <2>1, <2>2
  <1>4. ASSUME NEW k \in Conns, NEW i \in 1..Len(inbox'[k])
        PROVE  inbox'[k][i] = m \/ \E j \in 1..Len(inbox[k]) : inbox[k][j] = inbox'[k][i]
    <2>1. CASE inbox'[k] = inbox[k]
      BY <2>1
    <2>2. CASE inbox'[k] = Append(inbox[k], m)
      <3>1. /\ Len(inbox[k]) \in Nat /\ Len(inbox'[k]) = Len(inbox[k]) + 1
            /\ \A j \in 1..Len(inbox[k]) : inbox'[k][j] = inbox[k][j]
            /\ inbox'[k][Len(inbox[k]) + 1] = m
        BY <1>2, <2>2, AppendProperties, LenProperties
      <3>2. i \in 1..Len(inbox[k]) \/ i = Len(inbox[k]) + 1
        BY <3>1
      <3> QED
        BY <3>1, <3>2
    <2> QED
      BY <1>2, <2>1, <2>2
  <1> QED
    BY <1>3, <1>4

(* Replies keep telling the truth when requests only move on: nothing that *)
(* was sent becomes unsent, changes its id or loses its verdict.           *)
MovesOn(r) ==
  /\ ~Unsent(r) => ~Unsent(r)' /\ id'[r] = id[r]
  /\ (Accepted(r) => Accepted(r)') /\ (Rejected(r) => Rejected(r)')
  /\ (GivenUp(r) => GivenUp(r)')

LEMMA MailKept ==
  ASSUME Mail, OldMail, \A r \in Requests : MovesOn(r)
  PROVE  Mail'
  <1>1. ASSUME NEW n \in Conns, NEW i \in 1..Len(inbox'[n]), inbox'[n][i].type = "post"
        PROVE  \E r \in Requests :
                 /\ ~Unsent(r)' /\ id'[r] = inbox'[n][i].id
                 /\ inbox'[n][i].body = "accepted" => Accepted(r)'
                 /\ inbox'[n][i].body = "rejected" => Rejected(r)'
                 /\ inbox'[n][i].body = "unreadable" => GivenUp(r)'
    <2>1. PICK j \in 1..Len(inbox[n]) : inbox[n][j] = inbox'[n][i]
      BY <1>1 DEF OldMail
    <2>2. PICK r \in Requests : /\ ~Unsent(r) /\ id[r] = inbox'[n][i].id
                                /\ TrueOf(r, inbox'[n][i].body)
                                /\ inbox'[n][i].body = "unreadable" => GivenUp(r)
      BY <1>1, <2>1 DEF Mail, Tells
    <2>3. MovesOn(r)
      OBVIOUS
    <2> QED
      BY <2>2, <2>3 DEF MovesOn, TrueOf
  <1> QED
    BY <1>1 DEF Mail, Tells, TrueOf

(* A step that leaves the requests alone.                                  *)
Idling == UNCHANGED <<call, id, fut, outcome, requestId, pending, exchange>>

LEMMA Idles ==
  ASSUME CallInv, Idling, Mail', inbox' \in [Conns -> Seq(Messages)],
         handling' \in [Conns -> HandlerCalls \cup {NoCall}],
         \A n \in Conns : handling'[n] = handling[n] \/ handling'[n] = NoCall
  PROVE  CallInv'
  <1> USE DEF CallInv, Idling
  <1>1. Types'
    BY DEF Types
  <1>2. IdsGiven' /\ PendingIsAwaited'
    BY DEF IdsGiven, PendingIsAwaited, Awaiting, AnsweredUnread
  <1>3. Placed'
    BY DEF Placed, Unsent
  <1>4. AnswersHeld'
    BY DEF AnswersHeld, Own, TrueOf, Accepted, Rejected
  <1> QED
    BY <1>1, <1>2, <1>3, <1>4

LEMMA IdlesMoving == ASSUME Idling PROVE \A r \in Requests : MovesOn(r)
  BY DEF Idling, MovesOn, Unsent, Accepted, Rejected, GivenUp

(* ... and only loses messages in flight.                                  *)
LEMMA Quiet ==
  ASSUME CallInv, Idling, OldMail, inbox' \in [Conns -> Seq(Messages)],
         handling' \in [Conns -> HandlerCalls \cup {NoCall}],
         \A n \in Conns : handling'[n] = handling[n] \/ handling'[n] = NoCall
  PROVE  CallInv'
  <1>1. Mail'
    BY IdlesMoving, MailKept DEF CallInv
  <1> QED
    BY <1>1, Idles

LEMMA QuietSame ==
  ASSUME CallInv, Idling, UNCHANGED <<inbox, handling>> PROVE CallInv'
  BY Quiet, SameMail DEF CallInv, Types

LEMMA QuietClose ==
  ASSUME CallInv, Idling, CloseIt, UNCHANGED handling PROVE CallInv'
  <1>1. /\ inbox' = [n \in Conns |-> inbox'[n]] /\ DOMAIN inbox' = Conns
        /\ \A n \in Conns : inbox'[n] = inbox[n] \/ inbox'[n] = <<>>
    BY DEF CloseIt
  <1> QED
    BY <1>1, LostMail, Quiet DEF CallInv, Types

(* ... and puts a message in flight that is no reply.                      *)
LEMMA QuietPush ==
  ASSUME CallInv, Idling, UNCHANGED handling,
         NEW n, NEW m \in Messages, m.type # "post", Deliver(n, m)
  PROVE  CallInv'
  <1>1. OldMail /\ inbox' \in [Conns -> Seq(Messages)]
    BY DeliveredMail DEF OldMail, CallInv
  <1> QED
    BY <1>1, Quiet DEF CallInv, Types

LEMMA UserSteps ==
  ASSUME CallInv,
         \/ UserConnect \/ Disconnect \/ DisconnectStep
         \/ \E p \in Tasks : ConnectStep(p)
         \/ \E t \in UserTopics : Subscribe(t) \/ SubscribeReturns(t)
  PROVE  CallInv'
  <1>1. CASE UserConnect
    BY <1>1, QuietSame DEF UserConnect, Idling
  <1>2. CASE Disconnect
    BY <1>2, QuietSame DEF Disconnect, Idling
  <1>3. CASE Joined
    BY <1>3, QuietSame DEF Joined, Idling
  <1>4. CASE Close
    BY <1>4, QuietClose DEF Close, Idling
  <1>5. CASE DisconnectReturns
    BY <1>5, QuietSame DEF DisconnectReturns, Idling
  <1>6. ASSUME NEW p \in Tasks, ConnectStep(p) PROVE CallInv'
    <2>1. CASE Opened(p)
      BY <2>1, QuietSame DEF Opened, Idling
    <2>2. CASE OpenFails(p)
      BY <2>2, QuietSame DEF OpenFails, Idling
    <2>3. CASE Subscribed(p)
      BY <2>3, QuietSame DEF Subscribed, Idling
    <2>4. CASE SubscribeFails(p)
      BY <2>4, QuietSame DEF SubscribeFails, Idling
    <2> QED
      BY <1>6, <2>1, <2>2, <2>3, <2>4 DEF ConnectStep
  <1>7. ASSUME NEW t \in UserTopics, Subscribe(t) \/ SubscribeReturns(t) PROVE CallInv'
    BY <1>7, QuietSame DEF Subscribe, SubscribeReturns, Idling
  <1> QED
    BY <1>1, <1>2, <1>3, <1>4, <1>5, <1>6, <1>7 DEF DisconnectStep

LEMMA NetworkSteps ==
  ASSUME CallInv, NEW n \in Conns,
         \/ PushUpdate(n) \/ PushError(n)
         \/ \E how \in {"lost", "clean"} : ConnectionEnds(n, how)
  PROVE  CallInv'
  <1>1. CASE PushUpdate(n)
    <2>1. [type |-> "update"] \in Messages /\ [type |-> "update"].type # "post"
      BY DEF Messages
    <2> QED
      BY <1>1, <2>1, QuietPush DEF PushUpdate, Idling
  <1>2. CASE PushError(n)
    <2>1. [type |-> "error"] \in Messages /\ [type |-> "error"].type # "post"
      BY DEF Messages
    <2> QED
      BY <1>2, <2>1, QuietPush DEF PushError, Idling
  <1>3. ASSUME NEW how, ConnectionEnds(n, how) PROVE CallInv'
    <2>1. PICK kept \in {inbox[n], <<>>} : inbox' = [inbox EXCEPT ![n] = kept]
      BY <1>3 DEF ConnectionEnds
    <2>2. /\ inbox' = [k \in Conns |-> inbox'[k]] /\ DOMAIN inbox' = Conns
          /\ \A k \in Conns : inbox'[k] = inbox[k] \/ inbox'[k] = <<>>
      BY <2>1 DEF CallInv, Types
    <2>3. Idling /\ UNCHANGED handling
      BY <1>3 DEF ConnectionEnds, Idling
    <2> QED
      BY <2>2, <2>3, LostMail, Quiet DEF CallInv, Types
  <1> QED
    BY <1>1, <1>2, <1>3

-----------------------------------------------------------------------------
(* The steps of the requests.                                              *)

(* PendingIsAwaited, when a step makes no call wait that is not in the map *)
(* and leaves none in the map that does not wait.                          *)
LEMMA PendingKept ==
  ASSUME PendingIsAwaited, Placed, \A r \in Requests : MovesOn(r),
         \A c \in pending' : c \in Awaiting' \/ call'[c] = "cancelled",
         \A c \in Awaiting' \ pending' : c \in Awaiting \ pending /\ id'[c] = id[c]
  PROVE  PendingIsAwaited'
  <1>1. ASSUME NEW c \in Awaiting' \ pending' PROVE AnsweredUnread(c)'
    <2>1. c \in Awaiting \ pending /\ id'[c] = id[c]
      OBVIOUS
    <2>2. PICK r \in Requests : id[r] = id[c] /\ GivenUp(r)
      BY <2>1 DEF PendingIsAwaited, AnsweredUnread, GivenUp
    <2>3. ~Unsent(r)
      BY <2>2 DEF Placed, GivenUp
    <2>4. id'[r] = id[r] /\ GivenUp(r)'
      BY <2>2, <2>3 DEF MovesOn
    <2>5. id'[r] = id'[c] /\ exchange'[r] \in {"unreadAccepted", "unreadRejected"}
      BY <2>1, <2>2, <2>4 DEF GivenUp
    <2> QED
      BY <2>5 DEF AnsweredUnread
  <1>2. {c \in pending' : call'[c] # "cancelled"} \subseteq Awaiting'
    OBVIOUS
  <1> QED
    BY <1>1, <1>2 DEF PendingIsAwaited

(* Ids are only given to idle calls: an id that is nobody else's after a   *)
(* step was nobody else's before.                                          *)
LEMMA OwnBefore ==
  ASSUME IdsGiven, Types,
         \A c \in Requests : id'[c] = id[c] \/ call[c] = "idle",
         NEW c \in Awaited, call[c] # "idle", Own(c)'
  PROVE  Own(c)
  BY DEF IdsGiven, Types, Own

(* AnswersHeld, when futures and outcomes change as the verdicts allow.    *)
LEMMA AnswersKept ==
  ASSUME IdsGiven, Types, Placed, AnswersHeld,
         \A c \in Requests : (id'[c] = id[c] \/ call[c] = "idle") /\ MovesOn(c),
         \A c \in Awaited : call[c] = "idle" => fut'[c] = "open" /\ outcome'[c] = "none",
         \A c \in Awaited :
           call[c] # "idle" /\ Own(c) /\ TrueOf(c, fut[c]) /\ TrueOf(c, outcome[c])
             => TrueOf(c, fut'[c]) /\ TrueOf(c, outcome'[c])
  PROVE  AnswersHeld'
  <1> SUFFICES ASSUME NEW c \in Awaited, Own(c)'
               PROVE  /\ fut'[c] = "accepted" \/ outcome'[c] = "accepted" => Accepted(c)'
                      /\ fut'[c] = "rejected" \/ outcome'[c] = "rejected" => Rejected(c)'
    BY DEF AnswersHeld, TrueOf
  <1>1. CASE call[c] = "idle"
    BY <1>1
  <1>2. CASE call[c] # "idle"
    <2>1. Own(c)
      BY <1>2, OwnBefore
    <2>2. TrueOf(c, fut'[c]) /\ TrueOf(c, outcome'[c])
      BY <1>2, <2>1 DEF AnswersHeld
    <2> QED
      BY <2>2 DEF TrueOf, MovesOn
  <1> QED
    BY <1>1, <1>2

(* A reply resolves the future of the call it is the answer to.            *)
LEMMA PostStep ==
  ASSUME CallInv, NEW n \in Conns, HandlePost(n)
  PROVE  CallInv'
  <1> USE DEF CallInv
  <1>1. PICK m : /\ Takes(n, m) /\ m.type = "post"
                 /\ pending' = pending \ Entry(m.id)
                 /\ \/ m.body # "unreadable" /\ fut' = Resolve(Entry(m.id), m.body)
                    \/ m.body = "unreadable" /\ fut' = fut
    BY DEF HandlePost
  <1>2. UNCHANGED <<call, id, outcome, requestId, exchange, handling>>
    BY DEF HandlePost
  <1>3. /\ OldMail /\ inbox' \in [Conns -> Seq(Messages)]
        /\ m.body \in Verdicts \cup {"unreadable"} /\ Tells(m)
    <2>1. /\ OldMail /\ inbox' \in [Conns -> Seq(Messages)] /\ m \in Messages
          /\ \E i \in 1..Len(inbox[n]) : inbox[n][i] = m
      BY <1>1, TakenMail
    <2> QED
      BY <1>1, <2>1 DEF Mail, Messages
  <1>4. \A c \in Requests : MovesOn(c)
    BY <1>2 DEF MovesOn, Unsent, Accepted, Rejected, GivenUp
  <1>5. Types'
    BY <1>1, <1>2, <1>3 DEF Types, Resolve, FutureStates
  <1>6. IdsGiven' /\ Mail'
    BY <1>2, <1>3, <1>4, MailKept DEF IdsGiven
  <1>7. Placed'
    BY <1>1, <1>2 DEF Placed, Unsent, Resolve, Entry
  <1>8. AnswersHeld'
    <2>1. ASSUME NEW c \in Awaited, Own(c), c \in Entry(m.id) PROVE TrueOf(c, m.body)
      <3>1. PICK r \in Requests : ~Unsent(r) /\ id[r] = m.id /\ TrueOf(r, m.body)
        BY <1>3 DEF Tells
      <3>2. id[c] = m.id /\ id[c] # 0
        BY <2>1 DEF Entry, IdsGiven, Placed
      <3>3. r = c
        BY <2>1, <3>1, <3>2 DEF Own, IdsGiven
      <3> QED
        BY <3>1, <3>3
    <2>2. ASSUME NEW c \in Awaited, Own(c), TrueOf(c, fut[c]) PROVE TrueOf(c, fut'[c])
      BY <1>1, <2>1, <2>2 DEF Resolve
    <2>3. \A c \in Awaited : call[c] = "idle" => fut'[c] = "open" /\ outcome'[c] = "none"
      BY <1>1, <1>2 DEF Resolve, Entry, Placed, Unsent
    <2> QED
      BY <1>2, <1>4, <2>2, <2>3, AnswersKept
  <1>9. PendingIsAwaited'
    <2>1. \A c \in pending' : c \in Awaiting' \/ call'[c] = "cancelled"
      BY <1>1, <1>2 DEF PendingIsAwaited, Awaiting, Types, Resolve, Entry
    <2>2. CASE m.body = "unreadable"
      <3>1. PICK r \in Requests : id[r] = m.id /\ GivenUp(r)
        BY <1>3, <2>2 DEF Tells
      <3>2. \A c \in Entry(m.id) : AnsweredUnread(c)
        BY <3>1 DEF Entry, AnsweredUnread, GivenUp
      <3>3. \A c \in Awaiting \ pending : AnsweredUnread(c)
        BY DEF PendingIsAwaited
      <3>4. \A c \in Awaiting' \ pending' : AnsweredUnread(c)
        BY <1>1, <1>2, <2>2, <3>2, <3>3 DEF Awaiting
      <3>5. \A c \in Awaiting' \ pending' : AnsweredUnread(c)'
        BY <1>2, <3>4 DEF AnsweredUnread
      <3> QED
        BY <2>1, <3>5 DEF PendingIsAwaited
    <2>3. CASE m.body # "unreadable"
      <3>1. \A c \in Awaiting' \ pending' : c \in Awaiting \ pending /\ id'[c] = id[c]
        BY <1>1, <1>2, <1>3, <2>3 DEF Awaiting, Types, Resolve, Entry, Verdicts
      <3> QED
        BY <1>4, <2>1, <3>1, PendingKept
    <2> QED
      BY <2>2, <2>3
  <1> QED
    BY <1>5, <1>6, <1>7, <1>8, <1>9

(* An error that names no request fails whatever is pending.               *)
LEMMA ErrorStep ==
  ASSUME CallInv, NEW n \in Conns, HandleError(n)
  PROVE  CallInv'
  <1> USE DEF CallInv
  <1>1. /\ \E m : Takes(n, m)
        /\ pending' = {} /\ fut' = Resolve(pending, "protocolError")
        /\ UNCHANGED <<call, id, outcome, requestId, exchange, handling>>
    BY DEF HandleError
  <1>2. OldMail /\ inbox' \in [Conns -> Seq(Messages)]
    BY <1>1, TakenMail
  <1>3. \A c \in Requests : MovesOn(c)
    BY <1>1 DEF MovesOn, Unsent, Accepted, Rejected, GivenUp
  <1>4. Types'
    BY <1>1, <1>2 DEF Types, Resolve, FutureStates
  <1>5. IdsGiven' /\ Mail'
    BY <1>1, <1>2, <1>3, MailKept DEF IdsGiven
  <1>6. Placed'
    BY <1>1 DEF Placed, Unsent, Resolve
  <1>7. AnswersHeld'
    <2>1. \A c \in Awaited : call[c] = "idle" => fut'[c] = "open" /\ outcome'[c] = "none"
      BY <1>1 DEF Resolve, Placed, Unsent
    <2>2. \A c \in Awaited : TrueOf(c, fut[c]) => TrueOf(c, fut'[c])
      BY <1>1 DEF Resolve, TrueOf
    <2> QED
      BY <1>1, <1>3, <2>1, <2>2, AnswersKept
  <1>8. PendingIsAwaited'
    <2>1. \A c \in pending' : c \in Awaiting' \/ call'[c] = "cancelled"
      BY <1>1 DEF PendingIsAwaited, Awaiting, Types, Resolve
    <2>2. \A c \in Awaiting' \ pending' : c \in Awaiting \ pending /\ id'[c] = id[c]
      BY <1>1 DEF Awaiting, Types, Resolve
    <2> QED
      BY <1>3, <2>1, <2>2, PendingKept
  <1> QED
    BY <1>2, <1>4, <1>5, <1>6, <1>7, <1>8

(* A call takes the next id, and its future goes into the map.             *)
LEMMA BeginStep ==
  ASSUME CallInv, NEW c \in Awaited, Begins(c), UNCHANGED <<fut, outcome, exchange>>,
         OldMail, inbox' \in [Conns -> Seq(Messages)],
         handling' \in [Conns -> HandlerCalls \cup {NoCall}],
         \A n \in Conns : handling'[n] \in {handling[n], c}
  PROVE  CallInv'
  <1> USE DEF CallInv
  <1>1. /\ call[c] = "idle" /\ call' = [call EXCEPT ![c] = "sending"]
        /\ requestId' = requestId + 1 /\ id' = [id EXCEPT ![c] = requestId + 1]
        /\ pending' = pending \cup {c}
    BY DEF Begins
  <1>2. requestId' \in Nat /\ requestId' > requestId /\ requestId' # 0
    BY <1>1 DEF Types
  <1>3. \A r \in Requests : MovesOn(r) /\ (id'[r] = id[r] \/ call[r] = "idle")
    BY <1>1 DEF MovesOn, Unsent, Accepted, Rejected, GivenUp, Types
  <1>4. Types'
    <2>1. c \notin Oracles
      BY PyAssumption
    <2> QED
      BY <1>1, <1>2, <2>1 DEF Types, CallStates
  <1>5. IdsGiven'
    <2>1. \A r \in Requests : id[r] \in Nat /\ id[r] <= requestId
      BY DEF Types, IdsGiven
    <2>2. /\ id'[c] = requestId' /\ call'[c] = "sending"
          /\ \A r \in Requests : r # c => id'[r] = id[r] /\ call'[r] = call[r]
      BY <1>1 DEF Types
    <2>3. \A r \in Requests : r # c => id'[r] < requestId' /\ id'[r] <= requestId'
      BY <1>1, <2>1, <2>2 DEF Types
    <2> QED
      BY <1>2, <2>2, <2>3 DEF IdsGiven
  <1>6. Mail'
    BY <1>3, MailKept
  <1>7. Placed'
    BY <1>1 DEF Placed, Unsent, Types
  <1>8. AnswersHeld'
    BY <1>3, AnswersKept DEF Placed, Unsent
  <1>9. PendingIsAwaited'
    <2>1. \A r \in pending' : r \in Awaiting' \/ call'[r] = "cancelled"
      BY <1>1 DEF PendingIsAwaited, Awaiting, Placed, Types
    <2>2. \A r \in Awaiting' \ pending' : r \in Awaiting \ pending /\ id'[r] = id[r]
      BY <1>1 DEF Awaiting, Placed, Types
    <2> QED
      BY <1>3, <2>1, <2>2, PendingKept
  <1> QED
    BY <1>4, <1>5, <1>6, <1>7, <1>8, <1>9

LEMMA UpdateStep ==
  ASSUME CallInv, NEW n \in Conns, HandleUpdate(n)
  PROVE  CallInv'
  <1>1. PICK m : Takes(n, m)
    BY DEF HandleUpdate
  <1>2. OldMail /\ inbox' \in [Conns -> Seq(Messages)]
    BY <1>1, TakenMail DEF CallInv
  <1>3. CASE UNCHANGED <<task, handling, callVars>>
    BY <1>2, <1>3, Quiet DEF HandleUpdate, Idling, CallInv, Types
  <1>4. ASSUME NEW c \in HandlerCalls, Begins(c), handling' = [handling EXCEPT ![n] = c],
               UNCHANGED <<fut, outcome>>
        PROVE  CallInv'
    <2>1. /\ handling' \in [Conns -> HandlerCalls \cup {NoCall}]
          /\ \A k \in Conns : handling'[k] \in {handling[k], c}
      BY <1>4 DEF CallInv, Types
    <2>2. UNCHANGED exchange
      BY DEF HandleUpdate
    <2> QED
      BY <1>2, <1>4, <2>1, <2>2, BeginStep
  <1> QED
    BY <1>3, <1>4 DEF HandleUpdate

(* A cancelled call is no longer awaited, and leaves its future behind.    *)
LEMMA CancelStep ==
  ASSUME CallInv, NEW n \in Conns, Cancelled(n)
  PROVE  CallInv'
  <1> USE DEF CallInv
  <1> DEFINE S == {c \in {handling[n]} : c # NoCall /\ call[c] # "done"}
  <1>1. /\ call' = [c \in Requests |-> IF c \in S THEN "cancelled" ELSE call[c]]
        /\ fut' = [c \in Requests |->
                     IF c \in S /\ call[c] = "waiting" THEN "cancelled" ELSE fut[c]]
        /\ handling' = [handling EXCEPT ![n] = NoCall]
        /\ UNCHANGED <<id, outcome, requestId, pending, exchange, inbox>>
    BY DEF Cancelled
  <1>2. S \subseteq HandlerCalls /\ \A c \in S : call[c] \notin {"idle", "done"}
    BY DEF Types, Placed
  <1>3. \A c \in Requests : MovesOn(c)
    BY <1>1 DEF MovesOn, Unsent, Accepted, Rejected, GivenUp
  <1> HIDE DEF S
  <1>4. Types'
    BY <1>1 DEF Types, CallStates, FutureStates
  <1>5. IdsGiven' /\ Mail'
    BY <1>1, <1>2, <1>3, SameMail, MailKept DEF IdsGiven
  <1>6. Placed'
    <2>1. \A c \in Requests : call'[c] = "idle" <=> call[c] = "idle"
      BY <1>1, <1>2
    <2>2. \A c \in Requests : call'[c] = "idle" => fut'[c] = fut[c]
      BY <1>1, <1>2
    <2>3. \A c \in Requests : Unsent(c)' => Unsent(c)
      BY <1>1 DEF Unsent
    <2>4. \A c \in Requests : call[c] = "done" => call'[c] = "done"
      BY <1>1, <1>2
    <2>5. \A k \in Conns : handling'[k] # NoCall => call'[handling'[k]] # "idle"
      BY <1>1, <2>1 DEF Types, Placed
    <2> QED
      BY <1>1, <2>1, <2>2, <2>3, <2>4, <2>5 DEF Placed
  <1>7. AnswersHeld'
    <2>1. \A c \in Awaited : call[c] = "idle" => fut'[c] = "open" /\ outcome'[c] = "none"
      BY <1>1, <1>2 DEF Placed, Unsent
    <2>2. \A c \in Awaited : TrueOf(c, fut[c]) => TrueOf(c, fut'[c])
      BY <1>1 DEF TrueOf
    <2> QED
      BY <1>1, <1>3, <2>1, <2>2, AnswersKept
  <1>8. PendingIsAwaited'
    <2>1. \A r \in pending' : r \in Awaiting' \/ call'[r] = "cancelled"
      BY <1>1, <1>2 DEF PendingIsAwaited, Awaiting, Types
    <2>2. \A r \in Awaiting' \ pending' : r \in Awaiting \ pending /\ id'[r] = id[r]
      BY <1>1, <1>2 DEF Awaiting, Types
    <2> QED
      BY <1>3, <2>1, <2>2, PendingKept
  <1> QED
    BY <1>4, <1>5, <1>6, <1>7, <1>8

LEMMA LoopSteps ==
  ASSUME CallInv, NEW n \in Conns, LoopStep(n)
  PROVE  CallInv'
  <1>1. CASE HandlerReturns(n)
    <2>1. /\ handling' = [handling EXCEPT ![n] = NoCall] /\ Idling
          /\ UNCHANGED inbox
      BY <1>1 DEF HandlerReturns, Idling
    <2> QED
      BY <2>1, SameMail, Quiet DEF CallInv, Types
  <1>2. CASE Reconnect(n)
    BY <1>2, QuietClose DEF Reconnect, Idling
  <1>3. CASE LoopEnds(n)
    BY <1>3, QuietSame DEF LoopEnds, Idling
  <1>4. CASE WakeUp(n)
    BY <1>4, QuietSame DEF WakeUp, Idling
  <1> QED
    BY <1>1, <1>2, <1>3, <1>4, PostStep, ErrorStep, UpdateStep, CancelStep DEF LoopStep

(* An oracle update takes the last id given, which is not its own then.     *)
LEMMA OracleStep ==
  ASSUME CallInv, NEW x \in Oracles, UpdateOracle(x)
  PROVE  CallInv'
  <1> USE DEF CallInv
  <1>1. /\ call[x] = "idle" /\ x \notin Awaited
        /\ call' = [call EXCEPT ![x] = "sending"] /\ id' = [id EXCEPT ![x] = requestId]
        /\ UNCHANGED <<fut, outcome, requestId, pending, exchange, inbox, handling>>
    BY PyAssumption DEF UpdateOracle
  <1>2. \A r \in Requests : MovesOn(r) /\ (id'[r] = id[r] \/ call[r] = "idle")
    BY <1>1 DEF MovesOn, Unsent, Accepted, Rejected, GivenUp, Types
  <1>3. Types'
    BY <1>1, PyAssumption DEF Types, CallStates, FutureStates, Outcomes, ExchangeStates
  <1>4. IdsGiven' /\ Mail'
    BY <1>1, <1>2, SameMail, MailKept DEF IdsGiven, Types
  <1>5. Placed'
    BY <1>1 DEF Placed, Unsent, Types
  <1>6. AnswersHeld'
    <2>1. \A r \in Awaited : call[r] = "idle" => fut'[r] = "open" /\ outcome'[r] = "none"
      BY <1>1 DEF Placed, Unsent, Types
    <2>2. \A r \in Awaited : TrueOf(r, fut[r]) /\ TrueOf(r, outcome[r])
                            => TrueOf(r, fut'[r]) /\ TrueOf(r, outcome'[r])
      BY <1>1 DEF TrueOf, Types
    <2> QED
      BY <1>2, <2>1, <2>2, AnswersKept
  <1>7. PendingIsAwaited'
    <2>1. \A r \in pending' : r \in Awaiting' \/ call'[r] = "cancelled"
      BY <1>1 DEF PendingIsAwaited, Awaiting, Types
    <2>2. \A r \in Awaiting' \ pending' : r \in Awaiting \ pending /\ id'[r] = id[r]
      BY <1>1 DEF Awaiting, Types
    <2> QED
      BY <1>2, <2>1, <2>2, PendingKept
  <1> QED
    BY <1>3, <1>4, <1>5, <1>6, <1>7

(* The message is written.                                                 *)
LEMMA SentStep ==
  ASSUME CallInv, NEW c \in Requests, Sent(c)
  PROVE  CallInv'
  <1> USE DEF CallInv
  <1>1. /\ call[c] = "sending" /\ exchange[c] = "none"
        /\ call' = [call EXCEPT ![c] = IF c \in Awaited THEN "waiting" ELSE "done"]
        /\ exchange' = [exchange EXCEPT ![c] = "received"]
        /\ UNCHANGED <<id, fut, outcome, requestId, pending, inbox, handling>>
    BY DEF Sent, Placed, Unsent
  <1>2. \A r \in Requests : MovesOn(r) /\ (id'[r] = id[r] \/ call[r] = "idle")
    BY <1>1 DEF MovesOn, Unsent, Accepted, Rejected, GivenUp, Types
  <1>3. Types'
    BY <1>1, PyAssumption DEF Types, CallStates, FutureStates, Outcomes, ExchangeStates
  <1>4. IdsGiven' /\ Mail'
    BY <1>1, <1>2, SameMail, MailKept DEF IdsGiven, Types
  <1>5. Placed'
    BY <1>1 DEF Placed, Unsent, Types
  <1>6. AnswersHeld'
    <2>1. \A r \in Awaited : call[r] = "idle" => fut'[r] = "open" /\ outcome'[r] = "none"
      BY <1>1 DEF Placed, Unsent, Types
    <2>2. \A r \in Awaited : TrueOf(r, fut[r]) /\ TrueOf(r, outcome[r])
                            => TrueOf(r, fut'[r]) /\ TrueOf(r, outcome'[r])
      BY <1>1 DEF TrueOf, Types
    <2> QED
      BY <1>2, <2>1, <2>2, AnswersKept
  <1>7. PendingIsAwaited'
    <2>1. \A r \in pending' : r \in Awaiting' \/ call'[r] = "cancelled"
      BY <1>1 DEF PendingIsAwaited, Awaiting, Types
    <2>2. \A r \in Awaiting' \ pending' : r \in Awaiting \ pending /\ id'[r] = id[r]
      BY <1>1 DEF Awaiting, Types
    <2> QED
      BY <1>2, <2>1, <2>2, PendingKept
  <1> QED
    BY <1>3, <1>4, <1>5, <1>6, <1>7

(* The write raises.                                                       *)
LEMMA RaiseStep ==
  ASSUME CallInv, NEW c \in Requests, SendRaises(c)
  PROVE  CallInv'
  <1> USE DEF CallInv
  <1>1. /\ call[c] = "sending" /\ exchange[c] = "none"
        /\ call' = [call EXCEPT ![c] = "done"]
        /\ outcome' = [outcome EXCEPT ![c] = "sendError"]
        /\ pending' = pending \ {c}
        /\ UNCHANGED <<id, fut, requestId, exchange, inbox, handling>>
    BY DEF SendRaises, Placed, Unsent
  <1>2. \A r \in Requests : MovesOn(r) /\ (id'[r] = id[r] \/ call[r] = "idle")
    BY <1>1 DEF MovesOn, Unsent, Accepted, Rejected, GivenUp, Types
  <1>3. Types'
    BY <1>1, PyAssumption DEF Types, CallStates, FutureStates, Outcomes, ExchangeStates
  <1>4. IdsGiven' /\ Mail'
    BY <1>1, <1>2, SameMail, MailKept DEF IdsGiven, Types
  <1>5. Placed'
    BY <1>1 DEF Placed, Unsent, Types
  <1>6. AnswersHeld'
    <2>1. \A r \in Awaited : call[r] = "idle" => fut'[r] = "open" /\ outcome'[r] = "none"
      BY <1>1 DEF Placed, Unsent, Types
    <2>2. \A r \in Awaited : TrueOf(r, fut[r]) /\ TrueOf(r, outcome[r])
                            => TrueOf(r, fut'[r]) /\ TrueOf(r, outcome'[r])
      BY <1>1 DEF TrueOf, Types
    <2> QED
      BY <1>2, <2>1, <2>2, AnswersKept
  <1>7. PendingIsAwaited'
    <2>1. \A r \in pending' : r \in Awaiting' \/ call'[r] = "cancelled"
      BY <1>1 DEF PendingIsAwaited, Awaiting, Types
    <2>2. \A r \in Awaiting' \ pending' : r \in Awaiting \ pending /\ id'[r] = id[r]
      BY <1>1 DEF Awaiting, Types
    <2> QED
      BY <1>2, <2>1, <2>2, PendingKept
  <1> QED
    BY <1>3, <1>4, <1>5, <1>6, <1>7

(* The call returns what its future was resolved with.                     *)
LEMMA ReceiveStep ==
  ASSUME CallInv, NEW c \in Requests, Receive(c)
  PROVE  CallInv'
  <1> USE DEF CallInv
  <1>1. /\ call[c] = "waiting" /\ fut[c] # "open"
        /\ call' = [call EXCEPT ![c] = "done"]
        /\ outcome' = [outcome EXCEPT ![c] = fut[c]]
        /\ UNCHANGED <<id, fut, requestId, pending, exchange, inbox, handling>>
    BY DEF Receive
  <1>2. \A r \in Requests : MovesOn(r) /\ (id'[r] = id[r] \/ call[r] = "idle")
    BY <1>1 DEF MovesOn, Unsent, Accepted, Rejected, GivenUp, Types
  <1>3. Types'
    BY <1>1, PyAssumption DEF Types, CallStates, FutureStates, Outcomes, ExchangeStates
  <1>4. IdsGiven' /\ Mail'
    BY <1>1, <1>2, SameMail, MailKept DEF IdsGiven, Types
  <1>5. Placed'
    BY <1>1 DEF Placed, Unsent, Types, FutureStates, Verdicts
  <1>6. AnswersHeld'
    <2>1. \A r \in Awaited : call[r] = "idle" => fut'[r] = "open" /\ outcome'[r] = "none"
      BY <1>1 DEF Placed, Unsent, Types
    <2>2. \A r \in Awaited : TrueOf(r, fut[r]) /\ TrueOf(r, outcome[r])
                            => TrueOf(r, fut'[r]) /\ TrueOf(r, outcome'[r])
      BY <1>1 DEF TrueOf, Types
    <2> QED
      BY <1>2, <2>1, <2>2, AnswersKept
  <1>7. PendingIsAwaited'
    <2>1. \A r \in pending' : r \in Awaiting' \/ call'[r] = "cancelled"
      BY <1>1 DEF PendingIsAwaited, Awaiting, Types
    <2>2. \A r \in Awaiting' \ pending' : r \in Awaiting \ pending /\ id'[r] = id[r]
      BY <1>1 DEF Awaiting, Types
    <2> QED
      BY <1>2, <2>1, <2>2, PendingKept
  <1> QED
    BY <1>3, <1>4, <1>5, <1>6, <1>7

(* The call times out.                                                     *)
LEMMA TimeoutStep ==
  ASSUME CallInv, NEW c \in Awaited, Timeout(c)
  PROVE  CallInv'
  <1> USE DEF CallInv
  <1>1. /\ call[c] = "waiting" /\ fut[c] = "open"
        /\ call' = [call EXCEPT ![c] = "done"]
        /\ outcome' = [outcome EXCEPT ![c] = "timeout"]
        /\ fut' = [fut EXCEPT ![c] = "cancelled"]
        /\ pending' = pending \ {c}
        /\ UNCHANGED <<id, requestId, exchange, inbox, handling>>
    BY DEF Timeout
  <1>2. \A r \in Requests : MovesOn(r) /\ (id'[r] = id[r] \/ call[r] = "idle")
    BY <1>1 DEF MovesOn, Unsent, Accepted, Rejected, GivenUp, Types
  <1>3. Types'
    BY <1>1, PyAssumption DEF Types, CallStates, FutureStates, Outcomes, ExchangeStates
  <1>4. IdsGiven' /\ Mail'
    BY <1>1, <1>2, SameMail, MailKept DEF IdsGiven, Types
  <1>5. Placed'
    BY <1>1 DEF Placed, Unsent, Types
  <1>6. AnswersHeld'
    <2>1. \A r \in Awaited : call[r] = "idle" => fut'[r] = "open" /\ outcome'[r] = "none"
      BY <1>1 DEF Placed, Unsent, Types
    <2>2. \A r \in Awaited : TrueOf(r, fut[r]) /\ TrueOf(r, outcome[r])
                            => TrueOf(r, fut'[r]) /\ TrueOf(r, outcome'[r])
      BY <1>1 DEF TrueOf, Types
    <2> QED
      BY <1>2, <2>1, <2>2, AnswersKept
  <1>7. PendingIsAwaited'
    <2>1. \A r \in pending' : r \in Awaiting' \/ call'[r] = "cancelled"
      BY <1>1 DEF PendingIsAwaited, Awaiting, Types
    <2>2. \A r \in Awaiting' \ pending' : r \in Awaiting \ pending /\ id'[r] = id[r]
      BY <1>1 DEF Awaiting, Types
    <2> QED
      BY <1>2, <2>1, <2>2, PendingKept
  <1> QED
    BY <1>3, <1>4, <1>5, <1>6, <1>7

(* The exchange executes a request.                                        *)
LEMMA ExecuteStep ==
  ASSUME CallInv, NEW c \in Requests, NEW v \in Verdicts, Execute(c, v)
  PROVE  CallInv'
  <1> USE DEF CallInv
  <1>1. /\ exchange[c] = "received" /\ exchange' = [exchange EXCEPT ![c] = v]
        /\ ~Unsent(c)
        /\ UNCHANGED <<call, id, fut, outcome, requestId, pending, inbox, handling>>
    BY DEF Execute, Placed
  <1>2. \A r \in Requests : MovesOn(r) /\ (id'[r] = id[r] \/ call[r] = "idle")
    BY <1>1 DEF MovesOn, Unsent, Accepted, Rejected, GivenUp, Types
  <1>3. Types'
    BY <1>1, PyAssumption DEF Types, ExchangeStates, Verdicts
  <1>4. IdsGiven' /\ Mail'
    BY <1>1, <1>2, SameMail, MailKept DEF IdsGiven, Types
  <1>5. Placed'
    <2>1. \A r \in Requests : r # c => exchange'[r] = exchange[r]
      BY <1>1 DEF Types
    <2>2. outcome[c] # "sendError"
      BY <1>1 DEF Placed
    <2> QED
      BY <1>1, <2>1, <2>2 DEF Placed, Unsent
  <1>6. AnswersHeld'
    <2>1. \A r \in Awaited : call[r] = "idle" => fut'[r] = "open" /\ outcome'[r] = "none"
      BY <1>1 DEF Placed, Unsent, Types
    <2>2. \A r \in Awaited : TrueOf(r, fut[r]) /\ TrueOf(r, outcome[r])
                            => TrueOf(r, fut'[r]) /\ TrueOf(r, outcome'[r])
      BY <1>1 DEF TrueOf, Types
    <2> QED
      BY <1>2, <2>1, <2>2, AnswersKept
  <1>7. PendingIsAwaited'
    <2>1. \A r \in pending' : r \in Awaiting' \/ call'[r] = "cancelled"
      BY <1>1 DEF PendingIsAwaited, Awaiting, Types
    <2>2. \A r \in Awaiting' \ pending' : r \in Awaiting \ pending /\ id'[r] = id[r]
      BY <1>1 DEF Awaiting, Types
    <2> QED
      BY <1>2, <2>1, <2>2, PendingKept
  <1> QED
    BY <1>3, <1>4, <1>5, <1>6, <1>7

(* The reply of the exchange is put in flight: it tells the verdict.       *)
LEMMA AnswerStep ==
  ASSUME CallInv, NEW c \in Requests, Answer(c)
  PROVE  CallInv'
  <1> USE DEF CallInv
  <1>1. /\ exchange[c] \in Verdicts /\ ~Unsent(c) /\ outcome[c] # "sendError"
        /\ UNCHANGED <<call, id, fut, outcome, requestId, pending, handling>>
    BY DEF Answer, Told, Verdicts, Placed
  <1>2. PICK body \in {exchange[c], "unreadable"}, next \in ExchangeStates :
          /\ Reply(c, body) /\ exchange' = [exchange EXCEPT ![c] = next]
          /\ body = "unreadable" => next \in {"unreadAccepted", "unreadRejected"}
          /\ exchange[c] = "accepted" => next \in {"toldAccepted", "unreadAccepted"}
          /\ exchange[c] = "rejected" => next \in {"toldRejected", "unreadRejected"}
    <2>1. /\ exchange[c] \in {"accepted", "rejected"}
          /\ exchange[c] = "accepted"
               => Told[exchange[c]] = "toldAccepted" /\ Unread[exchange[c]] = "unreadAccepted"
          /\ exchange[c] = "rejected"
               => Told[exchange[c]] = "toldRejected" /\ Unread[exchange[c]] = "unreadRejected"
      BY <1>1 DEF Verdicts, Told, Unread
    <2>2. CASE Reply(c, exchange[c]) /\ exchange' = [exchange EXCEPT ![c] = Told[exchange[c]]]
      BY <2>1, <2>2 DEF ExchangeStates
    <2>3. CASE Reply(c, "unreadable") /\ exchange' = [exchange EXCEPT ![c] = Unread[exchange[c]]]
      BY <2>1, <2>3 DEF ExchangeStates
    <2> QED
      BY <2>2, <2>3 DEF Answer
  <1> DEFINE m == [type |-> "post", id |-> id[c], body |-> body]
  <1>3. m \in Messages
    BY <1>1, <1>2 DEF Messages, Types
  <1>4. /\ inbox' \in [Conns -> Seq(Messages)]
        /\ \A k \in Conns : \A i \in 1..Len(inbox'[k]) :
             inbox'[k][i] = m \/ \E j \in 1..Len(inbox[k]) : inbox[k][j] = inbox'[k][i]
    BY <1>2, <1>3, DeliveredMail DEF Reply
  <1>5. /\ exchange'[c] = next
        /\ \A r \in Requests : r # c => exchange'[r] = exchange[r]
    BY <1>2 DEF Types
  <1>6. \A r \in Requests : MovesOn(r)
    BY <1>1, <1>2, <1>5 DEF MovesOn, Unsent, Accepted, Rejected, GivenUp, Verdicts
  <1>7. Types'
    BY <1>1, <1>2, <1>4 DEF Types
  <1>8. IdsGiven'
    BY <1>1 DEF IdsGiven
  <1>9. Placed'
    BY <1>1, <1>2, <1>5 DEF Placed, Unsent
  <1>10. AnswersHeld'
    BY <1>1, <1>6, AnswersKept DEF Placed, Unsent
  <1>11. Mail'
    <2>1. ASSUME NEW k \in Conns, NEW i \in 1..Len(inbox'[k]), inbox'[k][i].type = "post"
          PROVE  \E r \in Requests :
                   /\ ~Unsent(r)' /\ id'[r] = inbox'[k][i].id
                   /\ inbox'[k][i].body = "accepted" => Accepted(r)'
                   /\ inbox'[k][i].body = "rejected" => Rejected(r)'
                   /\ inbox'[k][i].body = "unreadable" => GivenUp(r)'
      <3>1. CASE inbox'[k][i] = m
        <4>1. ~Unsent(c)' /\ id'[c] = m.id
          BY <1>1 DEF Unsent
        <4>2. m.body = body
          OBVIOUS
        <4>3. /\ m.body = "accepted" => Accepted(c)'
              /\ m.body = "rejected" => Rejected(c)'
              /\ m.body = "unreadable" => GivenUp(c)'
          BY <1>1, <1>2, <1>5, <4>2 DEF Accepted, Rejected, GivenUp, Verdicts
        <4> QED
          BY <3>1, <4>1, <4>3
      <3>2. ASSUME NEW j \in 1..Len(inbox[k]), inbox[k][j] = inbox'[k][i]
            PROVE  \E r \in Requests :
                     /\ ~Unsent(r)' /\ id'[r] = inbox'[k][i].id
                     /\ inbox'[k][i].body = "accepted" => Accepted(r)'
                     /\ inbox'[k][i].body = "rejected" => Rejected(r)'
                     /\ inbox'[k][i].body = "unreadable" => GivenUp(r)'
        <4>1. PICK r \in Requests : /\ ~Unsent(r) /\ id[r] = inbox'[k][i].id
                                    /\ TrueOf(r, inbox'[k][i].body)
                                    /\ inbox'[k][i].body = "unreadable" => GivenUp(r)
          BY <2>1, <3>2 DEF Mail, Tells
        <4>2. MovesOn(r)
          BY <1>6
        <4> QED
          BY <4>1, <4>2 DEF MovesOn, TrueOf
      <3> QED
        BY <1>4, <3>1, <3>2
    <2> QED
      BY <2>1 DEF Mail, Tells, TrueOf
  <1>12. PendingIsAwaited'
    <2>1. \A r \in pending' : r \in Awaiting' \/ call'[r] = "cancelled"
      BY <1>1 DEF PendingIsAwaited, Awaiting, Types
    <2>2. \A r \in Awaiting' \ pending' : r \in Awaiting \ pending /\ id'[r] = id[r]
      BY <1>1 DEF Awaiting, Types
    <2> QED
      BY <1>6, <2>1, <2>2, PendingKept
  <1> QED
    BY <1>4, <1>7, <1>8, <1>9, <1>10, <1>11, <1>12

-----------------------------------------------------------------------------
(* Every step, and the theorems.                                           *)

LEMMA CallKept == CallInv /\ [Next]_vars => CallInv'
  <1> SUFFICES ASSUME CallInv, [Next]_vars PROVE CallInv'
    OBVIOUS
  <1>1. CASE UNCHANGED vars
    BY <1>1, QuietSame DEF vars, Idling
  <1>2. ASSUME NEW c \in Calls, PlaceOrders(c) PROVE CallInv'
    <2>1. Begins(c) /\ UNCHANGED <<fut, outcome, exchange, inbox, handling>>
      BY <1>2 DEF PlaceOrders
    <2>2. /\ inbox' \in [Conns -> Seq(Messages)]
          /\ handling' \in [Conns -> HandlerCalls \cup {NoCall}]
      BY <2>1 DEF CallInv, Types
    <2> QED
      BY <2>1, <2>2, SameMail, BeginStep
  <1>3. ASSUME NEW c \in Requests, CallStep(c) \/ Verdict(c) PROVE CallInv'
    <2>1. DOMAIN Told = Verdicts
      BY DEF Told, Verdicts
    <2> QED
      BY <1>3, <2>1, SentStep, RaiseStep, ReceiveStep, AnswerStep, ExecuteStep
         DEF CallStep, Verdict
  <1> QED
    BY <1>1, <1>2, <1>3, UserSteps, LoopSteps, NetworkSteps, OracleStep, TimeoutStep DEF Next

(* What place_orders returns about the exchange is true of its own order,  *)
(* unless update_oracle has used its id: for any calls, by tasks and by    *)
(* handlers, over any number of connections, with replies that come late,  *)
(* after a timeout, an error or a reconnection.                            *)
THEOREM OwnAnswersTrue == Spec => []OwnAnswersAreTrue
  <1>1. CallInv => OwnAnswersAreTrue
    BY DEF CallInv, AnswersHeld, Placed, TrueOf, Accepted, Rejected, OwnAnswersAreTrue,
           AnswerIsTrue, Own
  <1> QED
    BY <1>1, CallInit, CallKept, PTL DEF Spec

(* pending_requests holds no future but those that are awaited and those   *)
(* of calls that were cancelled, and a call that waits is in it unless the *)
(* exchange has answered under its id in a way the client cannot read,     *)
(* whatever the steps and their order.                                     *)
THEOREM PendingAwaited == Spec => []PendingIsAwaited
  <1>1. CallInv => PendingIsAwaited
    BY DEF CallInv
  <1> QED
    BY <1>1, CallInit, CallKept, PTL DEF Spec

-----------------------------------------------------------------------------
(* The contract of a trading call.                                         *)

(* The caller's view of a request does not change.                         *)
Same(c) ==
  PhaseOf(c)' = PhaseOf(c) /\ ResultOf(c)' = ResultOf(c) /\ VerdictOf(c)' = VerdictOf(c)

(* The step of the contract that each change of that view is.              *)
LEMMA NothingSeen ==
  ASSUME \A c \in Awaited : Same(c)
  PROVE  UNCHANGED Contract!vars
  BY DEF Contract!vars, Same

LEMMA SeenAsIssue ==
  ASSUME NEW c \in Awaited, PhaseOf(c) = "new", PhaseOf(c)' = "open",
         ResultOf(c)' = ResultOf(c), VerdictOf(c)' = VerdictOf(c),
         \A d \in Awaited \ {c} : Same(d)
  PROVE  Contract!Next
  <1>1. Contract!Issue(c)
    BY DEF Contract!Issue, Same
  <1> QED
    BY <1>1 DEF Contract!Next

LEMMA SeenAsReturn ==
  ASSUME NEW c \in Awaited, NEW a \in Contract!Results,
         PhaseOf(c) = "open", PhaseOf(c)' = "done",
         ResultOf(c)' = a, VerdictOf(c)' = VerdictOf(c),
         \/ a \in {"accepted", "rejected"} /\ VerdictOf(c) = a
         \/ a = "notSent" /\ VerdictOf(c) = "none"
         \/ a = "unknown",
         \A d \in Awaited \ {c} : Same(d)
  PROVE  Contract!Next
  <1>1. Contract!Return(c, a)
    BY DEF Contract!Return, Contract!Verdicts, Same
  <1> QED
    BY <1>1 DEF Contract!Next

LEMMA SeenAsExecute ==
  ASSUME NEW c \in Awaited, NEW v \in Verdicts,
         PhaseOf(c) # "new", VerdictOf(c) = "none", ResultOf(c) # "notSent",
         VerdictOf(c)' = v, PhaseOf(c)' = PhaseOf(c), ResultOf(c)' = ResultOf(c),
         \A d \in Awaited \ {c} : Same(d)
  PROVE  Contract!Next
  <1>1. Contract!Execute(c, v) /\ v \in Contract!Verdicts
    BY DEF Contract!Execute, Contract!Verdicts, Verdicts, Same
  <1> QED
    BY <1>1 DEF Contract!Next

LEMMA KeptIsSame ==
  ASSUME NEW c, call'[c] = call[c], outcome'[c] = outcome[c], exchange'[c] = exchange[c]
  PROVE  Same(c)
  BY DEF Same, PhaseOf, ResultOf, VerdictOf

LEMMA Unseen ==
  ASSUME UNCHANGED <<call, outcome, exchange>> PROVE UNCHANGED Contract!vars
  BY KeptIsSame, NothingSeen

LEMMA ContractInit == Init => Contract!Init
  <1> SUFFICES ASSUME Init PROVE Contract!Init
    OBVIOUS
  <1>1. \A c \in Awaited : call[c] = "idle" /\ outcome[c] = "none" /\ exchange[c] = "none"
    BY DEF Init
  <1>2. \A c \in Awaited : PhaseOf(c) = "new" /\ ResultOf(c) = "none" /\ VerdictOf(c) = "none"
    BY <1>1 DEF PhaseOf, ResultOf, VerdictOf
  <1> QED
    BY <1>2 DEF Contract!Init

(* Outcome and verdict of a call that is still running.                    *)
LEMMA Running ==
  ASSUME CallInv, NEW c \in Awaited, call[c] # "done"
  PROVE  outcome[c] = "none"
  BY DEF CallInv, Placed

LEMMA SeenBegins ==
  ASSUME CallInv, NEW c \in Awaited, Begins(c), UNCHANGED <<outcome, exchange>>
  PROVE  Contract!Next
  <1>1. call[c] = "idle" /\ call' = [call EXCEPT ![c] = "sending"] /\ outcome[c] = "none"
    BY Running DEF Begins
  <1>2. call'[c] = "sending" /\ \A d \in Awaited \ {c} : call'[d] = call[d]
    BY <1>1 DEF CallInv, Types
  <1>3. \A d \in Awaited \ {c} : Same(d)
    BY <1>2, KeptIsSame
  <1>4. PhaseOf(c) = "new" /\ PhaseOf(c)' = "open"
    BY <1>1, <1>2 DEF PhaseOf
  <1>5. ResultOf(c)' = ResultOf(c) /\ VerdictOf(c)' = VerdictOf(c)
    BY <1>1, <1>2 DEF ResultOf, VerdictOf
  <1> QED
    BY <1>3, <1>4, <1>5, SeenAsIssue

(* A handler's call is cancelled with its loop: it has returned nothing.   *)
LEMMA SeenCancelled ==
  ASSUME CallInv, NEW n \in Conns, Cancelled(n)
  PROVE  Contract!Next \/ UNCHANGED Contract!vars
  <1> PICK c \in HandlerCalls \cup {NoCall} : c = handling[n]
    BY DEF CallInv, Types
  <1> DEFINE S == {d \in {c} : d # NoCall /\ call[d] # "done"}
  <1>1. /\ call' = [d \in Requests |-> IF d \in S THEN "cancelled" ELSE call[d]]
        /\ UNCHANGED <<outcome, exchange>>
    BY DEF Cancelled
  <1>3. ASSUME NEW d \in Awaited, d \notin S PROVE Same(d)
    BY <1>1, <1>3, KeptIsSame
  <1>4. CASE S = {}
    BY <1>3, <1>4, NothingSeen
  <1>5. CASE S # {}
    <2>1. c \in Awaited /\ S = {c} /\ call[c] \notin {"idle", "done"} /\ outcome[c] = "none"
      BY <1>5, Running DEF CallInv, Placed
    <2>2. call'[c] = "cancelled" /\ call[c] \in {"sending", "waiting", "cancelled"}
      BY <1>1, <2>1 DEF CallInv, Types, CallStates
    <2> HIDE DEF S
    <2>3. PhaseOf(c)' = "done" /\ ResultOf(c)' = "unknown" /\ VerdictOf(c)' = VerdictOf(c)
      <3>1. outcome'[c] = "none" /\ exchange'[c] = exchange[c]
        BY <1>1, <2>1
      <3>2. PhaseOf(c)' = "done"
        BY <2>2 DEF PhaseOf
      <3>3. ResultOf(c)' = "unknown"
        BY <2>2, <3>1 DEF ResultOf
      <3>4. VerdictOf(c)' = VerdictOf(c)
        BY <3>1 DEF VerdictOf
      <3> QED
        BY <3>2, <3>3, <3>4
    <2>4. CASE call[c] = "cancelled"
      <3>1. Same(c)
        BY <1>1, <2>2, <2>4, KeptIsSame
      <3> QED
        BY <1>3, <2>1, <3>1, NothingSeen
    <2>5. CASE call[c] \in {"sending", "waiting"}
      <3>1. PhaseOf(c) = "open"
        BY <2>5 DEF PhaseOf
      <3>2. \A d \in Awaited \ {c} : Same(d)
        BY <1>3, <2>1
      <3>3. "unknown" \in Contract!Results
        BY DEF Contract!Results
      <3> QED
        BY <2>1, <2>3, <3>1, <3>2, <3>3, SeenAsReturn
    <2> QED
      BY <2>2, <2>4, <2>5
  <1> QED
    BY <1>4, <1>5

LEMMA SeenLoop ==
  ASSUME CallInv, NEW n \in Conns, LoopStep(n)
  PROVE  Contract!Next \/ UNCHANGED Contract!vars
  <1>1. CASE HandleUpdate(n)
    <2>1. UNCHANGED exchange
      BY <1>1 DEF HandleUpdate
    <2>2. \/ UNCHANGED <<task, handling, callVars>>
          \/ \E c \in HandlerCalls : Begins(c) /\ UNCHANGED <<fut, outcome>>
      BY <1>1 DEF HandleUpdate
    <2> QED
      BY <2>1, <2>2, SeenBegins, Unseen
  <1>2. CASE \/ HandlePost(n) \/ HandleError(n) \/ HandlerReturns(n) \/ Reconnect(n)
             \/ LoopEnds(n) \/ WakeUp(n)
    <2>1. UNCHANGED <<call, outcome, exchange>>
      BY <1>2 DEF HandlePost, HandleError, HandlerReturns, Reconnect, LoopEnds, WakeUp
    <2> QED
      BY <2>1, Unseen
  <1> QED
    BY <1>1, <1>2, SeenCancelled DEF LoopStep

(* A call that is waiting returns.                                         *)
LEMMA SeenWaiting ==
  ASSUME CallInv, Oracles = {}, NEW c \in Awaited, Receive(c) \/ Timeout(c)
  PROVE  Contract!Next
  <1>1. PICK a \in FutureStates \cup {"timeout"} :
          /\ a = fut[c] \/ a = "timeout"
          /\ a # "open"
          /\ call[c] = "waiting"
          /\ call' = [call EXCEPT ![c] = "done"]
          /\ outcome' = [outcome EXCEPT ![c] = a]
          /\ UNCHANGED exchange
    BY DEF Receive, Timeout, CallInv, Types
  <1>2. call'[c] = "done" /\ outcome'[c] = a
    BY <1>1 DEF CallInv, Types
  <1>3. \A d \in Awaited \ {c} : call'[d] = call[d] /\ outcome'[d] = outcome[d]
    BY <1>1 DEF CallInv, Types
  <1>4. \A d \in Awaited \ {c} : Same(d)
    BY <1>1, <1>3, KeptIsSame
  <1>5. PhaseOf(c) = "open" /\ PhaseOf(c)' = "done" /\ VerdictOf(c)' = VerdictOf(c)
    BY <1>1, <1>2 DEF PhaseOf, VerdictOf
  <1>6. CASE a \in Verdicts
    <2>1. TrueOf(c, a)
      BY <1>1, <1>6 DEF CallInv, AnswersHeld, Own, Verdicts
    <2>2. ResultOf(c)' = a /\ VerdictOf(c) = a
      BY <1>2, <1>6, <2>1 DEF ResultOf, VerdictOf, TrueOf, Accepted, Rejected, Verdicts
    <2> QED
      BY <1>4, <1>5, <1>6, <2>2, SeenAsReturn DEF Contract!Results, Verdicts
  <1>7. CASE a \notin Verdicts
    <2>1. ResultOf(c)' = "unknown"
      BY <1>1, <1>2, <1>7 DEF ResultOf, FutureStates, Verdicts
    <2> QED
      BY <1>4, <1>5, <2>1, SeenAsReturn DEF Contract!Results
  <1> QED
    BY <1>6, <1>7

(* The write succeeds, which nobody is told, or raises.                    *)
LEMMA SeenSending ==
  ASSUME CallInv, NEW c \in Awaited, Sent(c) \/ SendRaises(c)
  PROVE  Contract!Next \/ UNCHANGED Contract!vars
  <1>1. call[c] = "sending" /\ outcome[c] = "none" /\ exchange[c] = "none"
    BY DEF Sent, SendRaises, CallInv, Placed, Unsent
  <1>2. CASE Sent(c)
    <2>1. /\ call'[c] = "waiting" /\ exchange'[c] = "received" /\ UNCHANGED outcome
          /\ \A d \in Awaited \ {c} : call'[d] = call[d] /\ exchange'[d] = exchange[d]
      BY <1>2 DEF Sent, CallInv, Types
    <2>2. Same(c)
      BY <1>1, <2>1 DEF Same, PhaseOf, ResultOf, VerdictOf
    <2>3. \A d \in Awaited \ {c} : Same(d)
      BY <2>1, KeptIsSame
    <2> QED
      BY <2>2, <2>3, NothingSeen
  <1>3. CASE SendRaises(c)
    <2>1. /\ call'[c] = "done" /\ outcome'[c] = "sendError" /\ UNCHANGED exchange
          /\ \A d \in Awaited \ {c} : call'[d] = call[d] /\ outcome'[d] = outcome[d]
      BY <1>3 DEF SendRaises, CallInv, Types
    <2>2. \A d \in Awaited \ {c} : Same(d)
      BY <2>1, KeptIsSame
    <2>3. PhaseOf(c) = "open" /\ PhaseOf(c)' = "done" /\ ResultOf(c)' = "notSent"
      BY <1>1, <2>1 DEF PhaseOf, ResultOf
    <2>4. VerdictOf(c)' = VerdictOf(c) /\ VerdictOf(c) = "none"
      BY <1>1, <2>1 DEF VerdictOf
    <2> QED
      BY <2>2, <2>3, <2>4, SeenAsReturn DEF Contract!Results
  <1> QED
    BY <1>2, <1>3

LEMMA SeenVerdict ==
  ASSUME CallInv, NEW c \in Awaited, Verdict(c)
  PROVE  Contract!Next \/ UNCHANGED Contract!vars
  <1>1. UNCHANGED <<call, outcome>>
    BY DEF Verdict, Answer, Execute
  <1>2. ASSUME NEW v \in Verdicts, Execute(c, v) PROVE Contract!Next
    <2>1. /\ exchange[c] = "received" /\ exchange'[c] = v
          /\ \A d \in Awaited \ {c} : exchange'[d] = exchange[d]
      BY <1>2 DEF Execute, CallInv, Types
    <2>2. \A d \in Awaited \ {c} : Same(d)
      BY <1>1, <2>1, KeptIsSame
    <2>3. call[c] # "idle" /\ outcome[c] # "sendError"
      BY <2>1 DEF CallInv, Placed, Unsent
    <2>4. PhaseOf(c) # "new" /\ PhaseOf(c)' = PhaseOf(c)
      BY <1>1, <2>3 DEF PhaseOf
    <2>5. ResultOf(c) # "notSent" /\ ResultOf(c)' = ResultOf(c)
      BY <1>1, <2>3 DEF ResultOf
    <2>6. VerdictOf(c) = "none" /\ VerdictOf(c)' = v
      BY <1>2, <2>1 DEF VerdictOf, Verdicts
    <2> QED
      BY <2>2, <2>4, <2>5, <2>6, SeenAsExecute
  <1>3. CASE Answer(c)
    <2>1. /\ \/ exchange[c] = "accepted" /\ exchange'[c] \in {"toldAccepted", "unreadAccepted"}
             \/ exchange[c] = "rejected" /\ exchange'[c] \in {"toldRejected", "unreadRejected"}
          /\ \A d \in Awaited \ {c} : exchange'[d] = exchange[d]
      BY <1>3 DEF Answer, Told, Unread, CallInv, Types
    <2>2. Same(c)
      BY <1>1, <2>1 DEF Same, PhaseOf, ResultOf, VerdictOf
    <2>3. \A d \in Awaited \ {c} : Same(d)
      BY <1>1, <2>1, KeptIsSame
    <2> QED
      BY <2>2, <2>3, NothingSeen
  <1>4. DOMAIN Told = Verdicts
    BY DEF Told, Verdicts
  <1> QED
    BY <1>2, <1>3, <1>4 DEF Verdict

LEMMA ContractStep ==
  ASSUME CallInv, Oracles = {}, [Next]_vars
  PROVE  Contract!Next \/ UNCHANGED Contract!vars
  <1>1. CASE UNCHANGED vars
    BY <1>1, Unseen DEF vars
  <1>2. CASE \/ UserConnect \/ Disconnect \/ DisconnectStep
             \/ \E p \in Tasks : ConnectStep(p)
             \/ \E t \in UserTopics : Subscribe(t) \/ SubscribeReturns(t)
             \/ \E n \in Conns : \/ PushUpdate(n) \/ PushError(n)
                                 \/ \E how \in {"lost", "clean"} : ConnectionEnds(n, how)
    <2>1. UNCHANGED <<call, outcome, exchange>>
      BY <1>2 DEF UserConnect, Disconnect, DisconnectStep, Joined, Close, DisconnectReturns,
             ConnectStep, Opened, OpenFails, Subscribed, SubscribeFails, Subscribe,
             SubscribeReturns, PushUpdate, PushError, ConnectionEnds
    <2> QED
      BY <2>1, Unseen
  <1>3. ASSUME NEW c \in Calls, PlaceOrders(c) PROVE Contract!Next
    BY <1>3, SeenBegins DEF PlaceOrders
  <1>4. ASSUME NEW c \in Requests, CallStep(c) \/ Verdict(c)
        PROVE  Contract!Next \/ UNCHANGED Contract!vars
    BY <1>4, SeenSending, SeenWaiting, SeenVerdict DEF CallStep
  <1>5. ASSUME NEW c \in Awaited, Timeout(c) PROVE Contract!Next
    BY <1>5, SeenWaiting
  <1> QED
    BY <1>1, <1>2, <1>3, <1>4, <1>5, SeenLoop DEF Next

(* Where nobody updates an oracle, place_orders keeps the contract of      *)
(* RequestReply: it returns once, an accepted or rejected is the           *)
(* exchange's verdict on this very request, and an order it failed to send *)
(* is never executed, over timeouts, reconnections and cancelled handlers. *)
THEOREM ImplementsReply == ASSUME Oracles = {} PROVE Spec => ImplementsContract
  <1>1. CallInv /\ [Next]_vars => [Contract!Next]_(Contract!vars)
    BY ContractStep
  <1> QED
    BY <1>1, ContractInit, CallInit, CallKept, PTL DEF Spec, ImplementsContract, Contract!Spec

-----------------------------------------------------------------------------
(* The connections.                                                        *)

ConnectStates == {"opening", "subscribing"}
UserStates    == ConnectStates \cup {"idle", "joining", "closing", "closed"}
LiveStates    == {"recv", "handling", "sleep", "opening"}
LoopStates    == LiveStates \cup {"none", "done", "subscribing"}
ConnStates    == {"none", "open", "closed", "lost", "clean"}

TaskTypes ==
  /\ task = [p \in Tasks |-> task[p]]
  /\ task[0] \in UserStates /\ \A n \in Conns : task[n] \in LoopStates
  /\ conn \in [Conns -> ConnStates]
  /\ receiveTask \in Tasks /\ ws \in {0, receiveTask}

(* A loop that may still connect again.                                    *)
Live(n) == task[n] \in LiveStates

(* Only the loop the client remembers is live, only its connection open:   *)
(* one that handed over to it, after a reconnection, only subscribes.      *)
OneLoop ==
  /\ \A n \in Conns : Live(n) => n = receiveTask
  /\ \A n \in Conns : task[n] = "subscribing" => n < receiveTask
  /\ \A n \in Conns : conn[n] = "none" <=> n > receiveTask
  /\ \A n \in Conns : conn[n] = "open" =>
       /\ n = receiveTask /\ ws = n
       /\ Live(n) \/ task[0] \in {"joining", "closing"}
       /\ task[n] \notin {"sleep", "opening"}

NothingOpen == \A n \in Conns : conn[n] # "open"
NothingLive == \A n \in Conns : ~Live(n)

(* How far disconnect() is.                                                *)
GoingDown ==
  /\ cancelled \subseteq {receiveTask}
  /\ cancelled # {} => receiveTask # 0 /\ Live(receiveTask) /\ task[0] = "joining"
  /\ task[0] = "joining" => receiveTask # 0 /\ (Live(receiveTask) => receiveTask \in cancelled)
  /\ task[0] \in {"opening", "closing", "closed"} => NothingLive
  /\ task[0] \in {"opening", "closed"} => NothingOpen
  /\ off => state = "DISCONNECTED" /\ ws = 0 /\ task[0] = "idle" /\ NothingLive /\ NothingOpen

DownInv == TaskTypes /\ OneLoop /\ GoingDown

LEMMA Numbers == 0 \in Tasks /\ 0 \notin Conns /\ Tasks = Conns \cup {0} /\ Conns \subseteq Nat
  BY PyAssumption DEF Tasks, Conns

USE DEF clientVars, taskVars, netVars, Live, NothingOpen, NothingLive,
        ConnectStates, UserStates, LiveStates, LoopStates, ConnStates

LEMMA DownInit == Init => DownInv
  <1> SUFFICES ASSUME Init PROVE DownInv
    OBVIOUS
  <1>1. TaskTypes
    BY Numbers DEF Init, TaskTypes
  <1>2. OneLoop
    BY Numbers DEF Init, OneLoop
  <1>3. GoingDown
    BY Numbers DEF Init, GoingDown
  <1> QED
    BY <1>1, <1>2, <1>3 DEF DownInv

(* A connection is opened when nothing else is: by the loop remembered, or *)
(* by the user with no loop about.                                         *)
LEMMA Opens ==
  ASSUME DownInv, NEW p \in Tasks, Opened(p)
  PROVE  DownInv'
  <1> USE DEF DownInv, At
  <1>1. PICK n \in Conns :
          /\ conn[n] = "none" /\ \A k \in 1..(n - 1) : conn[k] # "none"
          /\ conn' = [conn EXCEPT ![n] = "open"] /\ ws' = n /\ receiveTask' = n
          /\ task' = [task EXCEPT ![n] = "recv",
                                  ![p] = IF ToSubscribe = <<>> THEN Return(p) ELSE "subscribing"]
    BY DEF Opened
  <1>2. task[p] = "opening" /\ p \notin cancelled /\ UNCHANGED <<cancelled, off>>
    BY DEF Opened
  <1>3. n = receiveTask + 1 /\ p < n /\ receiveTask \in Nat /\ (p = receiveTask \/ p = 0)
    BY <1>1, <1>2, Numbers DEF TaskTypes, OneLoop, Conns
  <1>4. /\ task'[n] = "recv" /\ task'[p] \in {"idle", "done", "subscribing"}
        /\ (p = 0 => task'[p] # "done") /\ (p # 0 => task'[p] # "idle")
        /\ \A k \in Tasks : k \notin {n, p} => task'[k] = task[k]
        /\ task' = [k \in Tasks |-> task'[k]]
    <2>1. n \in Tasks /\ n # p /\ DOMAIN task = Tasks
      BY <1>3, Numbers DEF TaskTypes
    <2>2. DOMAIN task' = Tasks /\ task' = [k \in Tasks |-> task'[k]]
      BY <1>1, <2>1
    <2>3. /\ task'[n] = "recv"
          /\ task'[p] = IF ToSubscribe = <<>> THEN Return(p) ELSE "subscribing"
          /\ \A k \in Tasks : k \notin {n, p} => task'[k] = task[k]
      BY <1>1, <2>1
    <2> QED
      BY <2>2, <2>3 DEF Return
  <1>5. NothingOpen /\ \A k \in Conns : k # p => ~Live(k)
    BY <1>2, <1>3, Numbers DEF OneLoop, GoingDown
  <1>6. cancelled = {} /\ ~off /\ task[0] \notin {"joining", "closing", "closed"}
    BY <1>2, <1>3, Numbers DEF GoingDown, OneLoop
  <1>7. TaskTypes'
    BY <1>1, <1>3, <1>4, Numbers DEF TaskTypes
  <1>8. OneLoop'
    BY <1>1, <1>3, <1>4, <1>5, Numbers DEF OneLoop, TaskTypes
  <1>9. GoingDown'
    BY <1>1, <1>2, <1>3, <1>4, <1>6, Numbers DEF GoingDown
  <1> QED
    BY <1>7, <1>8, <1>9

(* Nothing changes for the connections and the loops.                      *)
LEMMA Calm ==
  ASSUME DownInv, UNCHANGED <<state, ws, receiveTask, task, cancelled, off, conn>>
  PROVE  DownInv'
  <1> USE DEF DownInv
  <1>1. TaskTypes' /\ OneLoop'
    BY DEF TaskTypes, OneLoop
  <1>2. GoingDown'
    BY DEF GoingDown
  <1> QED
    BY <1>1, <1>2

(* One task p moves, without a connection: a loop stays live or is done.   *)
LEMMA Moves ==
  ASSUME DownInv, UNCHANGED <<ws, receiveTask, cancelled, off, conn>>,
         NEW p \in Tasks, NEW w, task' = [task EXCEPT ![p] = w],
         \/ /\ p = 0 /\ task[0] \in ConnectStates /\ w = "idle"
            /\ state' = "DISCONNECTED" \/ state' = state
         \/ /\ p # 0 /\ w = "done" /\ p \notin cancelled
            /\ state' = "DISCONNECTED" \/ state' = state
            /\ task[p] = "recv" => conn[p] # "open"
            /\ task[p] # "handling"
         \/ p # 0 /\ task[p] \in LiveStates /\ w \in {"recv", "handling"} /\ state' = state
            /\ task[p] \notin {"sleep", "opening"}
         \/ p # 0 /\ task[p] = "sleep" /\ w = "opening"
  PROVE  DownInv'
  <1> USE DEF DownInv
  <1>1. /\ task'[p] = w /\ \A k \in Tasks : k # p => task'[k] = task[k]
        /\ task' = [k \in Tasks |-> task'[k]] /\ 0 \in Tasks
    BY Numbers DEF TaskTypes
  <1>2. TaskTypes'
    BY <1>1, Numbers DEF TaskTypes
  <1>3. OneLoop'
    BY <1>1, Numbers DEF OneLoop, TaskTypes, GoingDown
  <1>4. GoingDown'
    BY <1>1, Numbers DEF GoingDown, OneLoop, TaskTypes
  <1> QED
    BY <1>2, <1>3, <1>4

(* The client's connection is closed, if it is open.                       *)
LEMMA Closes ==
  ASSUME DownInv, CloseIt
  PROVE  /\ conn' \in [Conns -> ConnStates]
         /\ \A n \in Conns : conn'[n] = conn[n] \/ (conn[n] = "open" /\ conn'[n] = "closed")
         /\ \A n \in Conns : conn'[n] # "open"
  BY DEF DownInv, TaskTypes, OneLoop, CloseIt

-----------------------------------------------------------------------------
(* connect().                                                              *)

LEMMA UserConnects ==
  ASSUME ~Hasty, DownInv, UserConnect
  PROVE  DownInv'
  <1> USE DEF DownInv
  <1>1. /\ task[0] = "idle" /\ task'[0] = "opening" /\ \A n \in Conns : task'[n] = task[n]
        /\ task' = [k \in Tasks |-> task'[k]]
        /\ off' = FALSE /\ UNCHANGED <<ws, receiveTask, cancelled, conn>>
    BY Numbers DEF UserConnect, At, TaskTypes
  <1>2. NothingLive /\ NothingOpen
    BY <1>1 DEF UserConnect, Finished, OneLoop
  <1>3. TaskTypes'
    BY <1>1, Numbers DEF TaskTypes
  <1>4. OneLoop'
    BY <1>1, <1>2 DEF OneLoop
  <1>5. GoingDown'
    BY <1>1, <1>2 DEF GoingDown
  <1> QED
    BY <1>3, <1>4, <1>5

LEMMA Connects ==
  ASSUME DownInv, NEW p \in Tasks, ConnectStep(p)
  PROVE  DownInv'
  <1> USE DEF Return, At
  <1>1. CASE OpenFails(p)
    BY <1>1, Moves DEF OpenFails
  <1>2. CASE Subscribed(p)
    <2>1. CASE UNCHANGED task
      <3>1. UNCHANGED off /\ (state' = state \/ state' = "DISCONNECTED")
            /\ UNCHANGED <<ws, receiveTask, cancelled, conn>>
        BY <1>2 DEF Subscribed
      <3>2. TaskTypes' /\ OneLoop'
        BY <2>1, <3>1 DEF DownInv, TaskTypes, OneLoop
      <3>3. GoingDown'
        BY <2>1, <3>1 DEF DownInv, GoingDown
      <3> QED
        BY <3>2, <3>3 DEF DownInv
    <2>2. CASE task' = [task EXCEPT ![p] = Return(p)]
      BY <1>2, <2>2, Moves DEF Subscribed
    <2> QED
      BY <1>2, <2>1, <2>2 DEF Subscribed
  <1>3. CASE SubscribeFails(p)
    BY <1>3, Moves DEF SubscribeFails
  <1> QED
    BY <1>1, <1>2, <1>3, Opens DEF ConnectStep

-----------------------------------------------------------------------------
(* disconnect().                                                           *)

LEMMA Disconnects ==
  ASSUME DownInv, Disconnect
  PROVE  DownInv'
  <1> USE DEF DownInv
  <1>1. /\ task[0] = "idle" /\ \A n \in Conns : task'[n] = task[n]
        /\ task'[0] = IF receiveTask = 0 THEN "closing" ELSE "joining"
        /\ task' = [k \in Tasks |-> task'[k]]
        /\ ~off /\ UNCHANGED <<state, ws, receiveTask, conn, off>>
    BY Numbers DEF Disconnect, At, TaskTypes
  <1>2. cancelled = {} /\ cancelled' = {n \in {receiveTask} : n # 0 /\ ~Finished(n)}
    BY <1>1 DEF Disconnect, GoingDown
  <1>3. TaskTypes'
    BY <1>1, Numbers DEF TaskTypes
  <1>4. OneLoop'
    BY <1>1 DEF OneLoop
  <1>5. GoingDown'
    <2>1. \A n \in Conns : n = receiveTask /\ ~Finished(n) => Live(n)
      BY Numbers DEF OneLoop, TaskTypes, Finished
    <2>2. receiveTask # 0 => receiveTask \in Conns
      BY Numbers DEF TaskTypes
    <2>3. NothingLive \/ receiveTask # 0
      BY <2>2, Numbers DEF OneLoop
    <2>4. receiveTask # 0 /\ Live(receiveTask) => receiveTask \in cancelled'
      BY <1>2, <2>2 DEF Finished
    <2>5. cancelled' # {} => receiveTask # 0 /\ Live(receiveTask) /\ cancelled' = {receiveTask}
      BY <1>2, <2>1, <2>2
    <2>6. NothingLive => NothingLive'
      BY <1>1
    <2>7. receiveTask # 0 => (Live(receiveTask)' <=> Live(receiveTask))
      BY <1>1, <2>2
    <2> QED
      BY <1>1, <2>3, <2>4, <2>5, <2>6, <2>7 DEF GoingDown
  <1> QED
    BY <1>3, <1>4, <1>5

LEMMA GoesDown ==
  ASSUME DownInv, DisconnectStep
  PROVE  DownInv'
  <1> USE DEF DownInv
  <1>1. CASE Joined
    <2>1. /\ task[0] = "joining" /\ \A n \in Conns : task'[n] = task[n]
          /\ task'[0] = "closing" /\ task' = [k \in Tasks |-> task'[k]]
          /\ UNCHANGED <<state, ws, receiveTask, conn, off, cancelled>>
      BY <1>1, Numbers DEF Joined, TaskTypes
    <2>2. NothingLive /\ cancelled = {}
      BY <1>1, <2>1 DEF Joined, Finished, OneLoop, GoingDown
    <2>3. TaskTypes'
      BY <2>1, Numbers DEF TaskTypes
    <2>4. OneLoop' /\ GoingDown'
      BY <2>1, <2>2 DEF OneLoop, GoingDown
    <2> QED
      BY <2>3, <2>4
  <1>2. CASE Close
    <2>1. /\ task[0] = "closing" /\ \A n \in Conns : task'[n] = task[n]
          /\ task'[0] = "closed" /\ task' = [k \in Tasks |-> task'[k]]
          /\ UNCHANGED <<state, ws, receiveTask, off, cancelled>>
      BY <1>2, Numbers DEF Close, TaskTypes
    <2>2. /\ conn' \in [Conns -> ConnStates] /\ \A n \in Conns : conn'[n] # "open"
          /\ \A n \in Conns : conn'[n] = "none" <=> conn[n] = "none"
      BY <1>2, Closes DEF Close
    <2>3. TaskTypes'
      BY <2>1, <2>2, Numbers DEF TaskTypes
    <2>4. OneLoop' /\ GoingDown'
      BY <2>1, <2>2 DEF OneLoop, GoingDown
    <2> QED
      BY <2>3, <2>4
  <1>3. CASE DisconnectReturns
    <2>1. /\ task[0] = "closed" /\ \A n \in Conns : task'[n] = task[n]
          /\ task'[0] = "idle" /\ task' = [k \in Tasks |-> task'[k]]
          /\ state' = "DISCONNECTED" /\ ws' = 0
          /\ UNCHANGED <<receiveTask, conn, cancelled>>
      BY <1>3, Numbers DEF DisconnectReturns, TaskTypes
    <2>2. TaskTypes'
      BY <2>1, Numbers DEF TaskTypes
    <2>3. OneLoop' /\ GoingDown'
      BY <2>1 DEF OneLoop, GoingDown
    <2> QED
      BY <2>2, <2>3
  <1> QED
    BY <1>1, <1>2, <1>3 DEF DisconnectStep

-----------------------------------------------------------------------------
(* The loops and the network.                                              *)

LEMMA Loops ==
  ASSUME DownInv, NEW n \in Conns, LoopStep(n)
  PROVE  DownInv'
  <1>0. n \in Tasks /\ n # 0
    BY Numbers
  <1> USE DEF At
  <1>1. CASE HandlePost(n) \/ HandleError(n)
    BY <1>1, Calm DEF HandlePost, HandleError
  <1>2. CASE HandleUpdate(n)
    <2>1. /\ task[n] = "recv"
          /\ UNCHANGED task \/ task' = [task EXCEPT ![n] = "handling"]
          /\ UNCHANGED <<state, ws, receiveTask, cancelled, off, conn>>
      BY <1>2 DEF HandleUpdate, Takes
    <2>2. CASE UNCHANGED task
      BY <2>1, <2>2, Calm
    <2>3. CASE task' = [task EXCEPT ![n] = "handling"]
      BY <1>0, <2>1, <2>3, Moves
    <2> QED
      BY <2>1, <2>2, <2>3
  <1>3. CASE HandlerReturns(n)
    BY <1>0, <1>3, Moves DEF HandlerReturns
  <1>4. CASE Reconnect(n)
    <2> USE DEF DownInv
    <2>1. /\ task[n] = "recv" /\ conn[n] = "lost" /\ n \notin cancelled
          /\ task'[n] = "sleep" /\ \A k \in Tasks : k # n => task'[k] = task[k]
          /\ task' = [k \in Tasks |-> task'[k]]
          /\ UNCHANGED <<ws, receiveTask, off, cancelled>>
      BY <1>0, <1>4 DEF Reconnect, TaskTypes
    <2>2. /\ conn' \in [Conns -> ConnStates] /\ \A k \in Conns : conn'[k] # "open"
          /\ \A k \in Conns : conn'[k] = "none" <=> conn[k] = "none"
      BY <1>4, Closes DEF Reconnect
    <2>3. TaskTypes'
      BY <1>0, <2>1, <2>2, Numbers DEF TaskTypes
    <2>4. OneLoop'
      BY <1>0, <2>1, <2>2, Numbers DEF OneLoop
    <2>5. GoingDown'
      BY <1>0, <2>1, <2>2, Numbers DEF GoingDown, OneLoop
    <2> QED
      BY <2>3, <2>4, <2>5
  <1>5. CASE LoopEnds(n)
    BY <1>0, <1>5, Moves DEF LoopEnds
  <1>6. CASE WakeUp(n)
    BY <1>0, <1>6, Moves DEF WakeUp
  <1>7. CASE Cancelled(n)
    <2> USE DEF DownInv
    <2>1. /\ n \in cancelled /\ task'[n] = "done"
          /\ \A k \in Tasks : k # n => task'[k] = task[k]
          /\ task' = [k \in Tasks |-> task'[k]] /\ cancelled' = cancelled \ {n}
          /\ UNCHANGED <<state, ws, receiveTask, off, conn>>
      BY <1>0, <1>7 DEF Cancelled, TaskTypes
    <2>2. n = receiveTask /\ task[0] = "joining" /\ cancelled' = {}
      BY <2>1 DEF GoingDown
    <2>3. TaskTypes'
      BY <1>0, <2>1, Numbers DEF TaskTypes
    <2>4. OneLoop'
      BY <1>0, <2>1, <2>2, Numbers DEF OneLoop
    <2>5. GoingDown'
      BY <1>0, <2>1, <2>2, Numbers DEF GoingDown, OneLoop
    <2> QED
      BY <2>3, <2>4, <2>5
  <1> QED
    BY <1>1, <1>2, <1>3, <1>4, <1>5, <1>6, <1>7 DEF LoopStep

LEMMA Ends ==
  ASSUME DownInv, NEW n \in Conns, NEW how \in {"lost", "clean"}, ConnectionEnds(n, how)
  PROVE  DownInv'
  <1> USE DEF DownInv
  <1>1. /\ conn[n] = "open" /\ conn' = [conn EXCEPT ![n] = how]
        /\ UNCHANGED <<state, ws, receiveTask, task, cancelled, off>>
    BY DEF ConnectionEnds
  <1>2. TaskTypes' /\ OneLoop'
    BY <1>1 DEF TaskTypes, OneLoop
  <1>3. GoingDown'
    BY <1>1, <1>2 DEF GoingDown, TaskTypes
  <1> QED
    BY <1>2, <1>3

LEMMA DownKept == ~Hasty /\ DownInv /\ [Next]_vars => DownInv'
  <1> SUFFICES ASSUME ~Hasty, DownInv, [Next]_vars PROVE DownInv'
    OBVIOUS
  <1>1. CASE UNCHANGED vars
    BY <1>1, Calm DEF vars
  <1>2. ASSUME NEW c, PlaceOrders(c) \/ UpdateOracle(c) \/ Timeout(c) PROVE DownInv'
    BY <1>2, Calm DEF PlaceOrders, UpdateOracle, Timeout
  <1>3. ASSUME NEW c, CallStep(c) PROVE DownInv'
    BY <1>3, Calm DEF CallStep, Sent, SendRaises, Receive
  <1>4. ASSUME NEW c, Verdict(c) PROVE DownInv'
    BY <1>4, Calm DEF Verdict, Answer, Execute
  <1>5. ASSUME NEW t, Subscribe(t) \/ SubscribeReturns(t) PROVE DownInv'
    BY <1>5, Calm DEF Subscribe, SubscribeReturns
  <1>6. ASSUME NEW n, PushUpdate(n) \/ PushError(n) PROVE DownInv'
    BY <1>6, Calm DEF PushUpdate, PushError
  <1> QED
    BY <1>1, <1>2, <1>3, <1>4, <1>5, <1>6, UserConnects, Connects, Disconnects, GoesDown,
       Loops, Ends DEF Next

(* What disconnect() ends stays ended until the user connects again,       *)
(* whatever was under way when it was called: a handler, a back-off, the   *)
(* opening of a connection, a replay, two loops in a chain.  It is assumed *)
(* that the user does not connect while a receive loop is still about:     *)
(* otherwise two loops live, and disconnect() ends one of them.            *)
THEOREM DisconnectStays == ASSUME ~Hasty PROVE Spec => []DisconnectIsFinal
  <1>1. DownInv => DisconnectIsFinal
    BY DEF DownInv, GoingDown, DisconnectIsFinal
  <1>2. DownInv /\ [Next]_vars => DownInv'
    BY DownKept
  <1> QED
    BY <1>1, <1>2, DownInit, PTL DEF Spec

-----------------------------------------------------------------------------
(* The replay of the subscriptions.                                        *)

ReplayTypes ==
  /\ served = [n \in Conns |-> served[n]]
  /\ job = [p \in Tasks |-> job[p]] /\ via = [p \in Tasks |-> via[p]]
  /\ \A p \in Tasks : task[p] = "subscribing" => via[p] \in Conns
  /\ sub = [t \in UserTopics |-> sub[t]] /\ subVia = [t \in UserTopics |-> subVia[t]]
  /\ \A t \in UserTopics : sub[t] = "sending" => subVia[t] \in Conns

(* Topic t is in the message some connect() is about to write.             *)
BeingSent(t) ==
  \E p \in Tasks : task[p] = "subscribing" /\ via[p] = ws /\ t \in Head(job[p])

NoneForgotten ==
  IsConnected /\ conn[ws] = "open" =>
    \A t \in subscriptions : t \in served[ws] \/ BeingSent(t)

ReplayInv == ReplayTypes /\ NoneForgotten

USE DEF subVars

LEMMA ReplayInit == Init => ReplayInv
  BY DEF Init, ReplayInv, ReplayTypes, NoneForgotten

(* A step that touches no subscription, and leaves the client connected    *)
(* only as it was.                                                         *)
LEMMA ReplayCalm ==
  ASSUME DownInv, ReplayInv, UNCHANGED <<subscriptions, served, job, via, sub, subVia>>,
         \A p \in Tasks : task'[p] = "subscribing" => task[p] = "subscribing",
         \/ state' \in {"CONNECTING", "DISCONNECTED", "RECONNECTING"}
         \/ /\ UNCHANGED <<state, ws>>
            /\ \A n \in Conns : conn'[n] = "open" => conn[n] = "open"
            /\ \A p \in Tasks : task[p] = "subscribing" => task'[p] = "subscribing"
  PROVE  ReplayInv'
  <1>1. ReplayTypes'
    BY DEF ReplayInv, ReplayTypes
  <1>2. ws \in Conns \cup {0}
    BY Numbers DEF DownInv, TaskTypes
  <1>3. NoneForgotten'
    BY <1>2 DEF ReplayInv, NoneForgotten, IsConnected, BeingSent
  <1> QED
    BY <1>1, <1>3 DEF ReplayInv

(* Only the client's own connection is open.                               *)
LEMMA OpenIsWs == DownInv => \A n \in Conns : conn[n] = "open" => n = ws
  BY DEF DownInv, OneLoop

LEMMA ReplayConnects ==
  ASSUME DownInv, ReplayInv, NEW p \in Tasks, ConnectStep(p)
  PROVE  ReplayInv'
  <1> USE DEF ReplayInv
  <1>1. CASE Opened(p)
    <2>1. PICK n \in Conns :
            /\ ws' = n /\ via' = [via EXCEPT ![p] = n] /\ job' = [job EXCEPT ![p] = ToSubscribe]
            /\ task' = [task EXCEPT ![n] = "recv",
                        ![p] = IF ToSubscribe = <<>> THEN Return(p) ELSE "subscribing"]
            /\ conn[n] = "none"
      BY <1>1 DEF Opened
    <2>2. UNCHANGED <<subscriptions, served, sub, subVia>> /\ task[p] = "opening"
      BY <1>1 DEF Opened, At
    <2>3. n # p /\ p \in Tasks /\ n \in Tasks
      BY <2>1, <2>2, Numbers DEF DownInv, OneLoop, TaskTypes
    <2>4. /\ via'[p] = n /\ job'[p] = ToSubscribe
          /\ task'[p] = IF ToSubscribe = <<>> THEN Return(p) ELSE "subscribing"
          /\ task'[n] = "recv"
          /\ \A k \in Tasks : k \notin {n, p} => task'[k] = task[k] /\ via'[k] = via[k]
      BY <2>1, <2>3 DEF ReplayTypes, DownInv, TaskTypes
    <2>5. ReplayTypes'
      BY <2>1, <2>2, <2>3, <2>4 DEF ReplayTypes
    <2>6. CASE subscriptions = {}
      BY <2>2, <2>5, <2>6 DEF NoneForgotten
    <2>7. CASE subscriptions # {}
      <3>1. ToSubscribe = <<subscriptions>> /\ ToSubscribe # <<>>
            /\ Head(ToSubscribe) = subscriptions
        BY <2>7 DEF ToSubscribe
      <3>2. task'[p] = "subscribing" /\ via'[p] = ws' /\ Head(job'[p]) = subscriptions'
        BY <2>1, <2>2, <2>4, <3>1
      <3> QED
        BY <2>5, <3>2 DEF NoneForgotten, BeingSent
    <2> QED
      BY <2>6, <2>7
  <1>2. CASE OpenFails(p)
    <2>1. \A k \in Tasks : task'[k] = "subscribing" => task[k] = "subscribing"
      BY <1>2 DEF OpenFails, Return, DownInv, TaskTypes
    <2> QED
      BY <1>2, <2>1, ReplayCalm DEF OpenFails
  <1>3. CASE SubscribeFails(p)
    <2>1. /\ job' = [job EXCEPT ![p] = <<>>] /\ state' = "DISCONNECTED"
          /\ UNCHANGED <<served, via, sub, subVia>>
      BY <1>3 DEF SubscribeFails
    <2>2. \A k \in Tasks : task'[k] = "subscribing" => task[k] = "subscribing"
      BY <1>3 DEF SubscribeFails, Return, DownInv, TaskTypes
    <2>3. ReplayTypes' /\ NoneForgotten'
      BY <2>1, <2>2 DEF ReplayTypes, NoneForgotten, IsConnected
    <2> QED
      BY <2>3
  <1>4. CASE Subscribed(p)
    <2>1. /\ task[p] = "subscribing" /\ conn[via[p]] = "open" /\ via[p] \in Conns
          /\ served' = [served EXCEPT ![via[p]] = served[via[p]] \cup Head(job[p])]
          /\ subscriptions' = subscriptions \cup Head(job[p])
          /\ job' = [job EXCEPT ![p] = Tail(job[p])]
          /\ UNCHANGED <<ws, conn, sub, subVia>>
      BY <1>4 DEF Subscribed, At, ReplayTypes
    <2>2. via[p] = ws /\ served'[ws] = served[ws] \cup Head(job[p])
      BY <2>1, OpenIsWs DEF ReplayTypes
    <2>3. \/ /\ task' = [task EXCEPT ![p] = Return(p)] /\ UNCHANGED via
             /\ state' = state \/ state' = "DISCONNECTED"
          \/ /\ UNCHANGED <<state, task>> /\ via' = [via EXCEPT ![p] = ws]
      BY <1>4 DEF Subscribed
    <2>4. /\ \A k \in Tasks : task'[k] = "subscribing" => task[k] = "subscribing"
          /\ \A k \in Tasks : k # p => task'[k] = task[k] /\ via'[k] = via[k] /\ job'[k] = job[k]
          /\ task'[p] = "subscribing" => via'[p] = ws
      BY <2>1, <2>2, <2>3 DEF Return, DownInv, TaskTypes, ReplayTypes
    <2>5. ReplayTypes'
      BY <2>1, <2>2, <2>3, <2>4 DEF ReplayTypes
    <2>6. ASSUME IsConnected', conn'[ws'] = "open", NEW t \in subscriptions'
          PROVE  t \in served'[ws] \/ BeingSent(t)'
      <3>1. IsConnected /\ conn[ws] = "open"
        BY <2>1, <2>3, <2>6 DEF IsConnected
      <3>2. CASE t \in Head(job[p]) \/ t \in served[ws]
        BY <2>2, <3>2
      <3>3. CASE t \notin Head(job[p]) /\ t \notin served[ws]
        <4>1. PICK k \in Tasks : task[k] = "subscribing" /\ via[k] = ws /\ t \in Head(job[k])
          BY <2>1, <3>1, <3>3 DEF NoneForgotten, BeingSent
        <4>2. k # p
          BY <3>3, <4>1
        <4> QED
          BY <2>1, <2>4, <4>1, <4>2 DEF BeingSent
      <3> QED
        BY <3>2, <3>3
    <2> QED
      BY <2>1, <2>5, <2>6 DEF NoneForgotten
  <1> QED
    BY <1>1, <1>2, <1>3, <1>4 DEF ConnectStep

LEMMA ReplaySubscribes ==
  ASSUME DownInv, ReplayInv, NEW t \in UserTopics, Subscribe(t) \/ SubscribeReturns(t)
  PROVE  ReplayInv'
  <1> USE DEF ReplayInv
  <1>1. CASE Subscribe(t)
    <2>1. ws \in Conns /\ ws # 0
      BY <1>1, Numbers DEF Subscribe, IsConnected, DownInv, TaskTypes
    <2>2. ReplayTypes'
      BY <1>1, <2>1 DEF Subscribe, ReplayTypes
    <2>3. NoneForgotten'
      BY <1>1 DEF Subscribe, NoneForgotten, IsConnected, BeingSent
    <2> QED
      BY <2>2, <2>3
  <1>2. CASE SubscribeReturns(t)
    <2>1. /\ UNCHANGED <<state, ws, task, job, via, conn, subVia>> /\ sub[t] = "sending"
          /\ sub' = [sub EXCEPT ![t] = "done"] \/ sub' = [sub EXCEPT ![t] = "failed"]
          /\ \/ UNCHANGED <<served, subscriptions>>
             \/ /\ served' = [served EXCEPT ![subVia[t]] = served[subVia[t]] \cup {t}]
                /\ subscriptions' = subscriptions \cup {t}
                /\ conn[subVia[t]] = "open"
      BY <1>2 DEF SubscribeReturns
    <2>2. ReplayTypes'
      BY <2>1 DEF ReplayTypes
    <2>3. subVia[t] \in Conns
      BY <2>1 DEF ReplayTypes
    <2>4. CASE UNCHANGED <<served, subscriptions>>
      BY <2>1, <2>2, <2>4 DEF NoneForgotten, IsConnected, BeingSent
    <2>5. CASE /\ served' = [served EXCEPT ![subVia[t]] = served[subVia[t]] \cup {t}]
               /\ subscriptions' = subscriptions \cup {t}
               /\ conn[subVia[t]] = "open"
      <3>1. served'[ws] = served[ws] \cup {t}
        BY <2>3, <2>5, OpenIsWs DEF ReplayTypes
      <3> QED
        BY <2>1, <2>2, <2>5, <3>1 DEF NoneForgotten, IsConnected, BeingSent
    <2> QED
      BY <2>1, <2>4, <2>5
  <1> QED
    BY <1>1, <1>2

LEMMA ReplayLoops ==
  ASSUME DownInv, ReplayInv, NEW n \in Conns, LoopStep(n)
  PROVE  ReplayInv'
  <1> USE DEF At
  <1>1. task = [p \in Tasks |-> task[p]]
    BY DEF DownInv, TaskTypes
  <1>2. CASE HandlePost(n) \/ HandleError(n)
    BY <1>2, ReplayCalm DEF HandlePost, HandleError
  <1>3. CASE HandleUpdate(n)
    <2>1. /\ task[n] = "recv" /\ (UNCHANGED task \/ task' = [task EXCEPT ![n] = "handling"])
          /\ UNCHANGED <<state, ws, conn, subscriptions, served, job, via, sub, subVia>>
      BY <1>3 DEF HandleUpdate, Takes
    <2>2. \A p \in Tasks : task'[p] = "subscribing" <=> task[p] = "subscribing"
      BY <1>1, <2>1
    <2> QED
      BY <2>1, <2>2, ReplayCalm
  <1>4. CASE HandlerReturns(n) \/ LoopEnds(n) \/ WakeUp(n) \/ Cancelled(n)
    <2>1. /\ task[n] # "subscribing" /\ \E w : w # "subscribing" /\ task' = [task EXCEPT ![n] = w]
          /\ state' \in {state, "CONNECTING"}
          /\ UNCHANGED <<ws, conn, subscriptions, served, job, via, sub, subVia>>
      BY <1>4, Numbers DEF HandlerReturns, LoopEnds, WakeUp, Cancelled, DownInv, GoingDown
    <2>2. \A p \in Tasks : task'[p] = "subscribing" <=> task[p] = "subscribing"
      BY <1>1, <2>1
    <2> QED
      BY <2>1, <2>2, ReplayCalm
  <1>5. CASE Reconnect(n)
    <2>1. \A p \in Tasks : task'[p] = "subscribing" => task[p] = "subscribing"
      BY <1>1, <1>5 DEF Reconnect
    <2> QED
      BY <1>5, <2>1, ReplayCalm DEF Reconnect
  <1> QED
    BY <1>2, <1>3, <1>4, <1>5 DEF LoopStep

LEMMA ReplayUser ==
  ASSUME DownInv, ReplayInv, UserConnect \/ Disconnect \/ DisconnectStep
  PROVE  ReplayInv'
  <1> USE DEF At
  <1>1. task = [p \in Tasks |-> task[p]]
    BY DEF DownInv, TaskTypes
  <1>2. CASE UserConnect
    <2>1. \A p \in Tasks : task'[p] = "subscribing" => task[p] = "subscribing"
      BY <1>1, <1>2 DEF UserConnect
    <2> QED
      BY <1>2, <2>1, ReplayCalm DEF UserConnect
  <1>3. CASE Disconnect \/ Joined \/ Close
    <2>1. /\ task[0] # "subscribing" /\ \E w : w # "subscribing" /\ task' = [task EXCEPT ![0] = w]
          /\ UNCHANGED <<state, ws, subscriptions, served, job, via, sub, subVia>>
      BY <1>3 DEF Disconnect, Joined, Close
    <2>2. \A p \in Tasks : task'[p] = "subscribing" <=> task[p] = "subscribing"
      BY <1>1, <2>1
    <2>3. \A n \in Conns : conn'[n] = "open" => conn[n] = "open"
      BY <1>3 DEF Disconnect, Joined, Close, CloseIt
    <2> QED
      BY <2>1, <2>2, <2>3, ReplayCalm
  <1>4. CASE DisconnectReturns
    <2>1. \A p \in Tasks : task'[p] = "subscribing" => task[p] = "subscribing"
      BY <1>1, <1>4 DEF DisconnectReturns
    <2> QED
      BY <1>4, <2>1, ReplayCalm DEF DisconnectReturns
  <1> QED
    BY <1>2, <1>3, <1>4 DEF DisconnectStep

LEMMA ReplayKept == DownInv /\ ReplayInv /\ [Next]_vars => ReplayInv'
  <1> SUFFICES ASSUME DownInv, ReplayInv, [Next]_vars PROVE ReplayInv'
    OBVIOUS
  <1>1. CASE UNCHANGED vars
    BY <1>1, ReplayCalm DEF vars
  <1>2. ASSUME NEW c, PlaceOrders(c) \/ UpdateOracle(c) \/ Timeout(c) PROVE ReplayInv'
    BY <1>2, ReplayCalm DEF PlaceOrders, UpdateOracle, Timeout
  <1>3. ASSUME NEW c, CallStep(c) PROVE ReplayInv'
    BY <1>3, ReplayCalm DEF CallStep, Sent, SendRaises, Receive
  <1>4. ASSUME NEW c, Verdict(c) PROVE ReplayInv'
    BY <1>4, ReplayCalm DEF Verdict, Answer, Execute
  <1>5. ASSUME NEW n, PushUpdate(n) \/ PushError(n) PROVE ReplayInv'
    BY <1>5, ReplayCalm DEF PushUpdate, PushError
  <1>6. ASSUME NEW n \in Conns, NEW how \in {"lost", "clean"}, ConnectionEnds(n, how)
        PROVE  ReplayInv'
    <2>1. \A k \in Conns : conn'[k] = "open" => conn[k] = "open"
      BY <1>6 DEF ConnectionEnds, DownInv, TaskTypes
    <2> QED
      BY <1>6, <2>1, ReplayCalm DEF ConnectionEnds
  <1> QED
    BY <1>1, <1>2, <1>3, <1>4, <1>5, <1>6, ReplayUser, ReplayConnects, ReplaySubscribes,
       ReplayLoops DEF Next

(* When no connect() is under way, the exchange serves every topic of the  *)
(* list on the client's connection, however subscriptions, losses and      *)
(* reconnections interleave; assumed as above of the user.                 *)
THEOREM ReplayComplete == ASSUME ~Hasty PROVE Spec => []SubscriptionsReplayed
  <1>1. ReplayInv => SubscriptionsReplayed
    BY DEF ReplayInv, NoneForgotten, BeingSent, SubscriptionsReplayed
  <1>2. DownInv /\ [Next]_vars => DownInv'
    BY DownKept
  <1> QED
    BY <1>1, <1>2, DownInit, ReplayInit, ReplayKept, PTL DEF Spec
=============================================================================
