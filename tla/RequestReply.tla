---------------------------- MODULE RequestReply ----------------------------
(***************************************************************************)
(* What a trading call of the SDK promises its caller, whatever happens to *)
(* the socket: it returns once, and what it returns about the exchange is  *)
(* true.  "accepted" and "rejected" are the exchange's own verdict on this *)
(* very request, "notSent" means the exchange never executes it, not even  *)
(* later, and "unknown" promises nothing.                                  *)
(***************************************************************************)
CONSTANT Requests    \* the calls made by the program's tasks

VARIABLES
  phase,      \* phase[r]: "new", "open" (the call runs) or "done"
  result,     \* result[r]: what the call returned
  verdict     \* verdict[r]: what the exchange did with the request

vars == <<phase, result, verdict>>

Verdicts == {"none", "accepted", "rejected"}
Results  == {"none", "accepted", "rejected", "notSent", "unknown"}

Init ==
  /\ phase   = [r \in Requests |-> "new"]
  /\ result  = [r \in Requests |-> "none"]
  /\ verdict = [r \in Requests |-> "none"]

(* A task calls the client.                                                *)
Issue(r) ==
  /\ phase[r] = "new"
  /\ phase' = [phase EXCEPT ![r] = "open"]
  /\ UNCHANGED <<result, verdict>>

(* The exchange executes a request, at most once, while its call runs or   *)
(* after the call has given up on it, but never one returned as not sent.  *)
Execute(r, v) ==
  /\ phase[r] # "new"
  /\ verdict[r] = "none"
  /\ result[r] # "notSent"
  /\ v \in Verdicts \ {"none"}
  /\ verdict' = [verdict EXCEPT ![r] = v]
  /\ UNCHANGED <<phase, result>>

(* The call returns: a definite answer is the exchange's verdict.          *)
Return(r, a) ==
  /\ phase[r] = "open"
  /\ \/ a \in Verdicts \ {"none"} /\ verdict[r] = a
     \/ a = "notSent" /\ verdict[r] = "none"
     \/ a = "unknown"
  /\ phase'  = [phase EXCEPT ![r] = "done"]
  /\ result' = [result EXCEPT ![r] = a]
  /\ UNCHANGED verdict

Next ==
  \E r \in Requests :
    \/ Issue(r)
    \/ \E v \in Verdicts : Execute(r, v)
    \/ \E a \in Results : Return(r, a)

Spec == Init /\ [][Next]_vars
=============================================================================
