----------------------------- MODULE MCWsClient -----------------------------
(* Model values and symmetry of the instances of WsClient that TLC checks. *)
EXTENDS WsClient, TLC

CONSTANTS r1, r2, q1, u1, s1, s2, c1, w1, w2

CallSymmetry == Permutations(Requests) \cup Permutations(Stoppers) \cup Permutations(Watchers)
=============================================================================
