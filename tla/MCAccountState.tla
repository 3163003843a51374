--------------------------- MODULE MCAccountState ---------------------------
(* Model values of the instances of AccountState that TLC checks.          *)
EXTENDS AccountState

CONSTANTS o1, o2, t1
=============================================================================
