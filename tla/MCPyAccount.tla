---------------------------- MODULE MCPyAccount ----------------------------
(* The instance of PyAccount that TLC checks: one symbol.                  *)
EXTENDS PyAccount

CONSTANTS o1, o2, btc, usdc

OneSymbol == [o \in {o1, o2} |-> btc]
(* Multiples of 16: a position of two units halves them at most four times. *)
TwoPrices == {16, 48}
=============================================================================
