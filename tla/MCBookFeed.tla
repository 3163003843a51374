----------------------------- MODULE MCBookFeed ----------------------------
(* The instance of BookFeed that TLC checks.                               *)
EXTENDS BookFeed

(* From 2 on, so that a fine and a coarse bucket coincide: asks at 3 and 4.*)
ThreePrices == 2..4
TwoSizes == {1, 2}
=============================================================================
