---------------------------- MODULE MCStrategyServer ----------------------------
(* StrategyServer with two markets and an account a few units above its floor. *)
EXTENDS StrategyServer

CONSTANTS m1, m2

TwoMarkets == {m1, m2}
SomeBalances  == {9}
=============================================================================
