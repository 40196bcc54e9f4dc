----------------------------- MODULE MCRiskManager -----------------------------
(* RiskManager on small balances and prices, below, at and above the floor. *)
EXTENDS RiskManager

SomeBalances == -1..14
SomeLevels   == 3..9
SomeATRs     == 0..3
=============================================================================
