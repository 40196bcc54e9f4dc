---------------------------- MODULE MCTradeExecutor ----------------------------
(* TradeExecutor on small clocks, prices and sets of signals. *)
EXTENDS TradeExecutor

\* Every trigger in both directions, and an instant entry watched, not watched and dry: once
\* the order is out, a trade no longer depends on how it was triggered.
SomeSignals == {s \in Signal : \/ ~s.dry /\ s.trailing /\ s.entry # "INSTANT"
                               \/ s.dir = "BUY" /\ s.entry = "INSTANT"}

Instant == {s \in SomeSignals : ~s.dry /\ s.trailing /\ s.entry = "INSTANT"}
=============================================================================
