---------------------------- MODULE MCTrailingStop ----------------------------
(* TrailingStop on a few dozen prices: both directions, a stop on the wrong side of the
   entry, a stop at the entry, and entries on and off the grid. *)
EXTENDS TrailingStop

SomeTrades ==
    {[dir |-> "BUY",  entry |-> 9,  stop |-> 5],  [dir |-> "BUY",  entry |-> 9,  stop |-> 12],
     [dir |-> "SELL", entry |-> 14, stop |-> 18], [dir |-> "SELL", entry |-> 14, stop |-> 14]}
=============================================================================
