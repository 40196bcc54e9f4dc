----------------------------- MODULE MCPriceSensor -----------------------------
(* PriceSensor with ticks without a bid, and two prices that are a spike apart. *)
EXTENDS PriceSensor
=============================================================================
