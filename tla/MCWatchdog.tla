------------------------------- MODULE MCWatchdog -------------------------------
(* Watchdog in half minutes, with the times of the code. *)
EXTENDS Watchdog
=============================================================================
