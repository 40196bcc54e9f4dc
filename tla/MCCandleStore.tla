---------------------------- MODULE MCCandleStore ----------------------------
(***************************************************************************)
(* Candles of one and of two minutes, over four minutes, with one call,    *)
(* early or late, to an account in UTC or ahead of it.                     *)
(***************************************************************************)
EXTENDS CandleStore

MCTimeframes == <<1, 2>>
MCAsked == {<<2, 0>>, <<1, 4>>}
MCOffsets == {0, 3}
MCAbsent == {{}, {"low"}}
=============================================================================
